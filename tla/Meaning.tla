------------------------------- MODULE Meaning ------------------------------
(***************************************************************************)
(* What a SELECT statement returns, as far as the models need it: the      *)
(* reference that the output of the optimizer is compared with.  It models *)
(* no code of the repository.                                              *)
(*                                                                         *)
(* A database maps the name of a relation to a table: its columns and its  *)
(* rows, which map columns to numbers or Null.  Rows are a bag: each is    *)
(* paired with the number of its copy.  A scope maps the names that a FROM *)
(* clause defines to such pairs (or, to look names up, to sets of          *)
(* columns).  The environment of a subquery is the list of the scopes      *)
(* around it, innermost first.  The order of the rows is not compared.     *)
(***************************************************************************)
EXTENDS SqlToRa

Null == -1

(* Three truth values: AND is the minimum, OR the maximum, NOT the rest to 2 *)
Falsity == 0
Unknown == 1
Verity  == 2
Truth(b) == IF b THEN Verity ELSE Falsity

Named(item) == IF item.alias # NoName THEN item.alias ELSE item.name

(* The names in a scope that the column can belong to *)
Matches(column, scope, Cols(_)) ==
    {b \in DOMAIN scope : column.name \in Cols(scope[b]) /\ column.alias \in {NoName, b}}

(* The position of the innermost scope that knows the column, 0 if none does *)
Innermost(column, env, Cols(_)) ==
    LET knowing == {i \in DOMAIN env : Matches(column, env[i], Cols) # {}}
    IN  IF knowing = {} THEN 0 ELSE Min(knowing)

-----------------------------------------------------------------------------
(* Names: which columns a query has, and whether its columns can be resolved *)

IsCol(e) == e.op = "attr" /\ e.name # Star.name

ColsIn(cols) == cols

(* The name of the i-th column of q; names: the columns "as t(..)" gives, if any *)
ColumnName(q, names, i) ==
    IF names # <<>> THEN names[i] ELSE IF IsCol(q.targets[i]) THEN q.targets[i].name ELSE <<"?", i>>

(* A table that q defines has no two columns of one name *)
DefinesTable(q, names) ==
    /\ names # <<>> => Len(names) = Len(q.targets)
    /\ IsInjective([i \in DOMAIN q.targets |-> ColumnName(q, names, i)])

RECURSIVE Signature(_, _)
RECURSIVE ColumnsOf(_, _, _)
RECURSIVE Resolves(_, _, _)
RECURSIVE Valid(_, _, _)

(* A scope of sets of columns for a list of FROM items; cols: of the tables *)
Signature(from, cols) ==
    LET Item(item) ==
            CASE item.kind = "rel"  -> Named(item) :> IF item.name \in DOMAIN cols
                                                      THEN cols[item.name] ELSE {}
              [] item.kind = "sub"  -> item.alias :> ColumnsOf(item.query, item.columns, cols)
              [] item.kind = "join" -> Signature(<<item.l, item.r>>, cols)
        Add(scope, item) == scope @@ Item(item)
    IN  FoldLeft(Add, <<>>, from)

ColumnsOf(q, names, cols) ==
    LET Of(i, scope) == IF q.targets[i].name = Star.name THEN UNION {scope[b] : b \in DOMAIN scope}
                        ELSE {ColumnName(q, names, i)}
        All(scope) == UNION {Of(i, scope) : i \in DOMAIN q.targets}
    IN  All(Signature(q.from, cols))

(* Every column in e belongs to exactly one name of the innermost scope that knows it *)
Resolves(e, env, cols) ==
    /\ e.op # "assert"
    /\ IsCol(e) => LET i == Innermost(e, env, ColsIn)
                   IN  i # 0 /\ Cardinality(Matches(e, env[i], ColsIn)) = 1
    /\ \A i \in DOMAIN e.args : Resolves(e.args[i], env, cols)
    /\ e.query # <<>> => Valid(e.query, env, cols)

Valid(q, env, cols) ==
    LET Exprs == q.targets \o q.group \o q.order \o <<q.where, q.having>>
        Inside(scope) == \A i \in DOMAIN Exprs : Resolves(Exprs[i], <<scope>> \o env, cols)
    IN  /\ \A i \in DOMAIN q.from :
              /\ q.from[i].kind = "rel" => q.from[i].name \in DOMAIN cols
              /\ q.from[i].kind = "sub" => /\ Valid(q.from[i].query, env, cols)
                                           /\ DefinesTable(q.from[i].query, q.from[i].columns)
        /\ Inside(Signature(q.from, cols))

(* The columns of the tables and of the common table expressions before the n-th *)
RECURSIVE WithColumns(_, _, _)
WithColumns(with, n, cols) ==
    IF n = 1 THEN cols
    ELSE LET Add(known) == (with[n - 1].name :> ColumnsOf(with[n - 1].query, with[n - 1].columns, known)) @@ known
         IN  Add(WithColumns(with, n - 1, cols))

(* A whole statement: a common table expression sees only those before it *)
ValidStatement(q, cols) ==
    /\ \A i \in DOMAIN q.with : /\ Valid(q.with[i].query, <<>>, WithColumns(q.with, i, cols))
                                /\ DefinesTable(q.with[i].query, q.with[i].columns)
    /\ Valid(q, <<>>, WithColumns(q.with, Len(q.with) + 1, cols))

-----------------------------------------------------------------------------
(* Results *)

RowCols(copy) == DOMAIN copy[1]

Compare(oper, x, y) ==
    IF x = Null \/ y = Null THEN Unknown
    ELSE CASE oper = "="  -> Truth(x = y)
           [] oper = "<>" -> Truth(x # y)
           [] oper = "<"  -> Truth(x < y)
           [] oper = ">"  -> Truth(x > y)

(* values: pairs of a scope and the value there, which is not Null *)
Aggregate(name, values) ==
    CASE name = "count" -> Cardinality(values)
      [] name = "min" -> IF values = {} THEN Null ELSE Min({v[2] : v \in values})
      [] name = "sum" -> IF values = {} THEN Null ELSE FoldSet(LAMBDA v, acc : v[2] + acc, 0, values)

(* The bag of the first members of the pairs *)
Copies(pairs) ==
    UNION {{row} \X (1 .. Cardinality({p \in pairs : p[1] = row})) : row \in {p[1] : p \in pairs}}

RECURSIVE Eval(_, _, _, _)
RECURSIVE Scopes(_, _, _)
RECURSIVE Table(_, _, _, _)

(* The value of e; group: the scopes an aggregate ranges over *)
Eval(e, env, group, db) ==
    LET Arg(i)  == Eval(e.args[i], env, group, db)
        Args    == {Arg(i) : i \in DOMAIN e.args}
        Values(rows) == {copy[1][c] : copy \in rows, c \in UNION {RowCols(r) : r \in rows}}
        Held(i) == env[i][CHOOSE b \in Matches(e, env[i], RowCols) : TRUE][1][e.name]
        Sub     == Values(Table(e.query, <<>>, env, db).rows)
    IN  CASE e.op = "const" -> 1
          [] e.op = "none"  -> Verity
          [] e.op = "attr"  -> Held(Innermost(e, env, RowCols))
          [] e.op = "func"  -> Aggregate(e.oper, {v \in {<<s, Eval(e.args[1], <<s>> \o Tail(env), {}, db)>> :
                                                            s \in group} : v[2] # Null})
          [] e.op = "cmp" /\ e.oper # "between" -> Compare(e.oper, Arg(1), Arg(2))
          [] e.op = "null"  -> Truth(Arg(1) = Null)
          [] e.op = "and"   -> Min(Args)
          [] e.op = "or"    -> Max(Args)
          [] e.op = "not"   -> 2 - Arg(1)
          [] e.op = "exists" -> Truth(Table(e.query, <<>>, env, db).rows # {})
          [] e.op = "in"    -> Max({Falsity} \cup {Compare("=", Arg(1), v) : v \in Sub})
          [] e.op = "scalar" -> IF Sub = {} THEN Null ELSE CHOOSE v \in Sub : TRUE

(* The scopes a list of FROM items gives *)
Scopes(from, env, db) ==
    LET Rows(name, table) == {name :> copy : copy \in table.rows}
        Missing(side) == [b \in {Named(side)} |-> <<[c \in db[side.name].cols |-> Null], 1>>]
        Holds(item, s) == Eval(item.quals, <<s>> \o env, {}, db) = Verity
        LeftJoined(item, L, R) ==
            {s \in {l @@ r : l \in L, r \in R} : Holds(item, s)} \cup
            {l @@ Missing(item.r) : l \in {x \in L : item.type = "LEFT"
                                                     /\ \A r \in R : ~Holds(item, x @@ r)}}
        Item(item) ==
            CASE item.kind = "rel"  -> Rows(Named(item), db[item.name])
              [] item.kind = "sub"  -> Rows(item.alias, Table(item.query, item.columns, env, db))
              [] item.kind = "join" -> LeftJoined(item, Scopes(<<item.l>>, env, db),
                                                        Scopes(<<item.r>>, env, db))
        Product(scopes, item) == {s @@ t : s \in scopes, t \in Item(item)}
    IN  FoldLeft(Product, {<<>>}, from)

(* The rows a query returns *)
Table(q, names, env, db) ==
    LET Aggregated == q.group # <<>> \/ \E i \in DOMAIN q.targets : has_aggregate(q.targets[i])
        Where(scopes) == {s \in scopes : Eval(q.where, <<s>> \o env, {}, db) = Verity}
        Key(s) == [i \in DOMAIN q.group |-> Eval(q.group[i], <<s>> \o env, {}, db)]
        Groups(scopes) ==
            IF ~Aggregated THEN {{s} : s \in scopes}
            ELSE IF q.group = <<>> THEN {scopes}
            ELSE {{t \in scopes : Key(t) = Key(s)} : s \in scopes}
        Inner(group) == IF group = {} THEN <<>> ELSE CHOOSE s \in group : TRUE
        Target(i, s, group) ==
            CASE q.targets[i].name = Star.name -> FoldFunction(LAMBDA copy, row : copy[1] @@ row, <<>>, s)
              [] OTHER -> ColumnName(q, names, i) :> Eval(q.targets[i], <<s>> \o env, group, db)
        Row(s, group) == FoldLeft(LAMBDA row, i : Target(i, s, group) @@ row, <<>>,
                                  [i \in DOMAIN q.targets |-> i])
        Chosen(groups) == {g \in groups : Eval(q.having, <<Inner(g)>> \o env, g, db) = Verity}
        Rows(groups) == Copies({<<Row(Inner(g), g), g>> : g \in groups})
        Cols == ColumnsOf(q, names, [name \in DOMAIN db |-> db[name].cols])
    IN  [cols |-> Cols, rows |-> Rows(Chosen(Groups(Where(Scopes(q.from, env, db)))))]

(* The rows of a whole statement, with its common table expressions *)
RECURSIVE WithTables(_, _)
WithTables(with, db) ==
    IF with = <<>> THEN db
    ELSE WithTables(Tail(with), (with[1].name :> Table(with[1].query, with[1].columns, <<>>, db)) @@ db)

Result(q, db) == Table(q, <<>>, <<>>, WithTables(q.with, db)).rows

Columns(db) == [name \in DOMAIN db |-> db[name].cols]

(* Both statements can be run and return the same rows on the database *)
SameRows(p, q, db) ==
    /\ ValidStatement(p, Columns(db)) /\ ValidStatement(q, Columns(db))
    /\ Result(p, db) = Result(q, db)

=============================================================================
