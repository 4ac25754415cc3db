------------------------------ MODULE SqlToRa -------------------------------
(***************************************************************************)
(* SQLtoRA (src/optimizer/parse_sql_to_ra.cc): the translation of a parsed *)
(* SELECT statement into the relational algebra tree.  The statement is    *)
(* pg_query's parse tree; it is external and enters as nested records.     *)
(*                                                                         *)
(* The functions thread the heap they allocate in as a record h; the       *)
(* pointer a function returns is h.r (0 is nullptr).  status leaves "ok"   *)
(* when the process dies: "assert" is the failed assertion of add_subtree, *)
(* "overflow" its endless recursion into a cycle, "nullptr" a dereference. *)
(***************************************************************************)
EXTENDS RaTree

-----------------------------------------------------------------------------
(* pg_query's parse tree *)

Expr(op, args)      == [op |-> op, args |-> args, alias |-> NoName, name |-> <<"", "">>,
                        oper |-> "", query |-> <<>>]
NoExpr              == Expr("none", <<>>)
Const               == Expr("const", <<>>)
Column(alias, name) == [Expr("attr", <<>>) EXCEPT !.alias = alias, !.name = name]
Star                == Column(NoName, <<"*", "">>)
Cmp(l, oper, r)     == [Expr("cmp", <<l, r>>) EXCEPT !.oper = oper]
Func(name, args)    == [Expr("func", args) EXCEPT !.oper = name]
Scalar(query)       == [Expr("scalar", <<>>) EXCEPT !.query = query]
Exists(query)       == [Expr("exists", <<>>) EXCEPT !.query = query]
In(test, query)     == [Expr("in", <<test>>) EXCEPT !.query = query]

RangeVar(name, alias)    == [kind |-> "rel", name |-> name, alias |-> alias]
RangeSubselect(query, a, columns) ==
    [kind |-> "sub", query |-> query, alias |-> a, columns |-> columns]
JoinExpr(type, alias, l, r, quals) ==
    [kind |-> "join", type |-> type, alias |-> alias, l |-> l, r |-> r, quals |-> quals]

CommonTable(name, columns, query) == [name |-> name, columns |-> columns, query |-> query]

Select(targets, from, where) ==
    [with |-> <<>>, targets |-> targets, from |-> from, where |-> where,
     group |-> <<>>, having |-> NoExpr, order |-> <<>>]

-----------------------------------------------------------------------------
(* The heap under construction *)

EmptyHeap == [node |-> [n \in Node |-> Free], ch |-> [n \in Node |-> <<>>],
              pred |-> [n \in Node |-> <<>>], columns |-> [n \in Node |-> <<>>],
              term |-> <<>>, ctes |-> <<>>,
              fresh |-> 1, counter |-> 0, r |-> 0, status |-> "ok"]

(* std::make_shared of a tree node, of a predicate or expression *)
MakeNode(h, label) ==
    [h EXCEPT !.node[h.fresh] = label, !.fresh = @ + 1, !.r = h.fresh]

MakeTerm(h, e, args, id) ==
    [h EXCEPT !.term = Append(@, [op |-> e.op, args |-> args, alias |-> e.alias,
                                  name |-> e.name, oper |-> e.oper, id |-> id]),
              !.r = Len(h.term) + 1]

Die(h, why) == IF h.status = "ok" THEN [h EXCEPT !.status = why] ELSE h

(***************************************************************************)
(* find_empty_leaf: depth first, the first node that lacks a child.  path  *)
(* holds the nodes being visited: meeting one again is recursion without   *)
(* end.                                                                    *)
(***************************************************************************)
NoLeaf  == 0
Endless == -1

RECURSIVE find_empty_leaf(_, _, _)
find_empty_leaf(h, n, path) ==
    LET case  == h.node[n].node_case
        found == {i \in DOMAIN h.ch[n] :
                     find_empty_leaf(h, h.ch[n][i], path \cup {n}) # NoLeaf}
    IN  IF n \in path THEN Endless
        ELSE IF n_children(case) = 0 THEN NoLeaf
        ELSE IF Len(h.ch[n]) < n_children(case) THEN n
        ELSE IF found = {} THEN NoLeaf
        ELSE find_empty_leaf(h, h.ch[n][Min(found)], path \cup {n})

(* Mutant: a join takes the subtree as its right child, too *)
WithChildAtEnd(node, children, subtree) == Append(children, subtree)

(* The missing child of a join is the left one *)
WithChild(node, children, subtree) ==
    IF node.node_case = "JOIN" THEN <<subtree>> \o children ELSE Append(children, subtree)

add_subtree(h, base, subtree) ==
    LET Insert(it) ==
            CASE it = NoLeaf  -> Die(h, "assert")
              [] it = Endless -> Die(h, "overflow")
              [] OTHER -> [h EXCEPT !.ch[it] = WithChild(h.node[it], @, subtree)]
    IN  CASE h.status # "ok" -> h
          [] h.status = "ok" /\ base = 0 -> Die(h, "nullptr")
          [] OTHER -> Insert(find_empty_leaf(h, base, {}))

-----------------------------------------------------------------------------
(* Expressions *)

RECURSIVE parse_expression(_, _)
RECURSIVE parse_expressions(_, _)

(* Mutant: columns have no case either *)
parse_expression_no_column(h, e) ==
    LET Make(parsed) == MakeTerm(parsed.h, e, parsed.args, 0)
    IN  IF e.op \in {"scalar", "exists", "in", "none", "attr"}
        THEN [h EXCEPT !.r = 0]
        ELSE Make(parse_expressions(h, e.args))

parse_expression(h, e) ==
    LET Make(parsed) == MakeTerm(parsed.h, e, parsed.args, 0)
    IN  IF h.status # "ok" THEN h
        ELSE IF e.op \in {"scalar", "exists", "in", "none"}
        THEN [h EXCEPT !.r = 0]                  \* no case for a sublink
        ELSE Make(parse_expressions(h, e.args))

(* A list of expressions in order, with the pointers of their translations *)
parse_expressions(h, es) ==
    LET Add(g, args)  == [h |-> g, args |-> Append(args, g.r)]
        Parse(acc, e) == Add(parse_expression(acc.h, e), acc.args)
    IN  FoldLeft(Parse, [h |-> h, args |-> <<>>], es)

Aggregates == {"min", "max", "sum", "count", "avg"}

RECURSIVE has_aggregate(_)
has_aggregate(e) == \/ e.op = "func" /\ e.oper \in Aggregates
                    \/ \E i \in DOMAIN e.args : has_aggregate(e.args[i])

RECURSIVE find_expression_attributes(_)
find_expression_attributes(e) ==
    CASE e.op = "attr" -> {e}
      [] e.op \in {"expr", "func", "cmp"} ->
             UNION {find_expression_attributes(e.args[i]) : i \in DOMAIN e.args}
      [] OTHER -> {}

RECURSIVE find_where_expression_attributes(_)
find_where_expression_attributes(e) ==
    CASE e.op \in {"and", "or", "not"} ->
             UNION {find_where_expression_attributes(e.args[i]) : i \in DOMAIN e.args}
      [] e.op = "cmp" -> find_expression_attributes(e)
      [] OTHER -> {}

-----------------------------------------------------------------------------
(* Is the subquery correlated?  Derived tables of its FROM are not looked at. *)

is_correlated_subquery(q) ==
    LET items == ToSet(q.from)
        joins == {f \in items : f.kind = "join"}
        relations_aliases ==
            {<<f.name, f.alias>> : f \in {g \in items : g.kind = "rel"}}
              \cup {<<f.l.name, f.l.alias>> : f \in joins}
              \cup {<<f.r.name, f.r.alias>> : f \in joins}
        attributes ==
            UNION {find_expression_attributes(q.targets[i]) : i \in DOMAIN q.targets}
              \cup find_where_expression_attributes(q.where)
              \cup UNION {find_where_expression_attributes(f.quals) : f \in joins}
        Found(attr) == \E rel \in relations_aliases :
            IF attr.alias # NoName
            THEN attr.alias = rel[1] \/ attr.alias = rel[2]
            ELSE is_tpch_attribute(attr.name, rel[1])
    IN  \E attr \in attributes : attr.name # Star.name /\ ~Found(attr)

-----------------------------------------------------------------------------
(* Clauses.  Each returns the heap with its subtree in h.r, 0 for none. *)

RECURSIVE parse_select_statement(_, _)
RECURSIVE parse_where_expression(_, _, _, _)

(***************************************************************************)
(* parse_where_subquery, parse_where_exists_subquery and                   *)
(* parse_where_in_subquery: the join that carries the subquery as its      *)
(* right child; its left child is still missing.  The marker number is     *)
(* taken before the subquery's own.                                        *)
(***************************************************************************)
SubqueryJoinType(e, negated) ==
    LET Type(kind) == CASE kind = <<"scalar", TRUE>>  -> "DEPENDENT_INNER_LEFT"
                        [] kind = <<"scalar", FALSE>> -> "CROSS_PRODUCT"
                        [] kind = <<"exists", TRUE>>  ->
                               IF negated THEN "ANTI_LEFT_DEPENDENT" ELSE "SEMI_LEFT_DEPENDENT"
                        [] kind = <<"exists", FALSE>> ->
                               IF negated THEN "ANTI_LEFT" ELSE "SEMI_LEFT"
                        [] kind = <<"in", TRUE>>  ->
                               IF negated THEN "ANTI_IN_LEFT_DEPENDENT" ELSE "IN_LEFT_DEPENDENT"
                        [] kind = <<"in", FALSE>> ->
                               IF negated THEN "ANTI_IN_LEFT" ELSE "IN_LEFT"
    IN  Type(<<e.op, is_correlated_subquery(e.query)>>)

(* Mutant: the counter of the markers is read but not advanced *)
CountMarkerNot(h) == h

(* ++counter *)
CountMarker(h) == [h EXCEPT !.counter = @ + 1]

(* The test of an IN becomes a predicate of the join, without a right side *)
parse_in_test(h, test, join) ==
    LET Make(g) == MakeTerm(g, Cmp(NoExpr, "", NoExpr), <<g.r>>, 0)
        Hold(g) == [g EXCEPT !.pred[join] = <<g.r>>]
    IN  Hold(Make(parse_expression(h, test)))

parse_subquery_join(h, e, negated) ==
    LET join    == h.fresh
        made    == MakeNode(CountMarker(h), Join(SubqueryJoinType(e, negated), h.counter + 1))
        Hang(g) == [g EXCEPT !.ch[join] = <<g.r>>]
        Test(g) == IF e.op = "in" THEN parse_in_test(g, e.args[1], join) ELSE g
    IN  [Test(Hang(parse_select_statement(made, e.query))) EXCEPT !.r = join]

(* The marker object of a join, with its type, which the predicate points at *)
MakeMarker(h, join) ==
    MakeTerm(h, [Expr("marker", <<>>) EXCEPT !.oper = h.node[join].type],
             <<>>, h.node[join].marker)

(* A side of a comparison: the expression, or the marker of a subquery join *)
ParseSide(h, e) ==
    LET Side(g, join) == [h |-> g, t |-> g.r, join |-> join]
        Marked(g)     == Side(MakeMarker(g, g.r), g.r)
    IN  IF e.op = "scalar" THEN Marked(parse_subquery_join(h, e, FALSE))
        ELSE Side(parse_expression(h, e), 0)

AttachJoin(h, selection, join) == IF join = 0 THEN h ELSE add_subtree(h, selection, join)

(* Mutant: the join of a subquery on the right is attached twice as well *)
parse_comparison_twice(h, e, selection) ==
    LET Attach(g, join) == AttachJoin(g, selection, join)
        Make(left, right) ==
            MakeTerm(Attach(Attach(right.h, right.join), right.join), e, <<left.t, right.t>>, 0)
        Right(left) == Make(left, ParseSide(left.h, e.args[2]))
    IN  Right(ParseSide(h, e.args[1]))

(***************************************************************************)
(* A comparison.  The join of a subquery on the left is attached as soon   *)
(* as it is made, and once more at the end with the right one.             *)
(***************************************************************************)
parse_comparison(h, e, selection) ==
    LET Attach(g, join) == AttachJoin(g, selection, join)
        Make(left, right) ==
            MakeTerm(Attach(Attach(right.h, left.join), right.join), e, <<left.t, right.t>>, 0)
        Right(left) == Make(left, ParseSide(Attach(left.h, left.join), e.args[2]))
    IN  Right(ParseSide(h, e.args[1]))

parse_where_expression(h, e, selection, sublink_negated) ==
    LET Add(g, args)  == [h |-> g, args |-> IF g.r = 0 THEN args ELSE Append(args, g.r)]
        Arg(acc, a)   == Add(parse_where_expression(acc.h, a, selection, e.op = "not"), acc.args)
        Make(parsed)  == MakeTerm(parsed.h, e, parsed.args, 0)
        Marked(g)     == MakeMarker(add_subtree(g, selection, g.r), g.r)
    IN  CASE h.status # "ok" -> h
          [] h.status = "ok" /\ e.op \in {"and", "or", "not"} ->
                 Make(FoldLeft(Arg, [h |-> h, args |-> <<>>], e.args))
          [] h.status = "ok" /\ e.op = "cmp"  -> parse_comparison(h, e, selection)
          [] h.status = "ok" /\ e.op = "null" -> parse_expression(h, e)
          [] h.status = "ok" /\ e.op \in {"exists", "in"} ->
                 Marked(parse_subquery_join(h, e, sublink_negated))
          [] OTHER -> [h EXCEPT !.r = 0]         \* "error parse where expr"

(* A predicate pointer as the list of its conjuncts *)
PredicateOf(h, t) == IF t = 0 THEN <<>>
                     ELSE IF h.term[t].op = "and" THEN h.term[t].args ELSE <<t>>

(* A node of the given case with the predicate e, for parse_where and parse_having *)
ParsePredicateNode(h, case, e) ==
    LET n       == h.fresh
        Hold(g) == [g EXCEPT !.pred[n] = PredicateOf(g, g.r), !.r = n]
    IN  Hold(parse_where_expression(MakeNode(h, NewNode(case)), e, n, FALSE))

(* A selection without a predicate is skipped for its child *)
parse_where(h, where) ==
    LET Skip(g) == IF g.pred[g.r] # <<>> THEN g
                   ELSE IF g.ch[g.r] = <<>> THEN Die(g, "nullptr")
                   ELSE [g EXCEPT !.r = g.ch[g.r][1]]
    IN  IF where = NoExpr THEN [h EXCEPT !.r = 0]
        ELSE Skip(ParsePredicateNode(h, "SELECTION", where))

parse_having(h, having) ==
    LET Skip(g) == IF g.pred[g.r] = <<>> THEN [g EXCEPT !.r = 0] ELSE g
    IN  IF having = NoExpr THEN [h EXCEPT !.r = 0]
        ELSE Skip(ParsePredicateNode(h, "HAVING", having))

(* parse_group_by, parse_order_by: a node with its arguments *)
ParseArgsNode(h, case, es) ==
    LET n         == h.fresh
        Hold(acc) == [acc.h EXCEPT !.node[n].args = acc.args, !.r = n]
    IN  IF es = <<>> THEN [h EXCEPT !.r = 0]
        ELSE Hold(parse_expressions(MakeNode(h, NewNode(case)), es))

(* The projection, above a GROUP BY dummy when only aggregates make it group *)
parse_select(h, q) ==
    LET n         == h.fresh
        dummy     == [NewNode("GROUP_BY") EXCEPT !.implicit = TRUE]
        Hold(acc) == [acc.h EXCEPT !.node[n].args = acc.args, !.r = n]
        Group(g)  == IF q.group = <<>> /\ \E i \in DOMAIN q.targets : has_aggregate(q.targets[i])
                     THEN [add_subtree(MakeNode(g, dummy), n, g.fresh) EXCEPT !.r = n] ELSE g
    IN  Group(Hold(parse_expressions(MakeNode(h, NewNode("PROJECTION")), q.targets)))

(* A correlated derived table is not supported: it yields nullptr *)
parse_from_subquery(h, item) ==
    LET Named(g) == IF is_correlated_subquery(item.query) THEN [g EXCEPT !.r = 0]
                    ELSE [g EXCEPT !.node[g.r].alias = item.alias, !.columns[g.r] = item.columns]
    IN  Named(parse_select_statement(h, item.query))

parse_from_join(h, item) ==
    LET join    == h.fresh
        made    == MakeNode(h, [Join(item.type, 0) EXCEPT !.alias = item.alias])
        left    == MakeNode(made, Relation(item.l.name, item.l.alias))
        right   == MakeNode(left, Relation(item.r.name, item.r.alias))
        Hold(g) == [g EXCEPT !.ch[join] = <<join + 1, join + 2>>,
                             !.pred[join] = PredicateOf(g, g.r), !.r = join]
    IN  Hold(parse_where_expression(right, item.quals, 0, FALSE))

ParseFromItem(h, item) ==
    CASE item.kind = "rel"  -> MakeNode(h, Relation(item.name, item.alias))
      [] item.kind = "sub"  -> parse_from_subquery(h, item)
      [] item.kind = "join" -> parse_from_join(h, item)

(* Mutant: one cross product too many *)
NeedsProductOneMore(i, n) == i < n

(* Is the i-th of n items, counted from 1, followed by a further product? *)
NeedsProduct(i, n) == i < n - 1

(***************************************************************************)
(* FROM: the items are made first; two or more go into a chain of cross    *)
(* products, each item and each further product into the first empty slot. *)
(***************************************************************************)
parse_from(h, from) ==
    LET Add(g, items) == [h |-> g, items |-> Append(items, g.r)]
        Item(acc, f)  == Add(ParseFromItem(acc.h, f), acc.items)
        Product(g)    == MakeNode(g, Join("CROSS_PRODUCT", 0))
        Attach(g, cp, item, more) ==
            LET Further(x) == add_subtree(x, cp, x.r)
                With(x)    == IF more THEN Further(Product(x)) ELSE x
            IN  With(add_subtree(g, cp, item))
        Chain(g, cp, items) ==
            LET Step(x, i) == Attach(x, cp, items[i], NeedsProduct(i, Len(items)))
            IN  [FoldLeft(Step, Product(g), [i \in DOMAIN items |-> i]) EXCEPT !.r = cp]
        From(acc) == IF Len(from) = 1 THEN acc.h
                     ELSE IF 0 \in ToSet(acc.items) THEN Die(acc.h, "nullptr")
                     ELSE Chain(acc.h, acc.h.fresh, acc.items)
    IN  IF from = <<>> THEN MakeNode(h, NewNode("DUMMY"))
        ELSE From(FoldLeft(Item, [h |-> h, items |-> <<>>], from))

(* Put the subtree in h.r, if there is one, at the bottom of the tree root *)
Attached(h, root) == IF h.r = 0 THEN h ELSE add_subtree(h, root, h.r)

(* WITH: the common table expressions, parsed before the statement itself *)
parse_with(h, with) ==
    LET Hold(g, c) == [g EXCEPT !.node[g.r].alias = c.name, !.columns[g.r] = c.columns,
                                !.ctes = Append(@, g.r)]
        Cte(g, c)  == Hold(parse_select_statement(g, c.query), c)
    IN  FoldLeft(Cte, h, with)

(* The clauses below the projection, in the order they are attached *)
ParseClause(h, q, clause) ==
    CASE clause = "order"  -> ParseArgsNode(h, "ORDER_BY", q.order)
      [] clause = "having" -> parse_having(h, q.having)
      [] clause = "group"  -> ParseArgsNode(h, "GROUP_BY", q.group)
      [] clause = "where"  -> parse_where(h, q.where)
      [] clause = "from"   -> parse_from(h, q.from)

Clauses == <<"order", "having", "group", "where", "from">>

parse_select_statement(h, q) ==
    LET Under(root, g) ==
            LET Add(x, clause) == IF x.status # "ok" THEN x
                                  ELSE Attached(ParseClause(x, q, clause), root)
            IN  [FoldLeft(Add, g, Clauses) EXCEPT !.r = root]
        Root(g) == Under(g.r, g)
    IN  Root(parse_select(parse_with(h, q.with), q))

=============================================================================
