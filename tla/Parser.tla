------------------------------- MODULE Parser -------------------------------
(***************************************************************************)
(* SQLtoRA::parse for one statement, one clause of the outermost SELECT    *)
(* per step: parse() and the body of parse_select_statement                *)
(* (src/optimizer/parse_sql_to_ra.cc).  Subqueries are parsed inside the   *)
(* step of the clause they occur in, by the operators of SqlToRa.          *)
(***************************************************************************)
EXTENDS SqlToRa

CONSTANT Statements      \* the SELECT statements that are parsed

VARIABLES heap,          \* nodes, terms, ctes, counter: SQLtoRA's members
          root,          \* ra_tree_root, 0 until SELECT has been parsed
          stmt,          \* the statement
          pc             \* the clause to parse next

vars == <<heap, root, stmt, pc>>

Init == /\ heap = EmptyHeap
        /\ root = 0
        /\ stmt \in Statements
        /\ pc = "with"

(* The parser is at this clause and still alive *)
At(clause) == pc = clause /\ heap.status = "ok"

ParseWith == /\ At("with")
             /\ heap' = parse_with(heap, stmt.with)
             /\ pc' = "select"
             /\ UNCHANGED <<root, stmt>>

ParseSelect == /\ At("select")
               /\ heap' = parse_select(heap, stmt)
               /\ root' = heap'.r
               /\ pc' = "order"
               /\ UNCHANGED stmt

ParseOrderBy == /\ At("order")
                /\ heap' = Attached(ParseArgsNode(heap, "ORDER_BY", stmt.order), root)
                /\ pc' = "having"
                /\ UNCHANGED <<root, stmt>>

ParseHaving == /\ At("having")
               /\ heap' = Attached(parse_having(heap, stmt.having), root)
               /\ pc' = "group"
               /\ UNCHANGED <<root, stmt>>

ParseGroupBy == /\ At("group")
                /\ heap' = Attached(ParseArgsNode(heap, "GROUP_BY", stmt.group), root)
                /\ pc' = "where"
                /\ UNCHANGED <<root, stmt>>

ParseWhere == /\ At("where")
              /\ heap' = Attached(parse_where(heap, stmt.where), root)
              /\ pc' = "from"
              /\ UNCHANGED <<root, stmt>>

ParseFrom == /\ At("from")
             /\ heap' = Attached(parse_from(heap, stmt.from), root)
             /\ pc' = "done"
             /\ UNCHANGED <<root, stmt>>

Next == \/ ParseWith \/ ParseSelect \/ ParseOrderBy \/ ParseHaving
        \/ ParseGroupBy \/ ParseWhere \/ ParseFrom

Spec == Init /\ [][Next]_vars /\ WF_vars(Next)

-----------------------------------------------------------------------------
(* Properties *)

HeapType == [node : [Node -> Label], ch : [Node -> Seq(Node)],
             pred : [Node -> Seq(TermId)]]

(* Every node is what its class says, children are nodes, predicates terms *)
TypeOK ==
    /\ [node |-> heap.node, ch |-> heap.ch, pred |-> heap.pred] \in HeapType
    /\ heap.fresh \in 1 .. MaxNodes + 1 /\ heap.counter \in Nat
    /\ heap.ctes \in Seq(Node) /\ root \in Node \cup {0}
    /\ \A t \in DOMAIN heap.term : \A i \in DOMAIN heap.term[t].args : heap.term[t].args[i] < t

(* What is reachable from X, when one step from x leads to down[x] *)
RECURSIVE Closure(_, _)
Closure(X, down) ==
    LET Y == X \cup UNION {down[x] : x \in X} IN IF Y = X THEN X ELSE Closure(Y, down)

Below(X) == Closure(X, [n \in Node |-> Children(heap.ch, n)])

(* The nodes of the query block whose projection is p: its subqueries and *)
(* derived tables are entered no further than their own projection.       *)
BlockOf(p) ==
    Closure({p}, [n \in Node |-> IF n # p /\ heap.node[n].node_case = "PROJECTION"
                                 THEN {} ELSE Children(heap.ch, n)])

Parsed == pc = "done" /\ heap.status = "ok"

(***************************************************************************)
(* add_subtree always finds the slot it must find: what parse returns is   *)
(* one tree, every node full and in one slot, and nothing that was         *)
(* allocated on the way, in any nested subquery, is left out of it.        *)
(***************************************************************************)
WholeTree ==
    Parsed =>
        LET roots == {root} \cup ToSet(heap.ctes)
            slots == UNION {{n} \X DOMAIN heap.ch[n] : n \in Node}
        IN  /\ Below(roots) = 1 .. heap.fresh - 1
            /\ \A n \in Below(roots) : is_full(heap.node, heap.ch, n)
            /\ \A a, b \in slots : heap.ch[a[1]][a[2]] = heap.ch[b[1]][b[2]] => a = b
            /\ \A a \in slots : heap.ch[a[1]][a[2]] \notin roots

(* Marker numbers in the predicate of n *)
Markers(n) ==
    LET terms == Closure(ToSet(heap.pred[n]),
                         [t \in DOMAIN heap.term |-> ToSet(heap.term[t].args)])
    IN  {heap.term[t].id : t \in {u \in terms : heap.term[u].op = "marker"}}

(***************************************************************************)
(* A marker in a WHERE or HAVING stands for exactly one join; the join is  *)
(* below that clause in the same query block, where get_relations_aliases  *)
(* and the deparser look for it, and holds the subquery on its right.      *)
(***************************************************************************)
MarkersPaired ==
    Parsed =>
        LET nodes == Below({root} \cup ToSet(heap.ctes))
            blocks == {n \in nodes : heap.node[n].node_case = "PROJECTION"}
            joins == {n \in nodes : heap.node[n].marker # 0}
        IN  /\ \A j, k \in joins : heap.node[j].marker = heap.node[k].marker => j = k
            /\ \A j \in joins :
                  \E p \in blocks : \E n \in BlockOf(p) :
                      /\ heap.node[j].marker \in Markers(n)
                      /\ j \in BlockOf(p) \cap Below({n})
                      /\ LET sub == heap.ch[j][2]
                         IN heap.node[sub].node_case = "PROJECTION" /\ heap.node[sub].alias = NoName
            /\ \A n \in nodes : \A m \in Markers(n) : \E j \in joins : heap.node[j].marker = m

(* The FROM items of the block of p, as its leaves from left to right *)
RECURSIVE Leaves(_)
Leaves(n) ==
    LET label == heap.node[n]
    IN  IF label.node_case \in {"RELATION", "PROJECTION"}
        THEN <<<<label.name, label.alias>>>>
        ELSE IF label.marker # 0 THEN Leaves(heap.ch[n][1])
        ELSE FlattenSeq([i \in DOMAIN heap.ch[n] |-> Leaves(heap.ch[n][i])])

RECURSIVE Items(_)
Items(from) ==
    FlattenSeq([i \in DOMAIN from |->
        CASE from[i].kind = "rel"  -> <<<<from[i].name, from[i].alias>>>>
          [] from[i].kind = "sub"  -> <<<<NoName, from[i].alias>>>>
          [] from[i].kind = "join" -> Items(<<from[i].r, from[i].l>>)])

(***************************************************************************)
(* The block keeps its FROM clause through the chain of cross products and *)
(* the subquery joins stacked on it: the leaves of the block of the        *)
(* outermost SELECT are the items of its FROM, last item first.            *)
(***************************************************************************)
FromKept == Parsed => Leaves(heap.ch[root][1]) = Reverse(Items(stmt.from))

(***************************************************************************)
(* parse_sql_to_ra.h says of is_correlated_subquery "True if subquery is   *)
(* correlated, else false".  The columns of a subquery that no FROM item   *)
(* of it, or of a subquery inside it, defines are those it takes from      *)
(* outside.                                                                *)
(***************************************************************************)
RECURSIVE Columns(_)
RECURSIVE FreeColumns(_)
Columns(e) == (IF e.op = "attr" /\ e.name # Star.name THEN {e} ELSE {})
                \cup UNION {Columns(e.args[i]) : i \in DOMAIN e.args}
                \cup (IF e.query = <<>> THEN {} ELSE FreeColumns(e.query))
FreeColumns(q) ==
    LET used == UNION {Columns(q.targets[i]) : i \in DOMAIN q.targets}
                  \cup Columns(q.where) \cup Columns(q.having)
                  \cup UNION {Columns(q.group[i]) : i \in DOMAIN q.group}
        items == Items(q.from)
    IN  {c \in used : \A i \in DOMAIN items : get_relation_from_attribute(c) \notin ToSet(items[i])}

RECURSIVE Sublinks(_)
Sublinks(e) == (IF e.query = <<>> THEN {} ELSE {e.query} \cup Sublinks(e.query.where))
                 \cup UNION {Sublinks(e.args[i]) : i \in DOMAIN e.args}

CorrelationExact ==
    Parsed => \A q \in Sublinks(stmt.where) :
                  is_correlated_subquery(q) <=> FreeColumns(q) # {}

(***************************************************************************)
(* A WHERE with a subquery attaches its join once: the recursion of        *)
(* find_empty_leaf ends and the assertion in add_subtree holds.            *)
(***************************************************************************)
NeverDies == heap.status = "ok"

=============================================================================
