------------------------------- MODULE RaTree -------------------------------
(***************************************************************************)
(* The relational algebra tree every pass of the optimizer works on        *)
(* (src/optimizer/relational_algebra.h, ra_tree.h), as a heap:             *)
(*                                                                         *)
(*   node[n]   what Ra__Node n is: its case and the fields of its subclass *)
(*   ch[n]     childNodes, a sequence of node identifiers                  *)
(*   pred[n]   the predicate of a SELECTION, HAVING or JOIN                *)
(*   term[t]   predicate and expression nodes, shared by pointer           *)
(*                                                                         *)
(* Identifiers stand for shared_ptr's, so that two slots may hold the same *)
(* object.  A predicate is the list of its conjuncts: <<>> is nullptr,     *)
(* <<t>> is the predicate t itself and a longer list is a Bool_Predicate   *)
(* AND whose args it holds.                                                *)
(*                                                                         *)
(* Names are pairs of a text and a number, so that the names the optimizer *)
(* makes up ("marker_3", "cte_4", "t5") are told apart without building    *)
(* strings.  The name of a column is a pair too: the part before its first *)
(* underscore, which decides its TPC-H relation, and the rest.             *)
(***************************************************************************)
EXTENDS Integers, SequencesExt

CONSTANT MaxNodes        \* bound: nodes the heap can hold

ASSUME MaxNodesAssumption == MaxNodes \in Nat \ {0}

Node == 1 .. MaxNodes

Name   == STRING \X Nat
NoName == <<"", 0>>

NodeCase == {"FREE", "SELECTION", "PROJECTION", "RELATION", "GROUP_BY",
             "DUMMY", "ORDER_BY", "HAVING", "JOIN"}

JoinType == {"CROSS_PRODUCT", "INNER", "DEPENDENT_INNER_LEFT", "LEFT",
             "SEMI_LEFT", "SEMI_LEFT_DEPENDENT", "ANTI_LEFT", "ANTI_LEFT_DEPENDENT",
             "IN_LEFT", "IN_LEFT_DEPENDENT", "ANTI_IN_LEFT", "ANTI_IN_LEFT_DEPENDENT"}

ExistsInDependent == {"SEMI_LEFT_DEPENDENT", "ANTI_LEFT_DEPENDENT",
                      "IN_LEFT_DEPENDENT", "ANTI_IN_LEFT_DEPENDENT"}
Dependent == ExistsInDependent \cup {"DEPENDENT_INNER_LEFT"}

TermId == Nat \ {0}

(***************************************************************************)
(* name: the relation's; alias: the relation's or the join's, or the       *)
(* subquery_alias of a projection; marker: right_where_subquery_marker, 0  *)
(* when the right side of the join is no WHERE subquery; args: the targets *)
(* of a projection, the arguments of GROUP BY and ORDER BY.                *)
(***************************************************************************)
Label == [node_case : NodeCase, name : Name, alias : Name, type : JoinType,
          marker : Nat, args : Seq(TermId), implicit : BOOLEAN]

NewNode(case) == [node_case |-> case, name |-> NoName, alias |-> NoName,
                  type |-> "CROSS_PRODUCT", marker |-> 0, args |-> <<>>,
                  implicit |-> FALSE]

Free == NewNode("FREE")

Relation(name, alias) == [NewNode("RELATION") EXCEPT !.name = name, !.alias = alias]
Join(type, marker)    == [NewNode("JOIN") EXCEPT !.type = type, !.marker = marker]

n_children(case) ==
    IF case = "JOIN" THEN 2
    ELSE IF case \in {"SELECTION", "PROJECTION", "GROUP_BY", "ORDER_BY", "HAVING"} THEN 1
    ELSE 0

is_full(node, ch, n) == Len(ch[n]) = n_children(node[n].node_case)

-----------------------------------------------------------------------------
(* Predicates and expressions *)

TermOp == {"attr", "const", "func", "expr", "cast", "list", "case",
           "marker", "cmp", "null", "and", "or", "not"}

(* Attributes and comparisons the optimizer makes itself *)
Attribute(alias, name) == [op |-> "attr", args |-> <<>>, alias |-> alias, name |-> name,
                           oper |-> "", id |-> 0]
Comparison(l, oper, r) == [op |-> "cmp", args |-> <<l, r>>, alias |-> NoName, name |-> <<"", "">>,
                           oper |-> oper, id |-> 0]

MarkerName(m) == <<"marker_", m>>
CteName(k)    == <<"cte_", k>>

TpchRelation == [p  |-> "part",     s |-> "supplier", ps |-> "partsupp",
                 c  |-> "customer", n |-> "nation",   l  |-> "lineitem",
                 r  |-> "region",   o |-> "orders"]

get_tpch_relation_name(column) ==
    IF column[1] \in DOMAIN TpchRelation THEN <<TpchRelation[column[1]], 0>> ELSE NoName

is_tpch_attribute(column, relation) ==
    get_tpch_relation_name(column) = relation /\ relation # NoName

get_relation_from_attribute(attr) ==
    IF attr.alias # NoName THEN attr.alias ELSE get_tpch_relation_name(attr.name)

(***************************************************************************)
(* The relations a predicate needs, given those its arguments need.        *)
(* Attributes below a BETWEEN list, an IN list or a CASE are not visited   *)
(* by get_expression_relations.                                            *)
(***************************************************************************)
Relations(term, relations, u) ==
    LET e == term[u]
    IN  CASE e.op = "attr"   -> {get_relation_from_attribute(e)}
          [] e.op = "marker" -> {MarkerName(e.id)}
          [] e.op \in {"const", "list", "case"} -> {}
          [] OTHER -> UNION {relations[e.args[i]] : i \in DOMAIN e.args}

get_predicate_relations(term, t) ==
    LET relations[u \in DOMAIN term] == Relations(term, relations, u)
    IN  relations[t]

ContainsSubquery(term, contains, u) ==
    \/ term[u].op = "marker"
    \/ /\ term[u].op \in {"cmp", "and", "or", "not"}
       /\ \E i \in DOMAIN term[u].args : contains[term[u].args[i]]

predicate_contains_subquery(term, t) ==
    LET contains[u \in DOMAIN term] == ContainsSubquery(term, contains, u)
    IN  contains[t]

(***************************************************************************)
(* split_selection_predicates: the predicate ps, split by "and" into the   *)
(* pointers of its conjuncts.  A list without a nested AND is its split.   *)
(***************************************************************************)
IsAtom(term, t) == term[t].op # "and"

SplitNested(term, ps) ==
    LET split[u \in DOMAIN term] ==
            IF IsAtom(term, u) THEN <<u>>
            ELSE FlattenSeq([i \in DOMAIN term[u].args |-> split[term[u].args[i]]])
    IN  FlattenSeq([i \in DOMAIN ps |-> split[ps[i]]])

split_selection_predicates(term, ps) ==
    IF \A i \in DOMAIN ps : IsAtom(term, ps[i]) THEN ps ELSE SplitNested(term, ps)

(***************************************************************************)
(* add_predicate_to_selection and add_predicate_to_join: set, push into    *)
(* the AND, or wrap both in a new AND.  There is no branch for a predicate *)
(* that is a single subquery marker: then the new predicate goes nowhere.  *)
(***************************************************************************)
IsBareMarker(term, ps) == Len(ps) = 1 /\ term[ps[1]].op = "marker"

(* Mutant: no predicate is ever wrapped in a new AND *)
add_predicate_unwrapped(term, ps, t) == IF Len(ps) = 1 THEN ps ELSE Append(ps, t)

add_predicate(term, ps, t) == IF IsBareMarker(term, ps) THEN ps ELSE Append(ps, t)

-----------------------------------------------------------------------------
(* Walks over the tree *)

(* The pairs visible above n, given those visible above its children *)
Visible(node, ch, visible, n) ==
    LET label  == node[n]
        Below(I) == UNION {visible[ch[n][i]] : i \in I \cap DOMAIN ch[n]}
    IN  CASE label.node_case = "JOIN" /\ label.alias # NoName ->
                 {<<NoName, label.alias>>}
          [] label.node_case = "JOIN" /\ label.alias = NoName /\ label.marker # 0 ->
                 {<<NoName, MarkerName(label.marker)>>} \cup Below({1})
          [] label.node_case = "RELATION" ->
                 {<<label.name, label.alias>>}
          [] label.node_case = "PROJECTION" /\ label.alias # NoName ->
                 {<<NoName, label.alias>>}
          [] OTHER -> Below(DOMAIN ch[n])

(* Pairs (relation name, alias) visible to a predicate above x *)
get_relations_aliases(node, ch, x) ==
    LET visible[n \in Node] == Visible(node, ch, visible, n)
    IN  visible[x]

has_relations_defined(node, ch, x, relations) ==
    LET defined == get_relations_aliases(node, ch, x)
    IN  \A needed \in relations : \E d \in defined : needed = d[1] \/ needed = d[2]

(* One list more: those of the first i members of s, given those before *)
JoinedUpTo(f, s, upto, i) == IF i = 0 THEN <<>> ELSE upto[i - 1] \o f[s[i]]

(* The lists f gives for the members of s, one after the other *)
Joined(f, s) ==
    LET upto[i \in 0 .. Len(s)] == JoinedUpTo(f, s, upto, i)
    IN  upto[Len(s)]

(* The nodes below x, x first, in the order of a depth first search *)
Preorder(ch, x) ==
    LET below[n \in Node] == <<n>> \o Joined(below, ch[n])
    IN  below[x]

(* The first of a list of nodes that is in S, 0 for none *)
FirstNode(nodes, S) ==
    LET i == SelectInSeq(nodes, LAMBDA n : n \in S)
    IN  IF i = 0 THEN 0 ELSE nodes[i]

(* The markers of some join types in a term, given those in its arguments *)
MarkersStep(term, types, found, t) ==
    CASE term[t].op = "marker" -> IF term[t].oper \in types THEN <<t>> ELSE <<>>
      [] term[t].op \in {"and", "or", "not", "cmp"} -> Joined(found, term[t].args)
      [] OTHER -> <<>>

(* ... and in the selections among the nodes *)
MarkersIn(node, pred, term, nodes, types) ==
    LET found[t \in DOMAIN term] == MarkersStep(term, types, found, t)
        inSelection[n \in Node] ==
            IF node[n].node_case = "SELECTION" THEN Joined(found, pred[n]) ELSE <<>>
    IN  Joined(inSelection, nodes)

(* Mutants: the innermost markers come first, or the join type is not looked at *)
find_markers_bottom_up(node, ch, pred, term, x, types) ==
    MarkersIn(node, pred, term, Reverse(Preorder(ch, x)), types)
find_markers_of_any_type(node, ch, pred, term, x, types) ==
    MarkersIn(node, pred, term, Preorder(ch, x), JoinType)

(* Those below x, in preorder *)
find_subquery_markers(node, ch, pred, term, x, types) ==
    MarkersIn(node, pred, term, Preorder(ch, x), types)

(* find_joins_by_markers: the join of a marker below the root, 0 for none *)
find_join_by_marker(node, ch, root, marker) ==
    FirstNode(Preorder(ch, root), {n \in Node : node[n].node_case = "JOIN" /\ node[n].marker = marker})

Children(ch, n) == {ch[n][i] : i \in DOMAIN ch[n]}

(***************************************************************************)
(* The slot <<parent, child_index>> that holds x.  The code searches depth *)
(* first from the root; while no node has two parents the slot it finds is *)
(* the only one.                                                           *)
(***************************************************************************)
get_node_parent(ch, x) ==
    CHOOSE slot \in UNION {{p} \X DOMAIN ch[p] : p \in Node} : ch[slot[1]][slot[2]] = x

-----------------------------------------------------------------------------
(* What makes the heap a tree *)

(* n is the root or some node's child *)
InTree(ch, root, n) == n = root \/ \E p \in Node : n \in Children(ch, p)

(***************************************************************************)
(* No node hangs in two slots, the root in none; a node in the tree has    *)
(* all its children, and only a node in the tree has any.                  *)
(***************************************************************************)
IsTree(node, ch, root) ==
    /\ \A p, q \in Node : \A i \in DOMAIN ch[p], j \in DOMAIN ch[q] :
          ch[p][i] = ch[q][j] => p = q /\ i = j
    /\ \A p \in Node : root \notin Children(ch, p)
    /\ \A n \in Node : InTree(ch, root, n) =>
          node[n].node_case # "FREE" /\ is_full(node, ch, n)
    /\ \A n \in Node : ch[n] # <<>> => InTree(ch, root, n)

(* A term is made after its arguments *)
TermsOrdered(term) ==
    /\ DOMAIN term \subseteq Nat
    /\ \A t \in DOMAIN term : \A i \in DOMAIN term[t].args :
          term[t].args[i] \in DOMAIN term /\ term[t].args[i] < t

(* Every set that holds the root and its members' children holds the tree *)
IsConnected(ch, root) ==
    LET tree == {n \in Node : InTree(ch, root, n)}
    IN  \A S \in SUBSET tree :
            root \in S /\ (\A n \in S : Children(ch, n) \subseteq S) => S = tree

=============================================================================
