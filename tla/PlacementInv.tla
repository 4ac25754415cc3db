---------------------------- MODULE PlacementInv ----------------------------
(***************************************************************************)
(* What the parser guarantees about subqueries and their markers, and the  *)
(* invariants of push_down_predicates that follow from it: why a conjunct  *)
(* is dropped in its own selection only (LostOnlyToMarker), and why none   *)
(* is moved into a subquery (BlockKept).                                   *)
(***************************************************************************)
EXTENDS PushDownInv

(* The conjuncts of all selections *)
SelectionConjuncts(labels, preds, terms) ==
    {c \in DOMAIN terms : \E n \in Node : /\ labels[n].node_case = "SELECTION"
                                         /\ \E k \in DOMAIN Split(terms, preds, n) :
                                               Split(terms, preds, n)[k] = c}

(* No name of the query is one the optimizer makes up for a marker *)
NamesOK(labels) == \A n \in Node : labels[n].name[1] # "marker_" /\ labels[n].alias[1] # "marker_"

(* A marker among the conjuncts C stands in none of the others *)
MarkersAlone(terms, C) ==
    \A c, m \in C : terms[m].op = "marker" /\ MarkerName(terms[m].id) \in get_predicate_relations(terms, c) => c = m

(* The condition of a join is not a lone marker *)
JoinsOK(labels, preds, terms) ==
    \A n \in Node : labels[n].node_case = "JOIN" => ~IsBareMarker(terms, preds[n])

(* The join of a marker is below the selection that holds the marker *)
MarkerDefined(labels, children, terms, n, c) ==
    terms[c].op = "marker" =>
        has_relations_defined(labels, children, children[n][1], get_predicate_relations(terms, c))

MarkersDefined(labels, children, preds, terms, top) ==
    \A n \in Node : InTree(children, top, n) /\ labels[n].node_case = "SELECTION" =>
        \A k \in DOMAIN Split(terms, preds, n) :
            MarkerDefined(labels, children, terms, n, Split(terms, preds, n)[k])

(* Joins of subqueries have different markers *)
MarkersUnique(labels) ==
    \A i, j \in {n \in Node : labels[n].node_case = "JOIN" /\ labels[n].marker # 0} :
        labels[i].marker = labels[j].marker => i = j

(* The projection of a subquery in a condition is the right child of its join *)
SubqueriesHang(labels, children, top) ==
    \A n \in {m \in Node : labels[m].node_case = "PROJECTION" /\ labels[m].alias = NoName} :
        InTree(children, top, n) /\ n # top =>
            \E j \in Node : /\ labels[j].node_case = "JOIN" /\ labels[j].alias = NoName
                            /\ labels[j].marker # 0
                            /\ DOMAIN children[j] = {1, 2} /\ children[j][2] = n

MarkersOK(t) ==
    /\ NamesOK(t.node) /\ MarkersUnique(t.node)
    /\ MarkersAlone(t.term, SelectionConjuncts(t.node, t.pred, t.term))
    /\ JoinsOK(t.node, t.pred, t.term)
    /\ MarkersDefined(t.node, t.ch, t.pred, t.term, t.root)
    /\ SubqueriesHang(t.node, t.ch, t.root)

SubqueriesOK(t) == TermsOrdered(t.term) /\ MarkersOK(t)

ASSUME SubqueriesAssumption == \A t \in Trees : SubqueriesOK(t)

-----------------------------------------------------------------------------
(* The conjuncts of the selections, and those of work while they are placed *)
Candidates ==
    SelectionConjuncts(node, pred, term)
      \cup {c \in DOMAIN term : Placing /\ \E i \in DOMAIN work : \E j \in DOMAIN work[i].preds :
                                                work[i].preds[j] = c}

(* The conjuncts that wait find the join of their marker when their turn comes *)
WaitingDefined ==
    Placing => \A i \in DOMAIN work : \A j \in DOMAIN work[i].preds :
        Processed(i, j) \/ MarkerDefined(node, ch, term, work[i].sel, work[i].preds[j])

(* The search is at a node that defines the relations of the conjunct *)
FoundInv == pc = "descend" => Defines(it)

MarkerInv ==
    /\ TermsOrdered(term) /\ NamesOK(node)
    /\ MarkersAlone(term, Candidates)
    /\ JoinsOK(node, pred, term)
    /\ MarkersDefined(node, ch, pred, term, root) /\ WaitingDefined
    /\ LostOnlyToMarker

(***************************************************************************)
(* The search for the place of a conjunct stays in the block of its        *)
(* selection: it does not come to the projection of a WHERE subquery.      *)
(***************************************************************************)
SearchInBlock ==
    pc = "descend" /\ Resolved(predicate) =>
        /\ ~(node[it].node_case = "PROJECTION" /\ node[it].alias = NoName)
        /\ (\A p \in Derived : ~Defines(ch[p][1])) =>
              Block(node, ch, parent[1]) = Block(node, ch, selection)

BlockInv ==
    /\ MarkersUnique(node) /\ SubqueriesHang(node, ch, root)
    /\ SearchInBlock

PInv == LowestInv /\ FoundInv /\ MarkerInv /\ BlockInv

=============================================================================
