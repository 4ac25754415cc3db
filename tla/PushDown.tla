------------------------------ MODULE PushDown ------------------------------
(***************************************************************************)
(* RaTree::push_down_predicates (src/optimizer/ra_tree.cc).  The pass      *)
(* takes the predicate of every selection apart and gives each conjunct    *)
(* back, in order, to the lowest node that defines the relations it needs. *)
(*                                                                         *)
(* optimize() calls the pass twice, with decorrelation in between.  On a   *)
(* tree without a dependent join decorrelation finds nothing to do, and    *)
(* the second call starts where the first one ended (SecondCall).          *)
(***************************************************************************)
EXTENDS RaTree

CONSTANTS Trees,              \* the trees the pass is started on
          convert_cp_to_join  \* RaTree::convert_cp_to_join, for the second call

VARIABLES node, ch, pred,     \* the tree, see RaTree
          term, root, fresh,  \* fresh: the next node to allocate
          pc,                 \* where the pass is
          call,               \* which call of optimize() it is, 1 or 2
          todo, selections,   \* nodes get_all_selections has yet to visit; found
          work,               \* selections_predicates_relations
          wi, pj,             \* selection and conjunct the loops are at
          it                  \* the node find_node_where_relations_defined is at

tree == <<node, ch, pred>>
vars == <<node, ch, pred, term, root, fresh, pc, call, todo, selections,
          work, wi, pj, it>>

cp_to_join == call = 2 /\ convert_cp_to_join

Init == /\ \E t \in Trees :
              /\ node = t.node   /\ ch = t.ch     /\ pred = t.pred
              /\ term = t.term   /\ root = t.root /\ fresh = t.fresh
        /\ pc = "collect" /\ call = 1
        /\ todo = <<root>> /\ selections = <<>>
        /\ work = <<>> /\ wi = 1 /\ pj = 1 /\ it = root

-----------------------------------------------------------------------------
(* 1.1: get_all_selections in preorder, one node per step *)
CollectSelections ==
    LET n == todo[1]
    IN  /\ pc = "collect" /\ todo # <<>>
        /\ selections' = IF node[n].node_case = "SELECTION"
                         THEN Append(selections, n) ELSE selections
        /\ todo' = ch[n] \o Tail(todo)
        /\ UNCHANGED <<tree, term, root, fresh, pc, call, work, wi, pj, it>>

(* Mutant: the predicate is not popped from the selection (1.4) *)
ExtractWithoutPop ==
    /\ pc = "collect" /\ todo = <<>>
    /\ work' = [i \in DOMAIN selections |->
                   [sel   |-> selections[i],
                    preds |-> split_selection_predicates(term, pred[selections[i]])]]
    /\ wi' = 1 /\ pj' = 1
    /\ pc' = "place"
    /\ UNCHANGED <<tree, term, root, fresh, call, todo, selections, it>>

(***************************************************************************)
(* 1.2 to 1.5: take the predicates of all selections apart.  The relations *)
(* a conjunct needs are a function of the conjunct, which no step changes: *)
(* they are looked up when they are used.                                  *)
(***************************************************************************)
ExtractPredicates ==
    /\ pc = "collect" /\ todo = <<>>
    /\ work' = [i \in DOMAIN selections |->
                   [sel   |-> selections[i],
                    preds |-> split_selection_predicates(term, pred[selections[i]])]]
    /\ pred' = [n \in Node |-> IF \E i \in DOMAIN selections : selections[i] = n
                               THEN <<>> ELSE pred[n]]
    /\ wi' = 1 /\ pj' = 1
    /\ pc' = "place"
    /\ UNCHANGED <<node, ch, term, root, fresh, call, todo, selections, it>>

selection == work[wi].sel
predicate == work[wi].preds[pj]

(* Does a walk below n see all relations conjunct c needs? *)
DefinedAt(n, c) == has_relations_defined(node, ch, n, get_predicate_relations(term, c))
Defines(n)      == DefinedAt(n, predicate)

HasConjunct == wi \in DOMAIN work /\ pj \in DOMAIN work[wi].preds

(* Mutant: one conjunct is skipped *)
NextConjunctButOne == pj' = pj + 2 /\ pc' = "place"

(* The predicate has its place: on to the next one *)
NextConjunct == pj' = pj + 1 /\ pc' = "place"

(* 2.1: the child of the selection defines what is needed: look below it *)
FindLowest ==
    /\ pc = "place" /\ HasConjunct
    /\ Defines(ch[selection][1])
    /\ it' = ch[selection][1]
    /\ pc' = "descend"
    /\ UNCHANGED <<tree, term, root, fresh, call, todo, selections, work, wi, pj>>

(* 2.2: nothing below defines it: back to its own selection *)
ReAdd ==
    /\ pc = "place" /\ HasConjunct
    /\ ~Defines(ch[selection][1])
    /\ pred' = [pred EXCEPT ![selection] = add_predicate(term, @, predicate)]
    /\ NextConjunct
    /\ UNCHANGED <<node, ch, term, root, fresh, call, todo, selections, work, wi, it>>

(* Mutant: the iterator is not moved to the child *)
DescendInPlace ==
    /\ pc = "descend"
    /\ \E i \in DOMAIN ch[it] : Defines(ch[it][i])
    /\ UNCHANGED vars

(* Mutant: the search goes on after it has found a child *)
DescendToLast ==
    /\ pc = "descend"
    /\ \E i \in DOMAIN ch[it] :
          /\ Defines(ch[it][i])
          /\ \A j \in i + 1 .. Len(ch[it]) : ~Defines(ch[it][j])
          /\ it' = ch[it][i]
    /\ UNCHANGED <<tree, term, root, fresh, pc, call, todo, selections, work, wi, pj>>

(* The first child that defines the relations too *)
Descend ==
    /\ pc = "descend"
    /\ \E i \in DOMAIN ch[it] :
          /\ Defines(ch[it][i])
          /\ \A j \in 1 .. i - 1 : ~Defines(ch[it][j])
          /\ it' = ch[it][i]
    /\ UNCHANGED <<tree, term, root, fresh, pc, call, todo, selections, work, wi, pj>>

(* Mutant: the search stops at any node that defines the relations *)
AtAnyDefining == pc = "descend"

AtLowest == pc = "descend" /\ \A i \in DOMAIN ch[it] : ~Defines(ch[it][i])

IntoJoin == /\ cp_to_join
            /\ node[it].node_case = "JOIN"
            /\ ~predicate_contains_subquery(term, predicate)

InsertInJoin ==
    /\ AtLowest /\ IntoJoin
    /\ node' = [node EXCEPT ![it].type = IF @ = "CROSS_PRODUCT" THEN "INNER" ELSE @]
    /\ pred' = [pred EXCEPT ![it] = add_predicate(term, @, predicate)]
    /\ NextConjunct
    /\ UNCHANGED <<ch, term, root, fresh, call, todo, selections, work, wi, it>>

parent == get_node_parent(ch, it)

InsertInSelection ==
    /\ AtLowest /\ ~IntoJoin
    /\ node[parent[1]].node_case = "SELECTION"
    /\ pred' = [pred EXCEPT ![parent[1]] = add_predicate(term, @, predicate)]
    /\ NextConjunct
    /\ UNCHANGED <<node, ch, term, root, fresh, call, todo, selections, work, wi, it>>

InsertNewSelection ==
    /\ AtLowest /\ ~IntoJoin
    /\ node[parent[1]].node_case # "SELECTION"
    /\ fresh \in Node
    /\ node' = [node EXCEPT ![fresh] = NewNode("SELECTION")]
    /\ pred' = [pred EXCEPT ![fresh] = <<predicate>>]
    /\ ch'   = [ch EXCEPT ![fresh] = <<it>>, ![parent[1]][parent[2]] = fresh]
    /\ fresh' = fresh + 1
    /\ NextConjunct
    /\ UNCHANGED <<term, root, call, todo, selections, work, wi, it>>

-----------------------------------------------------------------------------
(* 2.3: all conjuncts of the selection are placed *)
SelectionDone == pc = "place" /\ wi \in DOMAIN work /\ pj \notin DOMAIN work[wi].preds

(* Mutant: the conjuncts of the next selection are counted from 0 *)
NextSelectionFromZero == wi' = wi + 1 /\ pj' = 0

NextSelection == wi' = wi + 1 /\ pj' = 1

(* Mutant: the removed selection still holds its child *)
RemoveWithoutPop ==
    LET slot == get_node_parent(ch, selection)
    IN  /\ SelectionDone
        /\ pred[selection] = <<>>
        /\ ch' = [ch EXCEPT ![slot[1]][slot[2]] = ch[selection][1]]
        /\ NextSelection
        /\ UNCHANGED <<node, pred, term, root, fresh, pc, call, todo, selections, work, it>>

(* Mutant: the parent does not take over the child *)
RemoveWithoutRelink ==
    /\ SelectionDone
    /\ pred[selection] = <<>>
    /\ ch' = [ch EXCEPT ![selection] = <<>>]
    /\ NextSelection
    /\ UNCHANGED <<node, pred, term, root, fresh, pc, call, todo, selections, work, it>>

(* The parent takes over the child; the selection lets go of it *)
RemoveSelection ==
    LET slot == get_node_parent(ch, selection)
    IN  /\ SelectionDone
        /\ pred[selection] = <<>>
        /\ ch' = [ch EXCEPT ![slot[1]][slot[2]] = ch[selection][1], ![selection] = <<>>]
        /\ NextSelection
        /\ UNCHANGED <<node, pred, term, root, fresh, pc, call, todo, selections, work, it>>

(* Mutant: an empty selection may stay *)
KeepAnySelection ==
    /\ SelectionDone
    /\ NextSelection
    /\ UNCHANGED <<tree, term, root, fresh, pc, call, todo, selections, work, it>>

KeepSelection ==
    /\ SelectionDone
    /\ pred[selection] # <<>>
    /\ NextSelection
    /\ UNCHANGED <<tree, term, root, fresh, pc, call, todo, selections, work, it>>

Return ==
    /\ pc = "place" /\ wi \notin DOMAIN work
    /\ pc' = "done"
    /\ UNCHANGED <<tree, term, root, fresh, call, todo, selections, work, wi, pj, it>>

(* Mutant: the second call starts with the selections of the first *)
SecondCallWithoutReset ==
    /\ pc = "done" /\ call = 1
    /\ call' = 2
    /\ pc' = "collect"
    /\ todo' = <<root>>
    /\ UNCHANGED <<tree, term, root, fresh, selections, work, wi, pj, it>>

SecondCall ==
    /\ pc = "done" /\ call = 1
    /\ \A n \in Node : node[n].node_case = "JOIN" => node[n].type \notin Dependent
    /\ call' = 2
    /\ pc' = "collect"
    /\ todo' = <<root>> /\ selections' = <<>>
    /\ UNCHANGED <<tree, term, root, fresh, work, wi, pj, it>>

Next == \/ CollectSelections \/ ExtractPredicates
        \/ FindLowest \/ ReAdd \/ Descend
        \/ InsertInJoin \/ InsertInSelection \/ InsertNewSelection
        \/ RemoveSelection \/ KeepSelection
        \/ Return \/ SecondCall

(* The optimizer is one thread of straight code: an enabled step is taken *)
Spec == Init /\ [][Next]_vars /\ WF_vars(Next)

-----------------------------------------------------------------------------
(* Properties *)

(* The variables hold nodes, conjuncts and positions of the kinds declared *)
TypeOK ==
    /\ node \in [Node -> Label]
    /\ ch   \in [Node -> Seq(Node)]
    /\ pred \in [Node -> Seq(DOMAIN term)]
    /\ root \in Node /\ fresh \in Nat \ {0}
    /\ pc \in {"collect", "place", "descend", "done"} /\ call \in {1, 2}
    /\ todo \in Seq(Node) /\ selections \in Seq(Node)
    /\ work \in Seq([sel : Node, preds : Seq(DOMAIN term)])
    /\ wi \in Nat \ {0} /\ pj \in Nat \ {0} /\ it \in Node

(* The node is in the tree: it is the root or some node's child *)
Linked(n) == InTree(ch, root, n)

(***************************************************************************)
(* Insertions and removals keep a tree: no node hangs in two slots or      *)
(* above the root, every node in the tree has all its children, and a      *)
(* removed selection has let go of its child.  get_node_parent and every   *)
(* recursive walk of the optimizer rely on it.                             *)
(***************************************************************************)
TreeShape == IsTree(node, ch, root)

(***************************************************************************)
(* The tree stays in one piece while selections are cut out and put in:    *)
(* everything in it can be reached from the root (every set that holds the *)
(* root and the children of its members holds it), so there is no cycle    *)
(* and no relation or subquery is lost.                                    *)
(***************************************************************************)
Connected == IsConnected(ch, root)

Processed(i, j) == i < wi \/ (i = wi /\ j < pj)
Held(c)         == \E n \in Node : Linked(n) /\ \E k \in DOMAIN pred[n] : pred[n][k] = c
Placing         == pc \in {"place", "descend", "done"}

(***************************************************************************)
(* No conjunct is lost: once its turn is over it is in the predicate of a  *)
(* node of the tree, with the one exception of add_predicate_to_selection, *)
(* which drops it when a predicate is nothing but a subquery marker.       *)
(***************************************************************************)
Conserved ==
    Placing => \A i \in DOMAIN work : \A j \in DOMAIN work[i].preds :
        Processed(i, j) => \/ Held(work[i].preds[j])
                           \/ \E n \in Node : IsBareMarker(term, pred[n])

(***************************************************************************)
(* No conjunct is there twice: the same pointer is never in two slots of   *)
(* the tree, nor in the tree while it is still waiting for its turn.       *)
(***************************************************************************)
NotDuplicated ==
    /\ \A n, m \in Node : \A k \in DOMAIN pred[n], l \in DOMAIN pred[m] :
          pred[n][k] = pred[m][l] => n = m /\ k = l
    /\ Placing => \A i \in DOMAIN work : \A j \in DOMAIN work[i].preds :
          Processed(i, j) \/ ~Held(work[i].preds[j])

(***************************************************************************)
(* 2.3 of the pass leaves no selection without a predicate in the tree:    *)
(* the next pass and the deparser dereference it.                          *)
(***************************************************************************)
NoEmptySelection ==
    pc = "done" => \A n \in Node :
        Linked(n) /\ node[n].node_case = "SELECTION" => pred[n] # <<>>

(***************************************************************************)
(* The relation of every column of c is known.  A column without an alias  *)
(* outside of the TPC-H schema belongs to the relation "", a name every    *)
(* alias that is missing has.                                              *)
(***************************************************************************)
Resolved(c) == NoName \notin get_predicate_relations(term, c)

(***************************************************************************)
(* Where a conjunct of known relations can get lost: only when it goes     *)
(* back to its own selection and that one holds just the marker of a       *)
(* subquery.                                                               *)
(***************************************************************************)
LostOnlyToMarker ==
    Placing => \A i \in DOMAIN work : \A j \in DOMAIN work[i].preds :
        Processed(i, j) /\ ~Held(work[i].preds[j]) /\ Resolved(work[i].preds[j]) =>
            IsBareMarker(term, pred[work[i].sel])

(***************************************************************************)
(* What ra_tree.h says of add_predicate_to_selection, "add a predicate to  *)
(* a selecction predicate (with "and")", for all conjuncts of the pass.    *)
(***************************************************************************)
AllConjunctsAdded ==
    pc = "done" => \A i \in DOMAIN work : \A j \in DOMAIN work[i].preds :
        Held(work[i].preds[j])

(* If x defines the relations of c, none of its children does *)
IsLowest(x, c) == DefinedAt(x, c) => \A i \in DOMAIN ch[x] : ~DefinedAt(ch[x][i], c)

(***************************************************************************)
(* When the pass is over every conjunct is at the lowest node: the node    *)
(* under its selection has no child that defines its relations as well.    *)
(* So the search of a second call ends where that of the first one did.    *)
(***************************************************************************)
PlacedLowest ==
    pc = "done" =>
        \A n \in Node : Linked(n) /\ node[n].node_case = "SELECTION" =>
            \A k \in DOMAIN pred[n] : IsLowest(ch[n][1], pred[n][k])

(* The root, and the projection of a subquery or a derived table *)
IsTop(labels, children, n) ==
    labels[n].node_case = "PROJECTION" \/ \A p \in Node : n \notin Children(children, p)

(* The projection of the query block n belongs to *)
Block(labels, children, n) ==
    LET block[m \in Node] ==
            IF IsTop(labels, children, m) THEN m ELSE block[get_node_parent(children, m)[1]]
    IN  block[n]

Derived == {p \in Node : /\ Linked(p)
                         /\ node[p].node_case = "PROJECTION" /\ node[p].alias # NoName}

(***************************************************************************)
(* The deparser prints the selections of a query block as one WHERE: it is *)
(* the block of a conjunct that decides what it means.  A conjunct of      *)
(* known relations is never moved into another block, into a subquery or a *)
(* derived table, unless the inside of a derived table defines all the     *)
(* names it needs.                                                         *)
(***************************************************************************)
BlockKept ==
    [][pc = "descend" /\ Resolved(predicate) /\ (\A p \in Derived : ~Defines(ch[p][1])) =>
          \A n \in Node : pred'[n] # pred[n] =>
              Block(node', ch', n) = Block(node, ch, selection)]_vars

(***************************************************************************)
(* The same without the exception: ra_tree.h says the conjunct goes to the *)
(* lowest node "where a predicate's referenced relations are defined"; the *)
(* relations inside a derived table are not those the outer block names.   *)
(***************************************************************************)
BlockAlwaysKept ==
    [][pc = "descend" =>
          \A n \in Node : pred'[n] # pred[n] =>
              Block(node', ch', n) = Block(node, ch, selection)]_vars

(* Every loop of the pass ends, and the heap is large enough for it *)
Terminates == <>[](pc = "done")

=============================================================================
