----------------------------- MODULE PushDownInv ----------------------------
(***************************************************************************)
(* The assumption about the trees push_down_predicates is given and the    *)
(* inductive invariant behind the theorems of PushDownProofs.              *)
(***************************************************************************)
EXTENDS PushDown

(* Nodes that have not been allocated hold nothing *)
Unused(labels, children, preds, next) ==
    \A n \in Node : n >= next =>
        labels[n] = Free /\ children[n] = <<>> /\ preds[n] = <<>>

Split(terms, preds, n) == split_selection_predicates(terms, preds[n])

(***************************************************************************)
(* The predicate of a selection splits into conjuncts that are no AND, and *)
(* no conjunct pointer is shared with another predicate.                   *)
(***************************************************************************)
Splits(labels, preds, terms) ==
    \A n \in Node : labels[n].node_case = "SELECTION" =>
        /\ Split(terms, preds, n) \in Seq(DOMAIN terms)
        /\ \A j \in DOMAIN Split(terms, preds, n) : IsAtom(terms, Split(terms, preds, n)[j])
        /\ \A m \in Node : labels[m].node_case = "SELECTION" =>
              \A j \in DOMAIN Split(terms, preds, n), k \in DOMAIN Split(terms, preds, m) :
                  Split(terms, preds, n)[j] = Split(terms, preds, m)[k] => n = m /\ j = k
        /\ \A m \in Node : labels[m].node_case # "SELECTION" =>
              \A j \in DOMAIN Split(terms, preds, n), k \in DOMAIN preds[m] :
                  Split(terms, preds, n)[j] # preds[m][k]

(* No pointer is in two slots of the predicates *)
SlotsDistinct(preds) ==
    \A n, m \in Node : \A k \in DOMAIN preds[n], l \in DOMAIN preds[m] :
        preds[n][k] = preds[m][l] => n = m /\ k = l

(* A tree that is as the pass expects it, except that it may be in several pieces *)
WellFormed(t) ==
    /\ t.node \in [Node -> Label] /\ t.ch \in [Node -> Seq(Node)]
    /\ t.pred \in [Node -> Seq(DOMAIN t.term)]
    /\ t.root \in Node /\ t.fresh \in Nat \ {0}
    /\ IsTree(t.node, t.ch, t.root)
    /\ t.node[t.root].node_case = "PROJECTION"
    /\ Unused(t.node, t.ch, t.pred, t.fresh)
    /\ \A n \in Node : t.pred[n] # <<>> => InTree(t.ch, t.root, n)
    /\ Splits(t.node, t.pred, t.term)
    /\ SlotsDistinct(t.pred)

TreeOK(t) == WellFormed(t) /\ IsConnected(t.ch, t.root)

ASSUME TreesAssumption == \A t \in Trees : TreeOK(t)

-----------------------------------------------------------------------------
(* The root is a projection, only nodes of the tree have a predicate *)
HeapInv ==
    /\ node[root].node_case = "PROJECTION"
    /\ Unused(node, ch, pred, fresh)
    /\ \A n \in Node : pred[n] # <<>> => Linked(n)

(***************************************************************************)
(* While selections are collected: seen are the nodes visited so far, todo *)
(* the rest of their children, and selections the selections in seen.      *)
(***************************************************************************)
Visited(seen) ==
    /\ \A i, j \in DOMAIN todo : todo[i] = todo[j] => i = j
    /\ \A i \in DOMAIN todo : Linked(todo[i]) /\ todo[i] \notin seen
    /\ root \in seen \/ \E i \in DOMAIN todo : todo[i] = root
    /\ \A n \in seen : /\ Linked(n)
                       /\ \A c \in Children(ch, n) :
                             c \in seen \/ \E i \in DOMAIN todo : todo[i] = c
                       /\ n # root => \E p \in seen : n \in Children(ch, p)
    /\ \A i \in DOMAIN todo : todo[i] # root => \E p \in seen : todo[i] \in Children(ch, p)
    /\ \A i, j \in DOMAIN selections : selections[i] = selections[j] => i = j
    /\ \A i \in DOMAIN selections :
          selections[i] \in seen /\ node[selections[i]].node_case = "SELECTION"
    /\ \A n \in seen : node[n].node_case = "SELECTION" =>
          \E i \in DOMAIN selections : selections[i] = n

CollectInv ==
    pc = "collect" => /\ \E seen \in SUBSET Node : Visited(seen)
                      /\ Splits(node, pred, term)

(***************************************************************************)
(* While conjuncts are placed: the selections of work are all different,   *)
(* those still to do are in the tree, and no other selection of the tree   *)
(* is without a predicate.                                                 *)
(***************************************************************************)
WorkInv ==
    Placing =>
        /\ \A i, j \in DOMAIN work : work[i].sel = work[j].sel => i = j
        /\ \A i \in DOMAIN work : i >= wi =>
              Linked(work[i].sel) /\ node[work[i].sel].node_case = "SELECTION"
        /\ \A n \in Node :
              Linked(n) /\ node[n].node_case = "SELECTION" /\ pred[n] = <<>> =>
                  \E i \in DOMAIN work : i >= wi /\ work[i].sel = n

(* The conjuncts of work are all different, and none of them is an AND *)
ConjunctInv ==
    Placing =>
        /\ \A i, k \in DOMAIN work :
              \A j \in DOMAIN work[i].preds, l \in DOMAIN work[k].preds :
                  work[i].preds[j] = work[k].preds[l] => i = k /\ j = l
        /\ \A i \in DOMAIN work : \A j \in DOMAIN work[i].preds :
              IsAtom(term, work[i].preds[j])
        /\ \A n \in Node : node[n].node_case = "SELECTION" =>
              \A k \in DOMAIN pred[n] : IsAtom(term, pred[n][k])

(* Positions of the loops *)
LoopInv ==
    /\ pc = "descend" => HasConjunct /\ Linked(it) /\ it # root
    /\ pc = "done" => wi \notin DOMAIN work
    /\ Placing => wi <= Len(work) + 1

IInv == /\ TypeOK /\ TreeShape /\ Connected /\ HeapInv
        /\ CollectInv /\ WorkInv /\ ConjunctInv /\ LoopInv
        /\ Conserved /\ NotDuplicated

(***************************************************************************)
(* A conjunct that has its place is at the lowest node, and stays there    *)
(* when other selections are put in below or cut out around it.            *)
(***************************************************************************)
LowestInv ==
    Placing =>
        \A n \in Node : Linked(n) /\ node[n].node_case = "SELECTION" =>
            \A k \in DOMAIN pred[n] : IsLowest(ch[n][1], pred[n][k])

-----------------------------------------------------------------------------
(* The refinement mapping *)

(* A predicate of a selection counts as the conjuncts it splits into *)
ConjunctsAt(n) == IF node[n].node_case = "SELECTION" THEN Split(term, pred, n) ELSE pred[n]

HeldNow == {c \in DOMAIN term : \E n \in Node : Linked(n) /\ \E k \in DOMAIN ConjunctsAt(n) : ConjunctsAt(n)[k] = c}

WaitingNow == {c \in DOMAIN term : /\ Placing
                                   /\ \E i \in DOMAIN work : \E j \in DOMAIN work[i].preds :
                                         work[i].preds[j] = c /\ ~Processed(i, j)}

Abstract == INSTANCE Conjuncts WITH
                held <- HeldNow, waiting <- WaitingNow,
                markers <- {c \in DOMAIN term : term[c].op = "marker"}

(***************************************************************************)
(* Push-down implements Conjuncts: with respect to the query's conditions  *)
(* every step takes all conjuncts of the selections out at once, gives one *)
(* back, drops one next to a lone marker, or changes nothing, whatever it  *)
(* does to the nodes and whichever of the four places it finds.            *)
(***************************************************************************)
Implements == Abstract!Spec

=============================================================================
