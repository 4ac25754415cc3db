-------------------------- MODULE ConjunctsProofs ---------------------------
(***************************************************************************)
(* push_down_predicates implements Conjuncts: under the refinement mapping *)
(* of PushDownInv every step is a step of Conjuncts or changes nothing.    *)
(* Once conjuncts are being placed a predicate is its own split, so that   *)
(* what is held is what Held says (HeldPlacing), and the effect of a step  *)
(* on it follows from the lemmas about IInv.                               *)
(***************************************************************************)
EXTENDS PushDownProofs

Markers == {c \in DOMAIN term : term[c].op = "marker"}

(* What the mapping says, element by element *)
HeldIs == \A c : c \in HeldNow <=> Held(c)
Waits(c) == \E i \in DOMAIN work : \E j \in DOMAIN work[i].preds :
                work[i].preds[j] = c /\ ~Processed(i, j)
WaitingIs == \A c : c \in WaitingNow <=> Waits(c)

(* While conjuncts are placed the held ones are those in the predicates *)
LEMMA HeldPlacing == IInv /\ Placing => HeldIs
<1> SUFFICES ASSUME IInv, Placing PROVE HeldIs
  OBVIOUS
<1>1. TypeOK /\ ConjunctInv
  BY DEF IInv
<1>2. \A n \in Node : ConjunctsAt(n) = pred[n]
  <2> SUFFICES ASSUME NEW n \in Node PROVE ConjunctsAt(n) = pred[n]
    OBVIOUS
  <2>1. CASE node[n].node_case = "SELECTION"
    <3>1. \A k \in DOMAIN pred[n] : IsAtom(term, pred[n][k])
      BY <1>1, <2>1 DEF ConjunctInv
    <3> QED
      BY <2>1, <3>1, SplitAtoms DEF ConjunctsAt, Split
  <2> QED
    BY <2>1 DEF ConjunctsAt
<1>3. \A n \in Node : \A k \in DOMAIN pred[n] : pred[n][k] \in DOMAIN term
  <2> SUFFICES ASSUME NEW n \in Node PROVE \A k \in DOMAIN pred[n] : pred[n][k] \in DOMAIN term
    OBVIOUS
  <2>1. pred[n] \in Seq(DOMAIN term)
    BY <1>1 DEF TypeOK
  <2> QED
    BY <2>1
<1> QED
  BY <1>2, <1>3 DEF HeldIs, HeldNow, Held

(* ... and the waiting ones those whose turn has not come *)
LEMMA WaitingPlacing == IInv /\ Placing => WaitingIs
<1> SUFFICES ASSUME IInv, Placing PROVE WaitingIs
  OBVIOUS
<1>1. \A i \in DOMAIN work : \A j \in DOMAIN work[i].preds : work[i].preds[j] \in DOMAIN term
  <2> SUFFICES ASSUME NEW i \in DOMAIN work
               PROVE  \A j \in DOMAIN work[i].preds : work[i].preds[j] \in DOMAIN term
    OBVIOUS
  <2>1. work[i].preds \in Seq(DOMAIN term)
    BY WorkTypes DEF IInv
  <2> QED
    BY <2>1
<1> QED
  BY <1>1 DEF WaitingIs, WaitingNow, Waits

(* Both hold after a step as well *)
LEMMA PlacingNext == (IInv /\ Placing)' => HeldIs' /\ WaitingIs'
BY HeldPlacing, WaitingPlacing, PTL

(* Nothing waits before a call and after it *)
LEMMA NothingWaits == IInv /\ pc \in {"collect", "done"} => WaitingNow = {}
<1> SUFFICES ASSUME IInv, pc \in {"collect", "done"} PROVE WaitingNow = {}
  OBVIOUS
<1>1. CASE pc = "collect"
  BY <1>1 DEF WaitingNow, Placing
<1>2. CASE pc = "done"
  <2>1. /\ TypeOK /\ wi \notin DOMAIN work /\ wi <= Len(work) + 1 /\ wi \in Nat \ {0}
    BY <1>2 DEF IInv, LoopInv, Placing, TypeOK
  <2>2. Len(work) \in Nat /\ DOMAIN work = 1 .. Len(work)
    BY <2>1, WorkTypes
  <2>3. \A i \in DOMAIN work : i < wi
    BY <2>1, <2>2
  <2> QED
    BY <2>3 DEF WaitingNow, Processed
<1> QED
  BY <1>1, <1>2

(* A step that changes no node and no predicate *)
LEMMA HeldSame ==
    ASSUME UNCHANGED <<node, ch, pred, term, root>>
    PROVE  HeldNow' = HeldNow
BY DEF HeldNow, ConjunctsAt, Linked, Split

(* A step inside the loops that processes nothing new *)
LEMMA WaitingSame ==
    ASSUME Placing, Placing', UNCHANGED <<term, work>>,
           \A i \in DOMAIN work : \A j \in DOMAIN work[i].preds :
              Processed(i, j)' <=> Processed(i, j)
    PROVE  WaitingNow' = WaitingNow
BY DEF WaitingNow

Unchanged == HeldNow' = HeldNow /\ WaitingNow' = WaitingNow /\ term' = term

(* Collecting selections, and moving on in the loops *)
LEMMA MovesNothing ==
    ASSUME IInv, \/ CollectSelections \/ FindLowest \/ Descend \/ Return \/ KeepSelection
    PROVE  Unchanged
<1>1. UNCHANGED <<node, ch, pred, term, root, work>>
  BY DEF CollectSelections, FindLowest, Descend, Return, KeepSelection, tree
<1>2. HeldNow' = HeldNow
  BY <1>1, HeldSame
<1>3. CASE CollectSelections
  BY <1>1, <1>2, <1>3 DEF Unchanged, CollectSelections, WaitingNow, Placing
<1>4. CASE FindLowest \/ Descend \/ Return
  <2>1. Placing /\ Placing' /\ UNCHANGED <<wi, pj>>
    BY <1>4 DEF FindLowest, Descend, Return, Placing
  <2> QED
    BY <1>1, <1>2, <2>1, WaitingSame DEF Unchanged, Processed
<1>5. CASE KeepSelection
  <2>1. TypeOK /\ SelectionDone /\ NextSelection /\ Placing /\ Placing'
    BY <1>5 DEF IInv, KeepSelection, SelectionDone, Placing
  <2>2. \A i \in DOMAIN work : \A j \in DOMAIN work[i].preds : Processed(i, j)' <=> Processed(i, j)
    BY <1>1, <2>1, SelectionProcessed
  <2> QED
    BY <1>1, <1>2, <2>1, <2>2, WaitingSame DEF Unchanged
<1> QED
  BY <1>3, <1>4, <1>5

(* The second call starts with everything in its place *)
LEMMA SecondCallUnchanged == IInv /\ SecondCall => Unchanged
<1> SUFFICES ASSUME IInv, SecondCall PROVE Unchanged
  OBVIOUS
<1>1. UNCHANGED <<node, ch, pred, term, root>> /\ pc = "done" /\ pc' = "collect"
  BY DEF SecondCall, tree
<1>2. WaitingNow = {}
  BY <1>1, NothingWaits
<1>3. WaitingNow' = {}
  BY <1>1 DEF WaitingNow, Placing
<1> QED
  BY <1>1, <1>2, <1>3, HeldSame DEF Unchanged

(* The selection that is cut out held nothing *)
LEMMA RemoveSelectionUnchanged == IInv /\ RemoveSelection => Unchanged
<1> SUFFICES ASSUME IInv, RemoveSelection PROVE Unchanged
  OBVIOUS
<1>1. TypeOK /\ TreeShape /\ Connected
  BY DEF IInv
<1>2. /\ SelectionDone /\ NextSelection /\ pc = "place" /\ wi \in DOMAIN work
      /\ UNCHANGED <<node, pred, term, root, pc, work>>
  BY DEF RemoveSelection, SelectionDone
<1>3. Placing /\ Placing'
  BY <1>2 DEF Placing
<1>4. PICK s : s = selection
  OBVIOUS
<1>5. /\ s \in Node /\ Linked(s) /\ s # root /\ DOMAIN ch[s] = {1} /\ ch[s][1] \in Node
      /\ pred[s] = <<>>
  BY <1>2, <1>4, CurrentSelection DEF RemoveSelection
<1>6. PICK p, i : /\ p = get_node_parent(ch, s)[1] /\ i = get_node_parent(ch, s)[2]
                  /\ p \in Node /\ i \in DOMAIN ch[p] /\ ch[p][i] = s
  BY <1>1, <1>5, ParentSlot
<1>7. PICK c : c = ch[s][1]
  OBVIOUS
<1>8. CutsOut(s, p, i, c)
  <2>1. ch' = [ch EXCEPT ![p][i] = c, ![s] = <<>>]
    BY <1>4, <1>6, <1>7 DEF RemoveSelection
  <2> QED
    BY <1>2, <1>5, <1>6, <1>7, <2>1 DEF CutsOut
<1>9. \A n \in Node : Linked(n)' <=> Linked(n) /\ n # s
  BY <1>1, <1>8, CutSlots
<1>10. \A d : Held(d)' <=> Held(d)
  BY <1>2, <1>5, <1>9 DEF Held
<1>11. IInv'
  BY RemoveSelectionInv
<1>12. HeldIs /\ HeldIs'
  BY <1>3, <1>11, HeldPlacing, PlacingNext
<1>13. HeldNow' = HeldNow
  BY <1>10, <1>12 DEF HeldIs
<1>14. \A k \in DOMAIN work : \A j \in DOMAIN work[k].preds : Processed(k, j)' <=> Processed(k, j)
  BY <1>1, <1>2, SelectionProcessed
<1> QED
  BY <1>2, <1>3, <1>13, <1>14, WaitingSame DEF Unchanged

(* The step that processes the current conjunct takes it from the waiting ones *)
LEMMA CurrentProcessed ==
    ASSUME IInv, IInv', pc \in {"place", "descend"}, HasConjunct,
           pj' = pj + 1, pc' = "place", UNCHANGED <<wi, work, term>>
    PROVE  predicate \in WaitingNow /\ WaitingNow' = WaitingNow \ {predicate}
<1>1. TypeOK /\ Placing /\ Placing'
  BY DEF IInv, Placing
<1>2. PICK c : c = predicate
  OBVIOUS
<1>3. /\ \A i \in DOMAIN work : \A j \in DOMAIN work[i].preds :
            work[i].preds[j] = c => i = wi /\ j = pj
      /\ wi \in DOMAIN work /\ pj \in DOMAIN work[wi].preds /\ work[wi].preds[pj] = c
  BY <1>2, CurrentConjunct DEF HasConjunct, predicate
<1>4. \A i \in DOMAIN work : \A j \in DOMAIN work[i].preds :
         Processed(i, j)' <=> Processed(i, j) \/ (i = wi /\ j = pj)
  <2> SUFFICES ASSUME NEW i \in DOMAIN work, NEW j \in DOMAIN work[i].preds
               PROVE  Processed(i, j)' <=> Processed(i, j) \/ (i = wi /\ j = pj)
    OBVIOUS
  <2>1. i \in Nat /\ work[i].preds \in Seq(DOMAIN term)
    BY <1>1, WorkTypes
  <2>2. j \in Nat
    BY <2>1
  <2> QED
    BY <1>1, <2>1, <2>2, ProcessedNext
<1>5. ~Processed(wi, pj)
  BY <1>1 DEF Processed, TypeOK
<1>6. WaitingIs /\ WaitingIs'
  BY <1>1, WaitingPlacing, PlacingNext
<1>7. Waits(c) /\ \A d : Waits(d)' <=> Waits(d) /\ d # c
  BY <1>3, <1>4, <1>5 DEF Waits
<1> QED
  BY <1>2, <1>6, <1>7 DEF WaitingIs

(* What a step may do with the current conjunct *)
Moves(c) == /\ c \in WaitingNow /\ WaitingNow' = WaitingNow \ {c} /\ term' = term
            /\ \/ HeldNow' = HeldNow \cup {c}
               \/ HeldNow' = HeldNow /\ HeldNow \cap Markers # {}

(* Adding it to a predicate of the tree gives it back, or drops it at a lone marker *)
LEMMA AddMoves ==
    ASSUME IInv, pc \in {"place", "descend"}, HasConjunct, NEW x, AddsTo(x)
    PROVE  Moves(predicate)
<1>1. TypeOK /\ Placing
  BY DEF IInv, Placing
<1>2. /\ x \in Node /\ Linked(x) /\ pj' = pj + 1 /\ pc' = "place"
      /\ UNCHANGED <<ch, term, root, work, wi>>
  BY DEF AddsTo
<1>3. IInv' /\ Placing'
  BY <1>2, AddPredicateInv DEF Placing
<1>4. HeldIs /\ HeldIs'
  BY <1>1, <1>3, HeldPlacing, PlacingNext
<1>5. predicate \in WaitingNow /\ WaitingNow' = WaitingNow \ {predicate}
  BY <1>2, <1>3, CurrentProcessed
<1>6. PICK c : c = predicate /\ c \in DOMAIN term
  BY CurrentConjunct
<1>7. pred[x] \in Seq(DOMAIN term)
  BY <1>1, <1>2 DEF TypeOK
<1>8. PICK q : q = add_predicate(term, pred[x], c)
  OBVIOUS
<1>9. /\ \A k \in DOMAIN pred[x] : k \in DOMAIN q /\ q[k] = pred[x][k]
      /\ \A k \in DOMAIN q : k \in DOMAIN pred[x] \/ q[k] = c
      /\ \/ IsBareMarker(term, pred[x]) /\ q = pred[x]
         \/ ~IsBareMarker(term, pred[x]) /\ \E k \in DOMAIN q : q[k] = c
  <2>1. Added(term, pred[x], c, q)
    BY <1>6, <1>7, <1>8, AddFacts
  <2> QED
    BY <2>1 DEF Added
<1>10. pred'[x] = q /\ \A n \in Node : n # x => pred'[n] = pred[n]
  BY <1>1, <1>2, <1>6, <1>8 DEF AddsTo, TypeOK
<1>11. \A n \in Node : Linked(n)' <=> Linked(n)
  BY <1>2 DEF Linked
<1>12. CASE IsBareMarker(term, pred[x])
  <2>1. \A d : Held(d)' <=> Held(d)
    BY <1>9, <1>10, <1>11, <1>12 DEF Held
  <2>2. HeldNow' = HeldNow
    BY <1>4, <2>1 DEF HeldIs
  <2>3. 1 \in DOMAIN pred[x] /\ term[pred[x][1]].op = "marker" /\ pred[x][1] \in DOMAIN term
    BY <1>7, <1>12 DEF IsBareMarker
  <2>4. Held(pred[x][1])
    BY <1>2, <2>3 DEF Held
  <2>5. pred[x][1] \in HeldNow \cap Markers
    BY <1>4, <2>3, <2>4 DEF HeldIs, Markers
  <2> QED
    BY <1>2, <1>5, <2>2, <2>5 DEF Moves
<1>13. CASE ~IsBareMarker(term, pred[x])
  <2>1. \A d : Held(d)' <=> Held(d) \/ d = c
    BY <1>2, <1>9, <1>10, <1>11, <1>13 DEF Held
  <2>2. HeldNow' = HeldNow \cup {c}
    BY <1>4, <2>1 DEF HeldIs
  <2> QED
    BY <1>2, <1>5, <1>6, <2>2 DEF Moves
<1> QED
  BY <1>12, <1>13

(* A selection of its own gives it back *)
LEMMA InsertNewMoves == IInv /\ InsertNewSelection => Moves(predicate)
<1> SUFFICES ASSUME IInv, InsertNewSelection PROVE Moves(predicate)
  OBVIOUS
<1>1. TypeOK /\ TreeShape /\ Connected /\ HeapInv
  BY DEF IInv
<1>2. /\ pc = "descend" /\ fresh \in Node /\ pj' = pj + 1 /\ pc' = "place"
      /\ node' = [node EXCEPT ![fresh] = NewNode("SELECTION")]
      /\ UNCHANGED <<term, root, work, wi>>
  BY DEF InsertNewSelection, AtLowest, NextConjunct
<1>3. HasConjunct /\ it \in Node /\ Linked(it) /\ it # root
  BY <1>2, DescendFacts
<1>4. IInv' /\ Placing /\ Placing'
  BY <1>2, InsertNewSelectionInv DEF Placing
<1>5. HeldIs /\ HeldIs'
  BY <1>4, HeldPlacing, PlacingNext
<1>6. predicate \in WaitingNow /\ WaitingNow' = WaitingNow \ {predicate}
  BY <1>2, <1>3, <1>4, CurrentProcessed
<1>7. PICK f \in Node : f = fresh
  BY <1>2
<1>8. PICK p, i : /\ p = parent[1] /\ i = parent[2]
                  /\ p \in Node /\ i \in DOMAIN ch[p] /\ ch[p][i] = it
  BY <1>1, <1>3, ParentSlot DEF parent
<1>9. node[f] = Free /\ ch[f] = <<>> /\ pred[f] = <<>>
  BY <1>1, <1>7 DEF HeapInv, Unused, Node
<1>10. PutsIn(f, p, i, it)
  <2>1. ch' = [ch EXCEPT ![f] = <<it>>, ![p][i] = f]
    BY <1>7, <1>8 DEF InsertNewSelection
  <2> QED
    BY <1>2, <1>3, <1>7, <1>8, <1>9, <2>1 DEF PutsIn, Free, NewNode
<1>11. \A n \in Node : Linked(n)' <=> Linked(n) \/ n = f
  BY <1>1, <1>10, PutSlots
<1>12. PICK c : c = predicate
  OBVIOUS
<1>13. pred'[f] = <<c>> /\ \A n \in Node : n # f => pred'[n] = pred[n]
  BY <1>1, <1>7, <1>12 DEF InsertNewSelection, TypeOK
<1>14. DOMAIN pred'[f] = {1} /\ pred'[f][1] = c
  BY <1>13
<1>15. \A d : Held(d)' <=> Held(d) \/ d = c
  BY <1>9, <1>11, <1>13, <1>14 DEF Held
<1>16. HeldNow' = HeldNow \cup {c}
  BY <1>5, <1>15 DEF HeldIs
<1> QED
  BY <1>2, <1>6, <1>12, <1>16 DEF Moves

(* The three other places *)
LEMMA PlaceMoves ==
    ASSUME IInv, ReAdd \/ InsertInJoin \/ InsertInSelection
    PROVE  Moves(predicate)
<1>1. CASE ReAdd
  <2>1. HasConjunct /\ pc = "place" /\ wi \in DOMAIN work
    BY <1>1 DEF ReAdd, HasConjunct
  <2>2. selection \in Node /\ Linked(selection)
    BY <2>1, CurrentSelection
  <2>3. AddsTo(selection)
    BY <1>1, <2>2 DEF AddsTo, ReAdd, NextConjunct, IInv, TypeOK
  <2> QED
    BY <2>1, <2>3, AddMoves
<1>2. CASE InsertInJoin
  <2>1. pc = "descend"
    BY <1>2 DEF InsertInJoin, AtLowest
  <2>2. HasConjunct /\ it \in Node /\ Linked(it) /\ TypeOK
    BY <2>1, DescendFacts
  <2>3. /\ node' = [node EXCEPT ![it].type = IF @ = "CROSS_PRODUCT" THEN "INNER" ELSE @]
        /\ node \in [Node -> Label]
    BY <1>2, <2>2 DEF InsertInJoin, TypeOK
  <2>4. /\ node' \in [Node -> Label]
        /\ \A n \in Node : node'[n].node_case = node[n].node_case
        /\ \A n \in Node : n # it => node'[n] = node[n]
    BY <2>2, <2>3, ZenonT(30) DEF Label, JoinType
  <2>5. AddsTo(it)
    BY <1>2, <2>2, <2>4 DEF AddsTo, InsertInJoin, NextConjunct
  <2> QED
    BY <2>1, <2>2, <2>5, AddMoves
<1>3. CASE InsertInSelection
  <2>1. pc = "descend"
    BY <1>3 DEF InsertInSelection, AtLowest
  <2>2. HasConjunct /\ it \in Node /\ Linked(it) /\ it # root /\ TypeOK /\ TreeShape
    BY <2>1, DescendFacts
  <2>3. parent[1] \in Node /\ Linked(parent[1])
    BY <2>2, ParentSlot DEF parent
  <2>4. AddsTo(parent[1])
    BY <1>3, <2>2, <2>3 DEF AddsTo, InsertInSelection, NextConjunct, TypeOK
  <2> QED
    BY <2>1, <2>2, <2>4, AddMoves
<1> QED
  BY <1>1, <1>2, <1>3

(* 1.2 to 1.5 take out what the selections hold, and nothing else *)
LEMMA ExtractTakesOut ==
    ASSUME IInv, ExtractPredicates
    PROVE  /\ WaitingNow = {} /\ WaitingNow' \subseteq HeldNow
           /\ HeldNow' = HeldNow \ WaitingNow' /\ term' = term
<1>1. TypeOK /\ TreeShape /\ Connected /\ HeapInv /\ CollectInv
  BY DEF IInv
<1>2. /\ pc = "collect" /\ todo = <<>> /\ pc' = "place" /\ wi' = 1 /\ pj' = 1
      /\ UNCHANGED <<node, ch, term, root>>
  BY DEF ExtractPredicates
<1>3. /\ DOMAIN work' = DOMAIN selections
      /\ \A i \in DOMAIN selections : work'[i].preds = Split(term, pred, selections[i])
  BY DEF ExtractPredicates, Split
<1>4. \A n \in Node : pred'[n] = IF \E i \in DOMAIN selections : selections[i] = n
                                 THEN <<>> ELSE pred[n]
  BY DEF ExtractPredicates
<1>5. PICK seen \in SUBSET Node : Visited(seen)
  BY <1>1, <1>2 DEF CollectInv
<1>6. \A n \in Node : Linked(n) => n \in seen
  BY <1>1, <1>2, <1>5, AllVisited
<1>7. /\ \A i \in DOMAIN selections : /\ selections[i] \in Node /\ Linked(selections[i])
                                      /\ node[selections[i]].node_case = "SELECTION"
      /\ \A n \in Node : Linked(n) /\ node[n].node_case = "SELECTION" =>
            \E i \in DOMAIN selections : selections[i] = n
  BY <1>5, <1>6 DEF Visited
<1>8. Splits(node, pred, term)
  BY <1>1, <1>2 DEF CollectInv
<1>9. IInv' /\ Placing'
  BY <1>2, ExtractPredicatesInv DEF Placing
<1>10. HeldIs' /\ WaitingIs'
  BY <1>9, PlacingNext
<1>11. WaitingNow = {}
  BY <1>2, NothingWaits
\* c waits afterwards if and only if it is a conjunct of a selection of the tree
<1>12. \A c : Waits(c)' <=> \E n \in Node : /\ Linked(n) /\ node[n].node_case = "SELECTION"
                                            /\ \E k \in DOMAIN ConjunctsAt(n) : ConjunctsAt(n)[k] = c
  <2>1. \A i \in DOMAIN selections : \A j \in DOMAIN work'[i].preds : ~Processed(i, j)'
    <3> SUFFICES ASSUME NEW i \in DOMAIN selections, NEW j \in DOMAIN work'[i].preds
                 PROVE  ~Processed(i, j)'
      OBVIOUS
    <3>1. i \in Nat /\ i >= 1
      BY <1>1 DEF TypeOK
    <3>2. work'[i].preds \in Seq(DOMAIN term)
      BY <1>3, <1>7, <1>8 DEF Splits
    <3>3. j \in Nat /\ j >= 1
      BY <3>2
    <3> QED
      BY <1>2, <3>1, <3>3 DEF Processed
  <2>2. \A i \in DOMAIN selections : work'[i].preds = ConjunctsAt(selections[i])
    BY <1>3, <1>7 DEF ConjunctsAt
  <2> QED
    BY <1>3, <1>7, <2>1, <2>2 DEF Waits
\* c is held afterwards if and only if it is one of another node
<1>13. \A c : Held(c)' <=> \E n \in Node : /\ Linked(n) /\ node[n].node_case # "SELECTION"
                                           /\ \E k \in DOMAIN ConjunctsAt(n) : ConjunctsAt(n)[k] = c
  <2>1. \A n \in Node : Linked(n)' <=> Linked(n)
    BY <1>2 DEF Linked
  <2>2. \A n \in Node : Linked(n) /\ node[n].node_case = "SELECTION" => pred'[n] = <<>>
    BY <1>4, <1>7
  <2>3. \A n \in Node : node[n].node_case # "SELECTION" => pred'[n] = ConjunctsAt(n)
    BY <1>4, <1>7 DEF ConjunctsAt
  <2> QED
    BY <2>1, <2>2, <2>3 DEF Held
\* before, both were held
<1>14. \A n \in Node : \A k \in DOMAIN ConjunctsAt(n) : ConjunctsAt(n)[k] \in DOMAIN term
  <2> SUFFICES ASSUME NEW n \in Node
               PROVE  \A k \in DOMAIN ConjunctsAt(n) : ConjunctsAt(n)[k] \in DOMAIN term
    OBVIOUS
  <2>1. ConjunctsAt(n) \in Seq(DOMAIN term)
    BY <1>1, <1>8 DEF ConjunctsAt, Splits, TypeOK
  <2> QED
    BY <2>1
<1>15. \A c : c \in HeldNow <=> Waits(c)' \/ Held(c)'
  BY <1>12, <1>13, <1>14 DEF HeldNow
\* and no conjunct is in both
<1>16. \A c : ~(Waits(c)' /\ Held(c)')
  <2> SUFFICES ASSUME NEW c, Waits(c)', Held(c)' PROVE FALSE
    OBVIOUS
  <2>1. PICK n \in Node : /\ node[n].node_case = "SELECTION"
                          /\ \E k \in DOMAIN ConjunctsAt(n) : ConjunctsAt(n)[k] = c
    BY <1>12
  <2>2. PICK m \in Node : /\ node[m].node_case # "SELECTION"
                          /\ \E k \in DOMAIN ConjunctsAt(m) : ConjunctsAt(m)[k] = c
    BY <1>13
  <2> QED
    BY <1>8, <2>1, <2>2 DEF Splits, ConjunctsAt
<1>17. WaitingNow' \subseteq HeldNow /\ HeldNow' = HeldNow \ WaitingNow'
  BY <1>10, <1>15, <1>16 DEF HeldIs, WaitingIs
<1> QED
  BY <1>2, <1>11, <1>17

-----------------------------------------------------------------------------
(* Every step of the pass is one of Conjuncts, or leaves its variables alone *)
LEMMA NextRefines == IInv /\ [Next]_vars => [Abstract!Next]_(Abstract!vars)
<1> SUFFICES ASSUME IInv, [Next]_vars PROVE [Abstract!Next]_(Abstract!vars)
  OBVIOUS
<1>1. ASSUME Unchanged PROVE UNCHANGED Abstract!vars
  BY <1>1 DEF Unchanged, Abstract!vars
<1>2. ASSUME Moves(predicate) PROVE Abstract!GiveBack \/ Abstract!Drop
  BY <1>2 DEF Moves, Markers, Abstract!GiveBack, Abstract!Drop
<1>3. CASE CollectSelections \/ FindLowest \/ Descend \/ Return \/ KeepSelection
  BY <1>1, <1>3, MovesNothing
<1>4. CASE SecondCall \/ RemoveSelection
  BY <1>1, <1>4, SecondCallUnchanged, RemoveSelectionUnchanged
<1>5. CASE ExtractPredicates
  BY <1>5, ExtractTakesOut DEF Abstract!TakeOut, Abstract!Next
<1>6. CASE ReAdd \/ InsertInJoin \/ InsertInSelection
  BY <1>2, <1>6, PlaceMoves DEF Abstract!Next
<1>7. CASE InsertNewSelection
  BY <1>2, <1>7, InsertNewMoves DEF Abstract!Next
<1>8. CASE UNCHANGED vars
  <2>1. UNCHANGED <<node, ch, pred, term, root, pc, work, wi, pj>>
    BY <1>8 DEF vars
  <2>2. WaitingNow' = WaitingNow
    BY <2>1 DEF WaitingNow, Placing, Processed
  <2> QED
    BY <1>1, <2>1, <2>2, HeldSame DEF Unchanged
<1> QED
  BY <1>3, <1>4, <1>5, <1>6, <1>7, <1>8 DEF Next

(***************************************************************************)
(* push_down_predicates implements Conjuncts, for every heap size, every   *)
(* set of well-formed trees and both values of convert_cp_to_join: it      *)
(* takes the conjuncts of the selections out and gives each back, unless   *)
(* the query holds a conjunct that is a lone subquery marker.              *)
(***************************************************************************)
THEOREM Refinement == Spec => Implements
<1>1. Init => Abstract!Init
  BY DEF Init, Abstract!Init, WaitingNow, Placing
<1>2. IInv /\ [Next]_vars => [Abstract!Next]_(Abstract!vars)
  BY NextRefines
<1> QED
  BY <1>1, <1>2, Invariance, PTL DEF Spec, Implements, Abstract!Spec

=============================================================================
