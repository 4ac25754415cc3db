-------------------------- MODULE PlacementProofs ---------------------------
(***************************************************************************)
(* Where push_down_predicates may put a conjunct of known relations: never *)
(* next to a lone marker other than that of its own selection, where it    *)
(* would be dropped (LostOnlyToMarker), and never into a subquery          *)
(* (BlockKept).                                                            *)
(***************************************************************************)
EXTENDS PlacementInv, LowestProofs

(* While conjuncts are placed the predicates of selections are split *)
LEMMA SplitPlacing ==
    ASSUME IInv, Placing, NEW n \in Node, node[n].node_case = "SELECTION"
    PROVE  Split(term, pred, n) = pred[n]
<1>1. \A k \in DOMAIN pred[n] : IsAtom(term, pred[n][k])
    BY DEF IInv, ConjunctInv
<1> QED BY <1>1, SplitAtoms DEF Split

LEMMA SplitPlacingNext ==
    ASSUME IInv', Placing', NEW n \in Node, node'[n].node_case = "SELECTION"
    PROVE  Split(term', pred', n) = pred'[n]
<1>1. \A k \in DOMAIN pred'[n] : IsAtom(term', pred'[n][k])
    BY DEF IInv, ConjunctInv
<1> QED BY <1>1, SplitAtoms DEF Split

(***************************************************************************)
(* The four kinds of step: those that leave tree and predicates alone, the *)
(* one that takes the predicates out, and those that put one conjunct back *)
(* or cut an empty selection out.                                          *)
(***************************************************************************)
Stays == /\ CollectSelections \/ FindLowest \/ Descend \/ KeepSelection \/ Return \/ SecondCall
            \/ UNCHANGED vars
         /\ UNCHANGED <<node, ch, pred, term, root>>

Adds == ReAdd \/ InsertInJoin \/ InsertInSelection

LEMMA StepKinds ==
    ASSUME [Next]_vars
    PROVE  Stays \/ ExtractPredicates \/ Adds \/ InsertNewSelection \/ RemoveSelection
<1>1. CASE CollectSelections \/ FindLowest \/ Descend \/ KeepSelection \/ Return \/ SecondCall
           \/ UNCHANGED vars
    BY <1>1 DEF Stays, CollectSelections, FindLowest, Descend, KeepSelection, Return,
                SecondCall, vars, tree
<1> QED BY <1>1 DEF Next, Adds

(* The labels of the nodes keep their names; a new selection has none *)
LEMMA LabelsKept ==
    ASSUME IInv, [Next]_vars, NEW n \in Node
    PROVE  \/ SameNames(node'[n], node[n])
           \/ node[n].node_case = "FREE" /\ node'[n] = NewNode("SELECTION")
<1>1. CASE Stays \/ ExtractPredicates \/ RemoveSelection
  <2>1. node' = node
    BY <1>1 DEF Stays, ExtractPredicates, RemoveSelection
  <2> QED BY <2>1 DEF SameNames
<1>2. CASE Adds
    BY <1>2, AddStep DEF Adds, Target
<1>3. CASE InsertNewSelection
  <2>1. PICK f, p, i : PutsIn(f, p, i, it)
    BY <1>3, InsertNewStep
  <2>2. node \in [Node -> Label]
    BY DEF IInv, TypeOK
  <2> QED BY <2>1, <2>2 DEF PutsIn, SameNames
<1> QED BY <1>1, <1>2, <1>3, StepKinds

(* What a selection of the tree has below it defines the same as before *)
LEMMA ViewKept ==
    ASSUME IInv, [Next]_vars, NEW n \in Node, Linked(n), Linked(n)', node[n].node_case = "SELECTION"
    PROVE  \A c : DefinedIn(node', ch', term', ch'[n][1], c) <=> DefinedIn(node, ch, term, ch[n][1], c)
<1>1. TypeOK /\ TreeShape /\ Connected
    BY DEF IInv
<1>2. DOMAIN ch[n] = {1} /\ ch[n][1] \in Node
    BY <1>1, SelectionChild
<1>3. CASE Stays \/ ExtractPredicates
  <2>1. UNCHANGED <<node, ch, term>>
    BY <1>3 DEF Stays, ExtractPredicates
  <2> QED BY <2>1 DEF DefinedIn
<1>4. CASE Adds
  <2>1. PICK x : Target(x)
    BY <1>4, AddStep DEF Adds
  <2>2. UNCHANGED <<ch, term>> /\ \A m \in Node : SameNames(node'[m], node[m])
    BY <2>1 DEF Target, AddsTo
  <2>3. \A m \in Node : Sees(m)' = Sees(m)
    BY <2>2, <1>1, AddSees
  <2> QED BY <2>2, <2>3, <1>2, SeesDefines
<1>5. CASE InsertNewSelection
  <2>1. PICK f, p, i : PutsIn(f, p, i, it) /\ UNCHANGED term
    BY <1>5, InsertNewStep
  <2>2. Sees(f)' = Sees(it) /\ \A m \in Node : m # f => Sees(m)' = Sees(m)
    BY <2>1, <1>1, PutSees
  <2>3. f \in Node /\ ch[p][i] = it
    BY <2>1 DEF PutsIn
  <2>4. n # f /\ ch[n][1] # f
    BY <2>1, <1>1, <1>2, PutSlots
  <2>5. ch'[n][1] = IF n = p /\ 1 = i THEN f ELSE ch[n][1]
    BY <2>1, <2>4, <1>1, <1>2, PutSlots
  <2>6. CASE n = p /\ 1 = i
    <3>1. ch'[n][1] = f /\ ch[n][1] = it
        BY <2>3, <2>5, <2>6
    <3>2. \A c : DefinedIn(node', ch', term', f, c) <=> DefinedIn(node, ch, term, it, c)
        BY <2>1, <2>2, SeesDefines
    <3> QED BY <3>1, <3>2
  <2>7. CASE ~(n = p /\ 1 = i)
    <3>1. ch'[n][1] = ch[n][1]
        BY <2>5, <2>7
    <3>2. \A c : DefinedIn(node', ch', term', ch[n][1], c) <=> DefinedIn(node, ch, term, ch[n][1], c)
        BY <2>1, <2>2, <2>4, <1>2, SeesDefines
    <3> QED BY <3>1, <3>2
  <2> QED BY <2>6, <2>7
<1>6. CASE RemoveSelection
  <2>1. PICK s, p, i, c : CutsOut(s, p, i, c) /\ node[s].node_case = "SELECTION" /\ UNCHANGED term
    BY <1>6, RemoveStep
  <2>2. Sees(s) = Sees(c) /\ \A m \in Node : m # s => Sees(m)' = Sees(m)
    BY <2>1, <1>1, CutSees
  <2>3. c \in Node /\ ch[p][i] = s
    BY <2>1 DEF CutsOut
  <2>4. n # s /\ c # s
    BY <2>1, <1>1, CutSlots
  <2>5. ch'[n][1] = IF n = p /\ 1 = i THEN c ELSE ch[n][1]
    BY <2>1, <2>4, <1>1, <1>2, CutSlots
  <2>6. ch[n][1] = s => n = p /\ 1 = i
    BY <2>1, <1>1, <1>2 DEF CutsOut, TreeShape, IsTree
  <2>7. CASE ch[n][1] = s
    <3>1. ch'[n][1] = c
        BY <2>5, <2>6, <2>7
    <3>2. \A b : DefinedIn(node', ch', term', c, b) <=> DefinedIn(node, ch, term, s, b)
        BY <2>1, <2>2, <2>3, <2>4, SeesDefines
    <3> QED BY <3>1, <3>2, <2>7
  <2>8. CASE ch[n][1] # s
    <3>1. ch'[n][1] = ch[n][1]
        BY <2>3, <2>5, <2>8
    <3>2. \A b : DefinedIn(node', ch', term', ch[n][1], b) <=> DefinedIn(node, ch, term, ch[n][1], b)
        BY <2>1, <2>2, <2>8, <1>2, SeesDefines
    <3> QED BY <3>1, <3>2
  <2> QED BY <2>7, <2>8
<1> QED BY <1>3, <1>4, <1>5, <1>6, StepKinds

-----------------------------------------------------------------------------
(* The search goes down to nodes that define the conjunct only *)
LEMMA FoundNext == IInv /\ FoundInv /\ [Next]_vars => FoundInv'
<1> SUFFICES ASSUME IInv, FoundInv, [Next]_vars, pc' = "descend"
             PROVE  DefinedIn(node', ch', term', it', predicate')
    BY DEF FoundInv, Defines, DefinedAt, DefinedIn
<1>1. FindLowest \/ Descend \/ UNCHANGED vars
    BY DEF Next, CollectSelections, ExtractPredicates, ReAdd, InsertInJoin, InsertInSelection,
           InsertNewSelection, NextConjunct, RemoveSelection, KeepSelection, SelectionDone,
           Return, SecondCall
<1>2. UNCHANGED <<node, ch, term, work, wi, pj>>
    BY <1>1 DEF FindLowest, Descend, vars, tree
<1>3. DefinedIn(node, ch, term, it', predicate)
  <2>1. CASE FindLowest
    BY <2>1 DEF FindLowest, Defines, DefinedAt, DefinedIn
  <2>2. CASE Descend
    BY <2>2 DEF Descend, Defines, DefinedAt, DefinedIn
  <2>3. CASE UNCHANGED vars
    BY <2>3 DEF vars, FoundInv, Defines, DefinedAt, DefinedIn
  <2> QED BY <1>1, <2>1, <2>2, <2>3
<1>4. predicate' = predicate
    BY <1>2 DEF predicate
<1> QED BY <1>2, <1>3, <1>4

(* A marker is defined where its join is visible *)
LEMMA MarkerCovers ==
    ASSUME NEW labels, NEW children, NEW terms, TermsOrdered(terms), NEW x,
           NEW m \in DOMAIN terms, terms[m].op = "marker"
    PROVE  DefinedIn(labels, children, terms, x, m) <=>
              Covers(labels, children, x, MarkerName(terms[m].id))
<1>1. get_predicate_relations(terms, m) = {MarkerName(terms[m].id)}
    BY MarkerNeeds
<1>2. DefinedIn(labels, children, terms, x, m) <=>
          \A r \in get_predicate_relations(terms, m) : Covers(labels, children, x, r)
    BY DefinedCovers DEF DefinedIn
<1> QED BY <1>1, <1>2

(***************************************************************************)
(* Another selection with the lone marker m is no place for a conjunct of  *)
(* known relations.  The node below it is the join of m, since m is at its *)
(* lowest node.  The conjunct is defined there and not below the join's    *)
(* left side, so that it needs m; but m stands in no other conjunct.       *)
(***************************************************************************)
LEMMA NoDrop ==
    ASSUME IInv, LowestInv, FoundInv, MarkerInv, InsertInSelection,
           NEW x, Target(x), x = parent[1], Resolved(predicate)
    PROVE  ~IsBareMarker(term, pred[x])
<1> SUFFICES ASSUME IsBareMarker(term, pred[x])
             PROVE  FALSE
    OBVIOUS
<1>1. /\ TypeOK /\ TreeShape /\ Connected /\ HasConjunct /\ pc = "descend" /\ Placing
      /\ TermsOrdered(term) /\ NamesOK(node)
    BY DEF IInv, InsertInSelection, AtLowest, Target, Placing, MarkerInv
<1>2. /\ x \in Node /\ Linked(x) /\ node[x].node_case = "SELECTION" /\ ch[x][1] = it
  <2>1. node[x].node_case = "SELECTION"
    BY DEF InsertInSelection
  <2>2. \/ ch[x][1] = it
        \/ ReAdd \/ InsertInJoin
    BY DEF Target
  <2>3. ~ReAdd /\ ~InsertInJoin
    BY <1>1 DEF ReAdd, InsertInJoin, InsertInSelection
  <2> QED BY <2>1, <2>2, <2>3 DEF Target, AddsTo
<1>3. PICK m : /\ m = pred[x][1] /\ 1 \in DOMAIN pred[x]
              /\ m \in DOMAIN term /\ term[m].op = "marker"
  <2>1. pred[x] \in Seq(DOMAIN term) /\ Len(pred[x]) = 1
    BY <1>1, <1>2 DEF TypeOK, IsBareMarker
  <2> QED BY <2>1 DEF IsBareMarker
<1>4. Split(term, pred, x) = pred[x]
    BY <1>1, <1>2, SplitPlacing
<1>5. DefinedIn(node, ch, term, it, m)
    BY <1>2, <1>3, <1>4 DEF MarkerInv, MarkersDefined, MarkerDefined, DefinedIn, Linked
<1>6. \A i \in DOMAIN ch[it] : ~DefinedIn(node, ch, term, ch[it][i], m)
    BY <1>1, <1>2, <1>3, <1>5, LowestForms DEF LowestIn
<1>7. PICK k : k = term[m].id
    OBVIOUS
<1>8. /\ Covers(node, ch, it, MarkerName(k))
      /\ \A i \in DOMAIN ch[it] : ~Covers(node, ch, ch[it][i], MarkerName(k))
    BY <1>1, <1>3, <1>5, <1>6, <1>7, MarkerCovers
<1>9. ch \in [Node -> Seq(Node)] /\ Grounded(Node, Down(ch))
    BY <1>1, StateGrounded
<1>10. it \in Node /\ Linked(it)
    BY <1>1, DescendFacts
<1>11. node[it].name[1] # "marker_" /\ node[it].alias[1] # "marker_"
    BY <1>1, <1>10 DEF NamesOK
<1>12. node[it].node_case = "JOIN" /\ node[it].alias = NoName /\ node[it].marker # 0 /\ node[it].marker = k
    BY <1>8, <1>9, <1>10, <1>11, MarkerJoin
<1>13. 1 \in DOMAIN ch[it]
  <2>1. Len(ch[it]) = 2 /\ ch[it] \in Seq(Node)
    BY <1>1, <1>10, <1>12 DEF TypeOK, TreeShape, IsTree, is_full, n_children, Linked
  <2> QED BY <2>1
<1>14. /\ \A r \in get_predicate_relations(term, predicate) : Covers(node, ch, it, r)
       /\ \E r \in get_predicate_relations(term, predicate) : ~Covers(node, ch, ch[it][1], r)
  <2>1. Defines(it) /\ ~Defines(ch[it][1])
    BY <1>1, <1>13 DEF FoundInv, InsertInSelection, AtLowest
  <2> QED BY <2>1, DefinedCovers DEF Defines, DefinedAt
<1>15. MarkerName(k) \in get_predicate_relations(term, predicate)
  <2>1. PICK r \in get_predicate_relations(term, predicate) :
             Covers(node, ch, it, r) /\ ~Covers(node, ch, ch[it][1], r)
    BY <1>14
  <2>2. r = NoName \/ r = MarkerName(k)
    BY <2>1, <1>9, <1>10, <1>12, <1>13, JoinShows
  <2> QED BY <2>1, <2>2 DEF Resolved
<1>16. predicate \in Candidates /\ m \in Candidates
  <2>1. predicate \in DOMAIN term
    BY <1>1, CurrentConjunct
  <2>2. predicate \in Candidates
    BY <2>1, <1>1 DEF Candidates, HasConjunct, predicate
  <2>3. m \in SelectionConjuncts(node, pred, term)
    BY <1>2, <1>3, <1>4 DEF SelectionConjuncts
  <2> QED BY <2>2, <2>3 DEF Candidates
<1>17. predicate = m
    BY <1>3, <1>7, <1>15, <1>16 DEF MarkerInv, MarkersAlone
<1> QED BY <1>1, <1>2, <1>3, <1>17, CurrentConjunct

-----------------------------------------------------------------------------
(* Markers *)

(* What a step does to the predicate of a node *)
PredStep(n) ==
    \/ pred'[n] = pred[n]
    \/ pred'[n] = <<>> /\ ExtractPredicates
    \/ /\ HasConjunct /\ pc \in {"place", "descend"}
       /\ ~IsBareMarker(term, pred[n])
       /\ pred'[n] = Append(pred[n], predicate)
       /\ \/ Target(n)
          \/ /\ InsertNewSelection /\ pred[n] = <<>> /\ node'[n].node_case = "SELECTION"
             /\ ch'[n][1] = it /\ ~Linked(n) /\ Linked(n)' /\ pc = "descend"

LEMMA PredSteps ==
    ASSUME IInv, [Next]_vars
    PROVE  term' = term /\ \A n \in Node : PredStep(n)
<1>1. TypeOK /\ TreeShape /\ Connected
    BY DEF IInv
<1>2. CASE Stays
    BY <1>2 DEF Stays, PredStep
<1>3. CASE ExtractPredicates
    BY <1>3, ExtractStep DEF PredStep
<1>4. CASE RemoveSelection
    BY <1>4 DEF RemoveSelection, PredStep
<1>5. CASE Adds
  <2>1. PICK x : Target(x)
    BY <1>5, AddStep DEF Adds
  <2>2. /\ HasConjunct /\ pc \in {"place", "descend"} /\ x \in Node /\ term' = term
        /\ pred' = [pred EXCEPT ![x] = add_predicate(term, @, predicate)]
    BY <2>1 DEF Target, AddsTo
  <2>3. \A n \in Node : n # x => pred'[n] = pred[n]
    BY <2>2, <1>1 DEF TypeOK
  <2>4. pred'[x] = IF IsBareMarker(term, pred[x]) THEN pred[x] ELSE Append(pred[x], predicate)
    BY <2>2, <1>1 DEF TypeOK, add_predicate
  <2> QED BY <2>1, <2>2, <2>3, <2>4 DEF PredStep
<1>6. CASE InsertNewSelection
  <2>1. PICK f, p, i :
           /\ PutsIn(f, p, i, it) /\ pred[f] = <<>> /\ pred'[f] = <<predicate>>
           /\ \A n \in Node : n # f => pred'[n] = pred[n]
           /\ pc = "descend" /\ UNCHANGED term
    BY <1>6, InsertNewStep
  <2>2. f \in Node /\ node'[f].node_case = "SELECTION"
    BY <2>1, <1>1 DEF PutsIn, TypeOK, NewNode
  <2>3. ch'[f][1] = it /\ ~Linked(f) /\ Linked(f)'
    BY <2>1, <2>2, <1>1, PutSlots
  <2>4. ~IsBareMarker(term, pred[f]) /\ Append(pred[f], predicate) = <<predicate>>
    BY <2>1 DEF IsBareMarker
  <2>5. HasConjunct
    BY <2>1, DescendFacts
  <2> QED BY <1>6, <2>1, <2>2, <2>3, <2>4, <2>5 DEF PredStep
<1> QED BY <1>2, <1>3, <1>4, <1>5, <1>6, StepKinds DEF PredStep, Stays

LEMMA PredicateType ==
    ASSUME TypeOK, HasConjunct
    PROVE  predicate \in DOMAIN term
<1>1. wi \in DOMAIN work /\ pj \in DOMAIN work[wi].preds
    BY DEF HasConjunct
<1>2. work[wi].preds \in Seq(DOMAIN term)
    BY <1>1, WorkTypes
<1> QED BY <1>1, <1>2 DEF predicate

(* Only an empty node becomes a selection *)
LEMMA WasSelection ==
    ASSUME IInv, [Next]_vars, NEW n \in Node, node'[n].node_case = "SELECTION", NEW k \in DOMAIN pred[n]
    PROVE  node[n].node_case = "SELECTION"
<1>1. CASE node[n].node_case = "FREE"
  <2>1. ~Linked(n)
    BY <1>1 DEF IInv, TreeShape, IsTree, Linked
  <2>2. pred[n] = <<>>
    BY <2>1 DEF IInv, HeapInv
  <2> QED BY <2>2
<1> QED BY <1>1, LabelsKept DEF SameNames

(* No step makes up a conjunct *)
LEMMA CandidatesShrink ==
    ASSUME IInv, IInv', [Next]_vars
    PROVE  Candidates' \subseteq Candidates
<1>1. TypeOK /\ HeapInv /\ TypeOK' /\ HeapInv' /\ term' = term
    BY PredSteps DEF IInv
<1>2. CASE Stays
  <2>1. UNCHANGED <<node, pred, term>>
    BY <1>2 DEF Stays
  <2>2. SelectionConjuncts(node', pred', term') = SelectionConjuncts(node, pred, term)
    BY <2>1
  <2>3. Placing' => Placing /\ work' = work
    BY <1>2 DEF Stays, CollectSelections, FindLowest, Descend, KeepSelection, SelectionDone, Return,
                SecondCall, vars, Placing
  <2> QED BY <2>1, <2>2, <2>3 DEF Candidates
<1>3. CASE ExtractPredicates
  <2>1. /\ \A n \in Node : pred'[n] = <<>> \/ pred'[n] = pred[n]
        /\ node' = node
        /\ \A i \in DOMAIN work' : /\ work'[i].sel \in Node
                                   /\ node[work'[i].sel].node_case = "SELECTION"
                                   /\ work'[i].preds = Split(term, pred, work'[i].sel)
    BY <1>3, ExtractStep
  <2>2. \A n \in Node : pred'[n] = <<>> => Split(term', pred', n) = <<>>
    BY SplitAtoms DEF Split
  <2>3. \A n \in Node : pred'[n] = pred[n] => Split(term', pred', n) = Split(term, pred, n)
    BY <1>1 DEF Split
  <2>4. ASSUME NEW n \in Node, NEW k \in DOMAIN Split(term', pred', n)
        PROVE  k \in DOMAIN Split(term, pred, n) /\ Split(term', pred', n)[k] = Split(term, pred, n)[k]
    BY <2>1, <2>2, <2>3, <2>4
  <2>5. SelectionConjuncts(node', pred', term') \subseteq SelectionConjuncts(node, pred, term)
    BY <2>1, <2>4, <1>1 DEF SelectionConjuncts
  <2>6. \A i \in DOMAIN work' : \A j \in DOMAIN work'[i].preds :
           work'[i].preds[j] \in DOMAIN term => work'[i].preds[j] \in SelectionConjuncts(node, pred, term)
    BY <2>1 DEF SelectionConjuncts
  <2> QED BY <2>5, <2>6, <1>1 DEF Candidates
<1>4. CASE Adds \/ InsertNewSelection \/ RemoveSelection
  <2>1. Placing /\ Placing' /\ work' = work
    BY <1>4 DEF Adds, ReAdd, InsertInJoin, InsertInSelection, InsertNewSelection, AtLowest, NextConjunct,
                RemoveSelection, SelectionDone, Placing
  <2>2. ~ExtractPredicates
    BY <2>1 DEF ExtractPredicates, Placing
  <2>3. ASSUME NEW n \in Node, node'[n].node_case = "SELECTION", NEW k \in DOMAIN pred'[n],
               pred'[n][k] \in DOMAIN term
        PROVE  pred'[n][k] \in Candidates
    <3>1. CASE pred'[n] = pred[n]
      <4>1. node[n].node_case = "SELECTION"
        BY <2>3, <3>1, WasSelection
      <4>2. Split(term, pred, n) = pred[n]
        BY <2>1, <4>1, SplitPlacing
      <4> QED BY <4>1, <4>2, <3>1, <2>3 DEF Candidates, SelectionConjuncts
    <3>2. CASE pred'[n] = Append(pred[n], predicate) /\ HasConjunct
      <4>1. pred[n] \in Seq(DOMAIN term) /\ predicate \in DOMAIN term
        BY <1>1, <3>2, PredicateType DEF TypeOK
      <4>2. predicate \in Candidates
        BY <2>1, <3>2, <4>1 DEF Candidates, HasConjunct, predicate
      <4>3. pred'[n][k] = predicate \/ (k \in DOMAIN pred[n] /\ pred'[n][k] = pred[n][k])
        BY <3>2, <4>1, <2>3, AppendFacts
      <4>4. CASE k \in DOMAIN pred[n] /\ pred'[n][k] = pred[n][k]
        <5>1. node[n].node_case = "SELECTION"
          BY <2>3, <4>4, WasSelection
        <5>2. Split(term, pred, n) = pred[n]
          BY <2>1, <5>1, SplitPlacing
        <5> QED BY <5>1, <5>2, <4>4, <2>3 DEF Candidates, SelectionConjuncts
      <4> QED BY <4>2, <4>3, <4>4
    <3> QED BY <2>2, <3>1, <3>2, PredSteps DEF PredStep
  <2>4. SelectionConjuncts(node', pred', term') \subseteq Candidates
    BY <2>1, <2>3, <1>1, SplitPlacingNext DEF SelectionConjuncts
  <2> QED BY <2>1, <2>4, <1>1 DEF Candidates
<1> QED BY <1>2, <1>3, <1>4, StepKinds

(* Nothing but a marker makes the condition of a join a lone marker *)
LEMMA JoinsNext ==
    ASSUME IInv, MarkerInv, [Next]_vars
    PROVE  JoinsOK(node', pred', term')
<1> SUFFICES ASSUME NEW n \in Node, node'[n].node_case = "JOIN"
             PROVE  ~IsBareMarker(term', pred'[n])
    BY DEF JoinsOK
<1>1. TypeOK /\ JoinsOK(node, pred, term) /\ TermsOrdered(term)
    BY DEF IInv, MarkerInv
<1>2. term' = term /\ PredStep(n)
    BY PredSteps
<1>3. node[n].node_case = "JOIN"
    BY LabelsKept DEF SameNames, NewNode
<1>4. ~IsBareMarker(term, pred[n])
    BY <1>1, <1>3 DEF JoinsOK
<1>5. CASE pred'[n] = pred[n] \/ pred'[n] = <<>>
    BY <1>2, <1>4, <1>5 DEF IsBareMarker
<1>6. CASE pred'[n] = Append(pred[n], predicate) /\ HasConjunct /\ Target(n)
  <2>1. pred[n] \in Seq(DOMAIN term) /\ predicate \in DOMAIN term
    BY <1>1, <1>6, PredicateType DEF TypeOK
  <2>2. InsertInJoin
    <3>1. ~(node[n].node_case = "SELECTION")
        BY <1>3
    <3>2. CASE ReAdd /\ n = selection
        BY <3>1, <3>2, CurrentSelection DEF ReAdd, HasConjunct
    <3> QED BY <1>6, <3>1, <3>2 DEF Target
  <2>3. term[predicate].op # "marker"
    BY <1>1, <2>1, <2>2, MarkerContains DEF InsertInJoin, IntoJoin
  <2>4. Len(pred'[n]) = Len(pred[n]) + 1 /\ pred'[n][Len(pred[n]) + 1] = predicate /\ Len(pred[n]) \in Nat
    BY <1>6, <2>1
  <2> QED BY <1>2, <2>3, <2>4 DEF IsBareMarker
<1> QED BY <1>2, <1>3, <1>5, <1>6 DEF PredStep

(* The joins of markers stay below the selections of the markers *)
LEMMA MarkersDefinedNext ==
    ASSUME IInv, IInv', FoundInv, MarkerInv, [Next]_vars
    PROVE  MarkersDefined(node', ch', pred', term', root')
<1>1. TypeOK /\ term' = term /\ MarkersDefined(node, ch, pred, term, root) /\ WaitingDefined
    BY PredSteps DEF IInv, MarkerInv
<1>2. \A n \in Node : Linked(n) /\ node[n].node_case = "SELECTION" =>
         \A k \in DOMAIN Split(term, pred, n) :
            term[Split(term, pred, n)[k]].op = "marker" =>
                DefinedIn(node, ch, term, ch[n][1], Split(term, pred, n)[k])
    BY <1>1 DEF MarkersDefined, MarkerDefined, DefinedIn, Linked
<1> SUFFICES ASSUME NEW n \in Node, Linked(n)', node'[n].node_case = "SELECTION",
                    NEW k \in DOMAIN Split(term', pred', n),
                    term[Split(term', pred', n)[k]].op = "marker"
             PROVE  DefinedIn(node', ch', term', ch'[n][1], Split(term', pred', n)[k])
    BY <1>1 DEF MarkersDefined, MarkerDefined, DefinedIn, Linked
<1>3. CASE Stays
  <2>1. UNCHANGED <<node, ch, pred, term, root>>
    BY <1>3 DEF Stays
  <2> QED BY <1>2, <2>1 DEF Linked
<1>4. CASE ExtractPredicates
  <2>1. Linked(n) /\ node[n].node_case = "SELECTION"
    BY <1>4, ExtractStep DEF Linked
  <2>2. pred'[n] = <<>>
    BY <1>4, <2>1, ExtractStep
  <2>3. Split(term', pred', n) = <<>>
    BY <2>2, SplitAtoms DEF Split
  <2> QED BY <2>3
<1>5. CASE Adds \/ InsertNewSelection \/ RemoveSelection
  <2>1. Placing /\ Placing' /\ ~ExtractPredicates
    BY <1>5 DEF Adds, ReAdd, InsertInJoin, InsertInSelection, InsertNewSelection, AtLowest, NextConjunct,
                RemoveSelection, SelectionDone, Placing, ExtractPredicates
  <2>2. Split(term', pred', n) = pred'[n]
    BY <2>1, SplitPlacingNext
  <2>3. ASSUME k \in DOMAIN pred[n], pred'[n][k] = pred[n][k]
        PROVE  DefinedIn(node', ch', term', ch'[n][1], pred[n][k])
    <3>1. node[n].node_case = "SELECTION" /\ Linked(n)
        BY <2>3, WasSelection DEF IInv, HeapInv
    <3>2. Split(term, pred, n) = pred[n]
        BY <2>1, <3>1, SplitPlacing
    <3>3. DefinedIn(node, ch, term, ch[n][1], pred[n][k])
        BY <1>2, <2>2, <2>3, <3>1, <3>2
    <3> QED BY <3>1, <3>3, ViewKept
  <2>4. CASE pred'[n] = pred[n]
    BY <2>2, <2>3, <2>4
  <2>5. CASE /\ HasConjunct /\ pc \in {"place", "descend"} /\ pred'[n] = Append(pred[n], predicate)
             /\ \/ Target(n)
                \/ InsertNewSelection /\ ch'[n][1] = it
    <3>1. pred[n] \in Seq(DOMAIN term) /\ predicate \in DOMAIN term
        BY <1>1, <2>5, PredicateType DEF TypeOK
    <3>2. pred'[n][k] = predicate \/ (k \in DOMAIN pred[n] /\ pred'[n][k] = pred[n][k])
        BY <2>2, <2>5, <3>1, AppendFacts
    <3>3. CASE pred'[n][k] = predicate
      <4>1. term[predicate].op = "marker"
        BY <2>2, <3>3
      <4>2. CASE Target(n)
        <5>1. Linked(n) /\ UNCHANGED ch /\ node[n].node_case = "SELECTION"
          BY <4>2 DEF Target, AddsTo
        <5>2. DefinedIn(node, ch, term, ch[n][1], predicate)
          <6>1. CASE ReAdd /\ n = selection
            <7>1. wi \in DOMAIN work /\ pj \in DOMAIN work[wi].preds /\ ~Processed(wi, pj)
              BY <1>1, <2>5 DEF HasConjunct, Processed, TypeOK
            <7>2. MarkerDefined(node, ch, term, work[wi].sel, work[wi].preds[pj])
              BY <1>1, <2>1, <7>1 DEF WaitingDefined
            <7> QED BY <7>2, <4>1, <6>1 DEF MarkerDefined, DefinedIn, selection, predicate
          <6>2. CASE InsertInSelection /\ ch[n][1] = it
            BY <6>2 DEF InsertInSelection, AtLowest, FoundInv, Defines, DefinedAt, DefinedIn
          <6> QED BY <4>2, <5>1, <6>1, <6>2 DEF Target
        <5> QED BY <5>1, <5>2, <2>2, <3>3, ViewKept
      <4>3. CASE InsertNewSelection /\ ch'[n][1] = it
        <5>1. PICK f, p, i : PutsIn(f, p, i, it) /\ pc = "descend"
          BY <4>3, InsertNewStep
        <5>2. TypeOK /\ TreeShape /\ Connected /\ it \in Node
          BY DEF IInv, TypeOK
        <5>3. \A m \in Node : m # f => Sees(m)' = Sees(m)
          BY <5>1, <5>2, PutSees
        <5>4. it # f /\ DefinedIn(node, ch, term, it, predicate)
          BY <5>1, <5>2, PutSlots DEF FoundInv, Defines, DefinedAt, DefinedIn
        <5>5. DefinedIn(node', ch', term', it, predicate)
          BY <5>2, <5>3, <5>4, <1>1, SeesDefines
        <5> QED BY <5>5, <4>3, <3>3, <2>2
      <4> QED BY <2>5, <4>2, <4>3
    <3> QED BY <2>2, <2>3, <3>2, <3>3
  <2> QED BY <2>1, <2>4, <2>5, PredSteps DEF PredStep
<1> QED BY <1>3, <1>4, <1>5, StepKinds

(* ... and below the selections whose markers still wait *)
LEMMA WaitingNext ==
    ASSUME IInv, IInv', MarkerInv, [Next]_vars
    PROVE  WaitingDefined'
<1>1. TypeOK /\ term' = term /\ MarkersDefined(node, ch, pred, term, root) /\ WaitingDefined
    BY PredSteps DEF IInv, MarkerInv
<1> SUFFICES ASSUME Placing', NEW i \in DOMAIN work', NEW j \in DOMAIN work'[i].preds,
                    ~Processed(i, j)', term[work'[i].preds[j]].op = "marker"
             PROVE  DefinedIn(node', ch', term', ch'[work'[i].sel][1], work'[i].preds[j])
    BY <1>1 DEF WaitingDefined, MarkerDefined, DefinedIn
<1>2. CASE ExtractPredicates
  <2>1. /\ work'[i].sel \in Node /\ Linked(work'[i].sel) /\ node[work'[i].sel].node_case = "SELECTION"
        /\ work'[i].preds = Split(term, pred, work'[i].sel)
        /\ UNCHANGED <<node, ch>>
    BY <1>2, ExtractStep
  <2>2. PICK s : s = work'[i].sel
    OBVIOUS
  <2>3. DefinedIn(node, ch, term, ch[s][1], work'[i].preds[j])
    BY <1>1, <2>1, <2>2 DEF MarkersDefined, MarkerDefined, DefinedIn, Linked
  <2> QED BY <2>1, <2>2, <2>3, <1>1
<1>3. CASE ~ExtractPredicates
  <2>1. Placing /\ work' = work
    BY <1>3 DEF Next, CollectSelections, FindLowest, Descend, KeepSelection, SelectionDone, Return,
                SecondCall, vars, Placing, ReAdd, InsertInJoin, InsertInSelection, InsertNewSelection,
                AtLowest, RemoveSelection
  <2>2. i \in DOMAIN work /\ j \in DOMAIN work[i].preds /\ i \in Nat
    BY <1>1, <2>1, WorkTypes
  <2>3. ~Processed(i, j)
    <3>1. CASE pj' = pj + 1 /\ wi' = wi
      <4>1. j \in Nat
        BY <1>1, <2>2, WorkTypes
      <4> QED BY <3>1, <4>1, <1>1, <2>2, ProcessedNext
    <3>2. CASE SelectionDone /\ NextSelection
        BY <3>2, <1>1, <2>1, <2>2, SelectionProcessed
    <3>3. CASE UNCHANGED <<wi, pj>>
        BY <3>3 DEF Processed
    <3>4. \/ pj' = pj + 1 /\ wi' = wi
          \/ SelectionDone /\ NextSelection
          \/ UNCHANGED <<wi, pj>>
        BY <1>3 DEF Next, CollectSelections, FindLowest, Descend, KeepSelection, Return,
                SecondCall, vars, ReAdd, InsertInJoin, InsertInSelection, InsertNewSelection,
                NextConjunct, RemoveSelection
    <3> QED BY <3>1, <3>2, <3>3, <3>4
  <2>4. PICK s : s = work[i].sel
    OBVIOUS
  <2>5. DefinedIn(node, ch, term, ch[s][1], work[i].preds[j])
    BY <1>1, <2>1, <2>2, <2>3, <2>4 DEF WaitingDefined, MarkerDefined, DefinedIn
  <2>6. s \in Node /\ Linked(s) /\ Linked(s)' /\ node[s].node_case = "SELECTION"
    <3>1. wi \in Nat /\ wi' \in Nat
        BY DEF IInv, TypeOK
    <3>2. i >= wi /\ i >= wi'
        BY <2>2, <2>3, <3>1 DEF Processed
    <3>3. s \in Node
        BY <1>1, <2>2, <2>4, WorkTypes
    <3> QED BY <2>1, <2>2, <2>4, <3>2, <3>3 DEF IInv, WorkInv
  <2> QED BY <2>1, <2>4, <2>5, <2>6, ViewKept
<1> QED BY <1>2, <1>3

(* No step but ExtractPredicates takes a conjunct out of the tree *)
LEMMA HeldKept ==
    ASSUME IInv, [Next]_vars, ~ExtractPredicates, NEW c, Held(c)
    PROVE  Held(c)'
<1>1. TypeOK /\ TreeShape /\ Connected
    BY DEF IInv
<1>2. PICK n, k : n \in Node /\ k \in DOMAIN pred[n] /\ Linked(n) /\ pred[n][k] = c
    BY DEF Held
<1>3. Linked(n)'
  <2>1. CASE Stays
    BY <2>1, <1>2 DEF Stays, Linked
  <2>2. CASE Adds
    BY <2>2, <1>2, AddStep DEF Adds, Target, AddsTo, Linked
  <2>3. CASE InsertNewSelection
    BY <2>3, <1>1, <1>2, InsertNewStep, PutSlots
  <2>4. CASE RemoveSelection
    <3>1. PICK s, p, i, d : CutsOut(s, p, i, d) /\ pred[s] = <<>>
        BY <2>4, RemoveStep
    <3>2. n # s
        BY <3>1, <1>2
    <3> QED BY <3>1, <3>2, <1>1, <1>2, CutSlots
  <2> QED BY <2>1, <2>2, <2>3, <2>4, StepKinds
<1>4. k \in DOMAIN pred'[n] /\ pred'[n][k] = c
  <2>1. CASE pred'[n] = pred[n]
    BY <2>1, <1>2
  <2>2. CASE HasConjunct /\ pred'[n] = Append(pred[n], predicate)
    <3>1. pred[n] \in Seq(DOMAIN term) /\ predicate \in DOMAIN term
        BY <1>1, <1>2, <2>2, PredicateType DEF TypeOK
    <3> QED BY <3>1, <2>2, <1>2, AppendFacts
  <2> QED BY <2>1, <2>2, <1>2, PredSteps DEF PredStep
<1> QED BY <1>2, <1>3, <1>4 DEF Held

(* The current conjunct is in the tree after the step, or its own selection is a lone marker *)
LEMMA PlacedOrMarker ==
    ASSUME IInv, LowestInv, FoundInv, MarkerInv, Adds \/ InsertNewSelection,
           Resolved(predicate), NEW c, c = predicate
    PROVE  Held(c)' \/ IsBareMarker(term, pred'[selection])
<1>1. TypeOK /\ TreeShape /\ Connected
    BY DEF IInv
<1>2. CASE Adds
  <2>1. PICK x : Target(x)
    BY <1>2, AddStep DEF Adds
  <2>2. /\ x \in Node /\ Linked(x) /\ HasConjunct /\ UNCHANGED <<ch, root, term, work, wi>>
        /\ pred' = [pred EXCEPT ![x] = add_predicate(term, @, predicate)]
    BY <2>1 DEF Target, AddsTo
  <2>3. Added(term, pred[x], predicate, pred'[x])
    BY <1>1, <2>2, PredicateType, AddFacts DEF TypeOK
  <2>4. CASE IsBareMarker(term, pred[x]) /\ pred'[x] = pred[x]
    <3>1. CASE ReAdd /\ x = selection
        BY <2>4, <3>1
    <3>2. CASE InsertInJoin /\ node[x].node_case = "JOIN"
        BY <2>2, <2>4, <3>2 DEF MarkerInv, JoinsOK
    <3>3. CASE InsertInSelection /\ x = parent[1]
        BY <2>1, <2>4, <3>3, NoDrop
    <3> QED BY <2>1, <3>1, <3>2, <3>3 DEF Target
  <2>5. CASE \E k \in DOMAIN pred'[x] : pred'[x][k] = predicate
    <3>1. Linked(x)'
        BY <2>2 DEF Linked
    <3> QED BY <2>2, <2>5, <3>1 DEF Held
  <2> QED BY <2>3, <2>4, <2>5 DEF Added
<1>3. CASE InsertNewSelection
  <2>1. PICK f, p, i : PutsIn(f, p, i, it) /\ pred'[f] = <<predicate>>
    BY <1>3, InsertNewStep
  <2>2. f \in Node
    BY <2>1 DEF PutsIn
  <2>3. Linked(f)'
    BY <1>1, <2>1, <2>2, PutSlots
  <2>4. \E k \in DOMAIN pred'[f] : pred'[f][k] = predicate
    BY <2>1
  <2> QED BY <2>2, <2>3, <2>4 DEF Held
<1> QED BY <1>2, <1>3

(* Where a conjunct of known relations gets lost *)
LEMMA LostNext ==
    ASSUME IInv, LowestInv, FoundInv, MarkerInv, [Next]_vars
    PROVE  LostOnlyToMarker'
<1>1. TypeOK /\ term' = term /\ LostOnlyToMarker
    BY PredSteps DEF IInv, MarkerInv
<1> SUFFICES ASSUME Placing', NEW i \in DOMAIN work', NEW j \in DOMAIN work'[i].preds,
                    Processed(i, j)', NEW c, c = work'[i].preds[j], ~Held(c)',
                    NoName \notin get_predicate_relations(term, c)
             PROVE  IsBareMarker(term, pred'[work'[i].sel])
  <2>1. LostOnlyToMarker' <=>
          (Placing' => \A i \in DOMAIN work' : \A j \in DOMAIN work'[i].preds :
             \A c : c = work'[i].preds[j] =>
                (Processed(i, j)' /\ ~Held(c)' /\ NoName \notin get_predicate_relations(term', c) =>
                    IsBareMarker(term', pred'[work'[i].sel])))
    BY DEF LostOnlyToMarker, Resolved, Held
  <2> QED BY <1>1, <2>1
<1>2. CASE ExtractPredicates
  <2>1. work' \in Seq([sel : Node, preds : Seq(DOMAIN term)]) /\ wi' = 1 /\ pj' = 1
    <3>1. IInv'
        BY NextInv
    <3> QED BY <3>1, <1>1, <1>2 DEF IInv, TypeOK, ExtractPredicates
  <2>2. /\ i \in Nat \ {0}
        /\ work'[i].preds \in Seq(DOMAIN term)
    <3>1. PICK w, R : w = work' /\ R = [sel : Node, preds : Seq(DOMAIN term)]
        OBVIOUS
    <3>2. w \in Seq(R) /\ i \in DOMAIN w
        BY <2>1, <3>1
    <3>3. i \in Nat \ {0} /\ w[i] \in R
        BY <3>2
    <3> QED BY <3>1, <3>3
  <2>3. j \in Nat \ {0}
    BY <2>2
  <2> QED BY <2>1, <2>2, <2>3 DEF Processed
<1>3. CASE ~ExtractPredicates
  <2>1. Placing /\ work' = work
    BY <1>3 DEF Next, CollectSelections, FindLowest, Descend, KeepSelection, SelectionDone, Return,
                SecondCall, vars, Placing, ReAdd, InsertInJoin, InsertInSelection, InsertNewSelection,
                AtLowest, RemoveSelection
  <2>2. /\ i \in DOMAIN work /\ j \in DOMAIN work[i].preds /\ i \in Nat
        /\ work[i].preds \in Seq(DOMAIN term) /\ work[i].sel \in Node
    BY <1>1, <2>1, WorkTypes
  <2>3. ~Held(c)
    BY <1>3, HeldKept
  <2>4. CASE Processed(i, j)
    <3>1. IsBareMarker(term, pred[work[i].sel])
        BY <1>1, <2>1, <2>2, <2>3, <2>4 DEF LostOnlyToMarker, Resolved
    <3>2. pred'[work[i].sel] = pred[work[i].sel]
        BY <1>3, <2>2, <3>1, PredSteps DEF PredStep
    <3> QED BY <2>1, <3>1, <3>2
  <2>5. CASE /\ i = wi /\ j = pj
             /\ Adds \/ InsertNewSelection
    <3>1. c = predicate /\ selection = work[i].sel
        BY <2>1, <2>5 DEF predicate, selection
    <3>2. Resolved(predicate)
        BY <3>1 DEF Resolved
    <3> QED BY <3>1, <3>2, <2>1, <2>5, PlacedOrMarker
  <2>6. Processed(i, j) \/ (i = wi /\ j = pj /\ (Adds \/ InsertNewSelection))
    <3>1. CASE pj' = pj + 1 /\ wi' = wi /\ (Adds \/ InsertNewSelection)
      <4>1. j \in Nat
        BY <2>2
      <4> QED BY <3>1, <4>1, <1>1, <2>2, ProcessedNext
    <3>2. CASE SelectionDone /\ NextSelection
        BY <3>2, <1>1, <2>1, <2>2, SelectionProcessed
    <3>3. CASE UNCHANGED <<wi, pj>>
        BY <3>3 DEF Processed
    <3>4. \/ pj' = pj + 1 /\ wi' = wi /\ (Adds \/ InsertNewSelection)
          \/ SelectionDone /\ NextSelection
          \/ UNCHANGED <<wi, pj>>
        BY <1>3 DEF Next, CollectSelections, FindLowest, Descend, KeepSelection, Return,
                SecondCall, vars, ReAdd, InsertInJoin, InsertInSelection, InsertNewSelection,
                NextConjunct, RemoveSelection, Adds
    <3> QED BY <3>1, <3>2, <3>3, <3>4
  <2> QED BY <2>4, <2>5, <2>6
<1> QED BY <1>2, <1>3

LEMMA MarkerNext == IInv /\ LowestInv /\ FoundInv /\ MarkerInv /\ [Next]_vars => MarkerInv'
<1> SUFFICES ASSUME IInv, LowestInv, FoundInv, MarkerInv, [Next]_vars
             PROVE  MarkerInv'
    OBVIOUS
<1>1. IInv' /\ term' = term
    BY NextInv, PredSteps
<1>2. TermsOrdered(term')
    BY <1>1 DEF MarkerInv
<1>3. NamesOK(node')
  <2>1. NamesOK(node)
    BY DEF MarkerInv
  <2>2. ASSUME NEW n \in Node
        PROVE  node'[n].name[1] # "marker_" /\ node'[n].alias[1] # "marker_"
    <3>1. CASE SameNames(node'[n], node[n])
        BY <2>1, <3>1 DEF NamesOK, SameNames
    <3>2. CASE node'[n] = NewNode("SELECTION")
      <4>1. node'[n].name = NoName /\ node'[n].alias = NoName
        BY <3>2 DEF NewNode
      <4>2. NoName[1] # "marker_"
        BY DEF NoName
      <4> QED BY <4>1, <4>2
    <3> QED BY <3>1, <3>2, LabelsKept
  <2> QED BY <2>2 DEF NamesOK
<1>4. MarkersAlone(term', Candidates')
  <2>1. MarkersAlone(term, Candidates) /\ Candidates' \subseteq Candidates
    BY <1>1, CandidatesShrink DEF MarkerInv
  <2> QED BY <1>1, <2>1 DEF MarkersAlone
<1>5. JoinsOK(node', pred', term')
    BY JoinsNext
<1>6. MarkersDefined(node', ch', pred', term', root') /\ WaitingDefined'
    BY <1>1, MarkersDefinedNext, WaitingNext
<1>7. LostOnlyToMarker'
    BY LostNext
<1> QED BY <1>2, <1>3, <1>4, <1>5, <1>6, <1>7 DEF MarkerInv

LEMMA MarkerInit == Init => LowestInv /\ FoundInv /\ MarkerInv
<1> SUFFICES ASSUME Init
             PROVE  LowestInv /\ FoundInv /\ MarkerInv
    OBVIOUS
<1>1. PICK t \in Trees : /\ node = t.node /\ ch = t.ch /\ pred = t.pred
                         /\ term = t.term /\ root = t.root
    BY DEF Init
<1>2. SubqueriesOK(t)
    BY SubqueriesAssumption
<1>3. pc = "collect" /\ ~Placing
    BY DEF Init, Placing
<1>4. Candidates = SelectionConjuncts(node, pred, term)
    BY <1>3 DEF Candidates
<1>5. MarkerInv
    BY <1>1, <1>2, <1>3, <1>4 DEF SubqueriesOK, MarkersOK, MarkerInv, WaitingDefined, LostOnlyToMarker
<1> QED BY <1>3, <1>5 DEF LowestInv, FoundInv

-----------------------------------------------------------------------------
(* Query blocks *)

(* The slot get_node_parent finds is the one that holds the node *)
LEMMA ParentIs ==
    ASSUME NEW labels, NEW children, NEW top, IsTree(labels, children, top),
           NEW p \in Node, NEW i \in DOMAIN children[p]
    PROVE  get_node_parent(children, children[p][i])[1] = p
<1> DEFINE x == children[p][i]
           slots == UNION {{q} \X DOMAIN children[q] : q \in Node}
           slot == get_node_parent(children, x)
<1>1. <<p, i>> \in slots /\ children[<<p, i>>[1]][<<p, i>>[2]] = x
    OBVIOUS
<1>2. slot \in slots /\ children[slot[1]][slot[2]] = x
    BY <1>1 DEF get_node_parent
<1> HIDE DEF slot
<1>3. slot[1] \in Node /\ slot[2] \in DOMAIN children[slot[1]]
    BY <1>2
<1>4. slot[1] = p
    BY <1>2, <1>3 DEF IsTree
<1> QED BY <1>4 DEF slot

(* The way up from n within its block *)
Up(labels, children) ==
    [n \in Node |-> IF IsTop(labels, children, n) THEN {} ELSE {get_node_parent(children, n)[1]}]

(* What Block does at each node *)
BlockStep(labels, children) ==
    [n \in Node |-> [b \in [Node -> Node] |->
        IF IsTop(labels, children, n) THEN n ELSE b[get_node_parent(children, n)[1]]]]

(* A node that is no top has a parent *)
LEMMA HasParent ==
    ASSUME NEW labels, NEW children, NEW top, IsTree(labels, children, top),
           NEW n \in Node, ~IsTop(labels, children, n)
    PROVE  \E p \in Node : \E i \in DOMAIN children[p] :
               children[p][i] = n /\ get_node_parent(children, n)[1] = p
<1>1. PICK p \in Node : n \in Children(children, p)
    BY DEF IsTop
<1>2. PICK i \in DOMAIN children[p] : children[p][i] = n
    BY <1>1 DEF Children
<1> QED BY <1>2, ParentIs

(* Every way up ends: all nodes of the tree are reached from the root *)
LEMMA UpGrounded ==
    ASSUME NEW labels, NEW children \in [Node -> Seq(Node)], NEW top \in Node,
           IsTree(labels, children, top), IsConnected(children, top)
    PROVE  Up(labels, children) \in [Node -> SUBSET Node] /\ Grounded(Node, Up(labels, children))
<1>1. Up(labels, children) \in [Node -> SUBSET Node]
    BY HasParent DEF Up
<1>2. ASSUME NEW S \in SUBSET Node, \A n \in Node : Up(labels, children)[n] \subseteq S => n \in S
      PROVE  S = Node
  <2> DEFINE whole == {n \in Node : InTree(children, top, n)}
             T == S \cap whole
  <2>1. \A n \in Node : IsTop(labels, children, n) => n \in S
    BY <1>2 DEF Up
  <2>2. top \in T
    BY <2>1 DEF IsTop, IsTree, InTree
  <2>3. ASSUME NEW n \in T, NEW i \in DOMAIN children[n]
        PROVE  children[n][i] \in T
    <3>1. children[n][i] \in Node /\ get_node_parent(children, children[n][i])[1] = n
        BY ParentIs
    <3>2. Up(labels, children)[children[n][i]] \subseteq S
        BY <3>1 DEF Up
    <3>3. children[n][i] \in Children(children, n)
        BY DEF Children
    <3> QED BY <3>1, <3>2, <3>3, <1>2 DEF InTree
  <2>4. \A n \in T : Children(children, n) \subseteq T
    BY <2>3 DEF Children
  <2>5. T = whole
    BY <2>2, <2>4 DEF IsConnected
  <2>6. \A n \in Node : n \notin whole => IsTop(labels, children, n)
    BY DEF InTree, IsTop
  <2> QED BY <2>1, <2>5, <2>6
<1> QED BY <1>1, <1>2 DEF Grounded

(* block satisfies the equation in the definition of Block, and is Block *)
IsBlock(labels, children, block) ==
    \A n \in Node :
        /\ Block(labels, children, n) = block[n]
        /\ block[n] = IF IsTop(labels, children, n) THEN n ELSE block[get_node_parent(children, n)[1]]

(* The recursion of Block ends: it is what its body says *)
LEMMA BlockUnfolds ==
    ASSUME NEW labels, NEW children \in [Node -> Seq(Node)], NEW top \in Node,
           IsTree(labels, children, top), IsConnected(children, top)
    PROVE  \E block : IsBlock(labels, children, block)
<1> DEFINE block == CHOOSE f : f = [n \in Node |-> IF IsTop(labels, children, n) THEN n
                                                   ELSE f[get_node_parent(children, n)[1]]]
<1>1. Up(labels, children) \in [Node -> SUBSET Node] /\ Grounded(Node, Up(labels, children))
    BY UpGrounded
<1>2. Local(Node, Up(labels, children), Node, BlockStep(labels, children))
  <2>1. \A n \in Node : ~IsTop(labels, children, n) => get_node_parent(children, n)[1] \in Node
    BY HasParent
  <2> QED BY <2>1 DEF Local, BlockStep, Up
<1>3. PICK walk : Solves(Node, Up(labels, children), Node, BlockStep(labels, children), Node, walk)
    BY <1>1, <1>2, WalkExists
<1>4. \A n \in Node : walk[n] = IF IsTop(labels, children, n) THEN n
                               ELSE walk[get_node_parent(children, n)[1]]
    BY <1>3 DEF BlockStep, Solves
<1>5. walk = [n \in Node |-> IF IsTop(labels, children, n) THEN n
                             ELSE walk[get_node_parent(children, n)[1]]]
    BY <1>3, <1>4 DEF Solves
<1>6. block = [n \in Node |-> IF IsTop(labels, children, n) THEN n
                              ELSE block[get_node_parent(children, n)[1]]]
    BY <1>5
<1>7. \A n \in Node : Block(labels, children, n) = block[n]
    BY DEF Block
<1> HIDE DEF block
<1>8. \A n \in Node : block[n] = IF IsTop(labels, children, n) THEN n
                               ELSE block[get_node_parent(children, n)[1]]
    BY <1>6
<1> QED BY <1>7, <1>8 DEF IsBlock

(* A child that is no projection is in the block of its parent *)
LEMMA BlockBelow ==
    ASSUME TypeOK, TreeShape, Connected, NEW p \in Node, NEW i \in DOMAIN ch[p],
           node[ch[p][i]].node_case # "PROJECTION"
    PROVE  Block(node, ch, ch[p][i]) = Block(node, ch, p)
<1>1. PICK block : IsBlock(node, ch, block)
    BY BlockUnfolds DEF TypeOK, TreeShape, Connected
<1>2. ch[p][i] \in Node
    BY DEF TypeOK
<1>3. get_node_parent(ch, ch[p][i])[1] = p
    BY ParentIs DEF TreeShape
<1>4. ~IsTop(node, ch, ch[p][i])
    BY DEF IsTop, Children
<1> QED BY <1>1, <1>2, <1>3, <1>4 DEF IsBlock

(* A selection that is put in is in the block of the node above, the others stay *)
LEMMA BlockPut ==
    ASSUME TypeOK, TreeShape, Connected, NEW f, NEW p, NEW i, NEW x, PutsIn(f, p, i, x)
    PROVE  Block(node', ch', f) = Block(node, ch, p)
<1>1. PICK b1 : IsBlock(node, ch, b1)
    BY BlockUnfolds DEF TypeOK, TreeShape, Connected
<1>2. /\ ch' \in [Node -> Seq(Node)] /\ root' \in Node
      /\ IsTree(node', ch', root') /\ IsConnected(ch', root')
    BY PutTree, PutSlots DEF TreeShape, Connected, PutsIn, TypeOK
<1>3. PICK b2 : IsBlock(node', ch', b2)
    BY <1>2, BlockUnfolds
<1>4. /\ f # p /\ f # x /\ f \in Node /\ p \in Node /\ x \in Node
      /\ i \in DOMAIN ch[p] /\ ch[p][i] = x
      /\ \A q \in Node : \A j \in DOMAIN ch[q] : ch[q][j] # f
      /\ DOMAIN ch'[f] = {1} /\ ch'[f][1] = x
      /\ \A q \in Node : q # f => DOMAIN ch'[q] = DOMAIN ch[q]
      /\ \A q \in Node : q # f => \A j \in DOMAIN ch[q] :
            ch'[q][j] = IF q = p /\ j = i THEN f ELSE ch[q][j]
  <2>1. f # p /\ f # x /\ ch'[f] = <<x>> /\ f \in Node /\ p \in Node /\ x \in Node
    BY PutSlots DEF PutsIn
  <2>2. i \in DOMAIN ch[p] /\ ch[p][i] = x
    BY DEF PutsIn
  <2> QED BY <2>1, <2>2, PutSlots
<1>5. ch[f] = <<>> /\ \A n \in Node : n # f => node'[n] = node[n]
    BY DEF PutsIn, TypeOK
<1>6. node'[f].node_case = "SELECTION"
    BY <1>4 DEF PutsIn, TypeOK, NewNode
<1>7. f \in Children(ch', p) /\ ~IsTop(node', ch', f)
  <2>1. ch'[p][i] = f /\ i \in DOMAIN ch'[p]
    BY <1>4
  <2> QED BY <2>1, <1>4, <1>6 DEF Children, IsTop
<1>8. get_node_parent(ch', f)[1] = p
    BY <1>2, <1>4, ParentIs
<1> DEFINE S == {n \in Node : b2[n] = b1[IF n = f THEN p ELSE n]}
<1>9. ASSUME NEW n \in Node, Up(node', ch')[n] \subseteq S
      PROVE  n \in S
  <2>1. CASE n = f
    <3>1. Up(node', ch')[f] = {p}
        BY <1>4, <1>7, <1>8 DEF Up
    <3> QED BY <2>1, <3>1, <1>3, <1>4, <1>7, <1>8, <1>9 DEF IsBlock
  <2>2. CASE n # f /\ IsTop(node, ch, n)
    <3>1. IsTop(node', ch', n)
      <4>1. CASE node[n].node_case = "PROJECTION"
        BY <4>1, <2>2, <1>5 DEF IsTop
      <4>2. CASE \A q \in Node : n \notin Children(ch, q)
        <5>1. n # x
          BY <4>2, <1>4 DEF Children
        <5>2. \A q \in Node : \A j \in DOMAIN ch'[q] : ch'[q][j] # n
          BY <4>2, <5>1, <2>2, <1>4 DEF Children
        <5> QED BY <5>2 DEF IsTop, Children
      <4> QED BY <4>1, <4>2, <2>2 DEF IsTop
    <3> QED BY <2>2, <3>1, <1>1, <1>3 DEF IsBlock
  <2>3. CASE n # f /\ ~IsTop(node, ch, n)
    <3>1. PICK q \in Node : \E j \in DOMAIN ch[q] : ch[q][j] = n /\ get_node_parent(ch, n)[1] = q
        BY <2>3, HasParent DEF TreeShape
    <3>2. PICK j \in DOMAIN ch[q] : ch[q][j] = n /\ get_node_parent(ch, n)[1] = q
        BY <3>1
    <3>3. node'[n].node_case # "PROJECTION" /\ b1[n] = b1[q]
        BY <2>3, <3>2, <1>1, <1>5 DEF IsTop, IsBlock
    <3>4. CASE q = p /\ j = i
      <4>1. n = x /\ get_node_parent(ch', n)[1] = f
        BY <3>2, <3>4, <1>2, <1>4, ParentIs
      <4>2. ~IsTop(node', ch', n)
        BY <3>3, <4>1, <1>4 DEF IsTop, Children
      <4>3. f \in S
        BY <4>1, <4>2, <1>9 DEF Up
      <4> QED BY <2>3, <3>3, <3>4, <4>1, <4>2, <4>3, <1>3 DEF IsBlock
    <3>5. CASE ~(q = p /\ j = i)
      <4>1. q # f /\ j \in DOMAIN ch'[q] /\ ch'[q][j] = n
        BY <3>2, <3>5, <1>4, <1>5
      <4>2. get_node_parent(ch', n)[1] = q
        BY <4>1, <1>2, ParentIs
      <4>3. ~IsTop(node', ch', n)
        BY <3>3, <4>1 DEF IsTop, Children
      <4>4. q \in S
        BY <4>2, <4>3, <1>9 DEF Up
      <4> QED BY <2>3, <3>3, <4>1, <4>2, <4>3, <4>4, <1>3 DEF IsBlock
    <3> QED BY <3>4, <3>5
  <2> QED BY <2>1, <2>2, <2>3
<1>10. Grounded(Node, Up(node', ch'))
    BY <1>2, UpGrounded
<1>11. S = Node
    BY <1>9, <1>10 DEF Grounded
<1>12. b2[f] = b1[p]
    BY <1>4, <1>11
<1> QED BY <1>1, <1>3, <1>4, <1>12 DEF IsBlock

(* A projection without an alias shows what the node below it shows *)
LEMMA UnaliasedShows ==
    ASSUME TypeOK, TreeShape, Connected, NEW n \in Node, Linked(n),
           node[n].node_case = "PROJECTION", node[n].alias = NoName
    PROVE  DOMAIN ch[n] = {1} /\ Sees(n) = Sees(ch[n][1])
<1>1. Len(ch[n]) = 1 /\ ch[n] \in Seq(Node)
    BY DEF TypeOK, TreeShape, IsTree, is_full, n_children, Linked
<1>2. DOMAIN ch[n] = {1} /\ ch[n][1] \in Node
    BY <1>1
<1>3. ch \in [Node -> Seq(Node)] /\ Grounded(Node, Down(ch))
    BY StateGrounded
<1>4. PICK v : \A m \in Node : /\ get_relations_aliases(node, ch, m) = v[m]
                              /\ v[m] = Visible(node, ch, v, m)
    BY <1>3, VisibleUnfolds
<1>5. v[n] = UNION {v[ch[n][k]] : k \in DOMAIN ch[n] \cap DOMAIN ch[n]}
    BY <1>4 DEF Visible
<1>6. v[n] = v[ch[n][1]]
    BY <1>2, <1>5
<1> QED BY <1>2, <1>4, <1>6 DEF Sees

(* ... so that no conjunct is put right above it *)
LEMMA LowestNoSubquery ==
    ASSUME IInv, FoundInv, AtLowest
    PROVE  ~(node[it].node_case = "PROJECTION" /\ node[it].alias = NoName)
<1> SUFFICES ASSUME node[it].node_case = "PROJECTION", node[it].alias = NoName
             PROVE  FALSE
    OBVIOUS
<1>1. TypeOK /\ TreeShape /\ Connected /\ pc = "descend" /\ it \in Node /\ Linked(it)
    BY DescendFacts DEF IInv, AtLowest
<1>2. DOMAIN ch[it] = {1} /\ Sees(it) = Sees(ch[it][1])
    BY <1>1, UnaliasedShows
<1>3. DefinedIn(node, ch, term, it, predicate) /\ ~DefinedIn(node, ch, term, ch[it][1], predicate)
    BY <1>1, <1>2 DEF FoundInv, AtLowest, Defines, DefinedAt, DefinedIn
<1> QED BY <1>2, <1>3, SeesDefines

(* Subqueries stay the right children of their joins *)
LEMMA SubqueriesNext ==
    ASSUME IInv, FoundInv, BlockInv, [Next]_vars
    PROVE  MarkersUnique(node') /\ SubqueriesHang(node', ch', root')
<1>1. TypeOK /\ TreeShape /\ Connected /\ MarkersUnique(node) /\ SubqueriesHang(node, ch, root)
    BY DEF IInv, BlockInv
<1>2. MarkersUnique(node')
  <2>1. ASSUME NEW n \in Node, node'[n].node_case = "JOIN"
        PROVE  node[n].node_case = "JOIN" /\ node'[n].marker = node[n].marker
    BY <2>1, LabelsKept DEF SameNames, NewNode
  <2> QED BY <1>1, <2>1 DEF MarkersUnique
<1>3. ASSUME NEW n \in Node, node'[n].node_case = "PROJECTION", node'[n].alias = NoName,
             Linked(n)', n # root'
      PROVE  \E j \in Node : /\ node'[j].node_case = "JOIN" /\ node'[j].alias = NoName
                             /\ node'[j].marker # 0
                             /\ DOMAIN ch'[j] = {1, 2} /\ ch'[j][2] = n
  <2>1. node[n].node_case = "PROJECTION" /\ node[n].alias = NoName
    BY <1>3, LabelsKept DEF SameNames, NewNode
  <2>2. root' = root
    BY DEF Next, CollectSelections, FindLowest, Descend, KeepSelection, Return,
           SecondCall, vars, ReAdd, InsertInJoin, InsertInSelection, InsertNewSelection,
           RemoveSelection, ExtractPredicates
  <2>3. ASSUME Linked(n), \A j \in Node : \A i \in DOMAIN ch[j] :
                             ch[j][i] = n /\ DOMAIN ch[j] = {1, 2} /\ node[j].node_case # "FREE" =>
                                DOMAIN ch'[j] = DOMAIN ch[j] /\ ch'[j][i] = n
        PROVE  \E j \in Node : /\ node'[j].node_case = "JOIN" /\ node'[j].alias = NoName
                               /\ node'[j].marker # 0
                               /\ DOMAIN ch'[j] = {1, 2} /\ ch'[j][2] = n
    <3>1. PICK j \in Node : /\ node[j].node_case = "JOIN" /\ node[j].alias = NoName
                            /\ node[j].marker # 0
                            /\ DOMAIN ch[j] = {1, 2} /\ ch[j][2] = n
        BY <1>1, <1>3, <2>1, <2>2, <2>3 DEF SubqueriesHang, Linked
    <3>2. DOMAIN ch'[j] = {1, 2} /\ ch'[j][2] = n
        BY <2>3, <3>1
    <3>3. SameNames(node'[j], node[j])
        BY <3>1, LabelsKept
    <3> QED BY <3>1, <3>2, <3>3 DEF SameNames
  <2>4. CASE Stays \/ ExtractPredicates \/ Adds
    <3>1. ch' = ch
        BY <2>4 DEF Stays, ExtractPredicates, Adds, ReAdd, InsertInJoin, InsertInSelection
    <3>2. Linked(n)
        BY <3>1, <2>2, <1>3 DEF Linked
    <3> QED BY <2>3, <3>1, <3>2
  <2>5. CASE InsertNewSelection
    <3>1. PICK f, p, i : PutsIn(f, p, i, it)
        BY <2>5, InsertNewStep
    <3>2. AtLowest
        BY <2>5 DEF InsertNewSelection
    <3>3. n # it
        BY <3>2, <2>1, LowestNoSubquery
    <3>4. node'[f].node_case = "SELECTION" /\ node[f].node_case = "FREE" /\ ch[p][i] = it
        BY <3>1, <1>1 DEF PutsIn, TypeOK, NewNode
    <3>5. Linked(n)
        BY <3>1, <3>4, <1>1, <1>3, PutSlots
    <3>6. \A j \in Node : j # f => DOMAIN ch'[j] = DOMAIN ch[j] /\
             \A k \in DOMAIN ch[j] : ch'[j][k] = IF j = p /\ k = i THEN f ELSE ch[j][k]
        BY <3>1, <1>1, PutSlots
    <3> QED BY <2>3, <3>3, <3>4, <3>5, <3>6
  <2>6. CASE RemoveSelection
    <3>1. PICK s, p, i, c : CutsOut(s, p, i, c) /\ node[s].node_case = "SELECTION"
        BY <2>6, RemoveStep
    <3>2. n # s /\ ch[p][i] = s /\ DOMAIN ch[s] = {1}
        BY <3>1, <2>1 DEF CutsOut
    <3>3. Linked(n)
        BY <3>1, <1>1, <1>3, CutSlots
    <3>4. \A j \in Node : j # s => DOMAIN ch'[j] = DOMAIN ch[j] /\
             \A k \in DOMAIN ch[j] : ch'[j][k] = IF j = p /\ k = i THEN c ELSE ch[j][k]
        BY <3>1, <1>1, CutSlots
    <3>5. \A j \in Node : DOMAIN ch[j] = {1, 2} => j # s
        BY <3>2
    <3> QED BY <2>3, <3>2, <3>3, <3>4, <3>5
  <2> QED BY <2>4, <2>5, <2>6, StepKinds
<1>4. SubqueriesHang(node', ch', root')
    BY <1>3 DEF SubqueriesHang, Linked
<1> QED BY <1>2, <1>4

(* What SearchInBlock says of a search that is at node x *)
SearchAt(x) ==
    Resolved(predicate) =>
        /\ ~(node[x].node_case = "PROJECTION" /\ node[x].alias = NoName)
        /\ (\A p \in Derived : ~Defines(ch[p][1])) =>
              Block(node, ch, get_node_parent(ch, x)[1]) = Block(node, ch, selection)

LEMMA SearchForms ==
    /\ SearchInBlock <=> (pc = "descend" => SearchAt(it))
    /\ UNCHANGED <<node, ch, term, root, work, wi, pj>> =>
          (SearchInBlock' <=> (pc' = "descend" => SearchAt(it')))
<1>1. SearchInBlock <=> (pc = "descend" => SearchAt(it))
    BY DEF SearchInBlock, SearchAt, parent
<1>2. ASSUME UNCHANGED <<node, ch, term, root, work, wi, pj>>
      PROVE  SearchInBlock' <=> (pc' = "descend" => SearchAt(it'))
  <2>1. predicate' = predicate /\ selection' = selection /\ Derived' = Derived
    BY <1>2 DEF predicate, selection, Derived, Linked
  <2>2. Resolved(predicate)' <=> Resolved(predicate)
    BY <1>2, <2>1 DEF Resolved
  <2>3. \A n : Defines(n)' <=> Defines(n)
    BY <1>2, <2>1 DEF Defines, DefinedAt
  <2>4. (\A p \in Derived : ~Defines(ch[p][1]))' <=> (\A p \in Derived : ~Defines(ch[p][1]))
    BY <1>2, <2>1, <2>3 DEF Defines, DefinedAt
  <2> QED BY <1>2, <2>1, <2>2, <2>4 DEF SearchInBlock, SearchAt, parent
<1> QED BY <1>1, <1>2

(***************************************************************************)
(* The search does not go from the join of a subquery to the subquery.  If *)
(* the join defines the conjunct and its left side does not, the conjunct  *)
(* needs the marker, which is not visible below the join.                  *)
(***************************************************************************)
LEMMA NotIntoSubquery ==
    ASSUME IInv, FoundInv, MarkerInv, BlockInv, pc = "descend", Resolved(predicate),
           NEW i \in DOMAIN ch[it], Defines(ch[it][i]),
           \A k \in 1 .. i - 1 : ~Defines(ch[it][k])
    PROVE  ~(node[ch[it][i]].node_case = "PROJECTION" /\ node[ch[it][i]].alias = NoName)
<1>1. TypeOK /\ TreeShape /\ Connected /\ NamesOK(node) /\ MarkersUnique(node)
    BY DEF IInv, MarkerInv, BlockInv
<1>2. it \in Node /\ Linked(it) /\ ch[it][i] \in Node
    BY <1>1, DescendFacts DEF TypeOK
<1>3. PICK n \in Node : n = ch[it][i]
    BY <1>2
<1> SUFFICES ASSUME node[n].node_case = "PROJECTION", node[n].alias = NoName
             PROVE  FALSE
    BY <1>3
<1>4. Linked(n) /\ n # root
    BY <1>1, <1>2, <1>3 DEF Linked, InTree, Children, TreeShape, IsTree
<1>5. PICK j \in Node : /\ node[j].node_case = "JOIN" /\ node[j].alias = NoName
                        /\ node[j].marker # 0
                        /\ DOMAIN ch[j] = {1, 2} /\ ch[j][2] = n
    BY <1>4 DEF BlockInv, SubqueriesHang, Linked
<1>6. it = j /\ i = 2
    BY <1>1, <1>2, <1>3, <1>5 DEF TreeShape, IsTree
<1>7. Defines(it) /\ ~Defines(ch[it][1]) /\ Defines(ch[it][2])
    BY <1>6 DEF FoundInv
<1>8. PICK r : /\ Covers(node, ch, it, r) /\ ~Covers(node, ch, ch[it][1], r)
              /\ Covers(node, ch, ch[it][2], r) /\ r # NoName
    BY <1>7, DefinedCovers DEF Defines, DefinedAt, Resolved
<1>9. ch \in [Node -> Seq(Node)] /\ Grounded(Node, Down(ch))
    BY <1>1, StateGrounded
<1>10. r = MarkerName(node[it].marker)
    BY <1>2, <1>5, <1>6, <1>8, <1>9, JoinShows
<1>11. ~Covers(node, ch, ch[it][2], MarkerName(node[it].marker))
  <2>1. \A m \in Node : node[m].name[1] # "marker_" /\ node[m].alias[1] # "marker_"
    BY <1>1 DEF NamesOK
  <2>2. \A m \in {q \in Node : node[q].node_case = "JOIN" /\ node[q].marker # 0} :
            node[m].marker = node[it].marker => m = it
    BY <1>1, <1>2, <1>5, <1>6 DEF MarkersUnique
  <2>3. 2 \in DOMAIN ch[it]
    BY <1>5, <1>6
  <2> QED BY <1>2, <1>9, <2>1, <2>2, <2>3, MarkerNotBelow
<1> QED BY <1>8, <1>10, <1>11

LEMMA SearchNext ==
    ASSUME IInv, FoundInv, MarkerInv, BlockInv, [Next]_vars
    PROVE  SearchInBlock'
<1>1. TypeOK /\ TreeShape /\ Connected
    BY DEF IInv
<1>2. CASE pc' # "descend"
    BY <1>2 DEF SearchInBlock
<1>3. CASE FindLowest
  <2>1. /\ pc = "place" /\ HasConjunct /\ it' = ch[selection][1]
        /\ UNCHANGED <<node, ch, term, root, work, wi, pj>>
    BY <1>3 DEF FindLowest, tree
  <2>2. /\ selection \in Node /\ Linked(selection) /\ node[selection].node_case = "SELECTION"
        /\ DOMAIN ch[selection] = {1} /\ it' \in Node /\ Linked(ch[selection][1])
        /\ ch[selection][1] # root
    BY <2>1, CurrentSelection DEF HasConjunct
  <2>3. get_node_parent(ch, it')[1] = selection
    BY <1>1, <2>1, <2>2, ParentIs DEF TreeShape
  <2>4. ~(node[it'].node_case = "PROJECTION" /\ node[it'].alias = NoName)
    <3> SUFFICES ASSUME node[it'].node_case = "PROJECTION", node[it'].alias = NoName
                 PROVE  FALSE
        OBVIOUS
    <3>1. PICK j \in Node : node[j].node_case = "JOIN" /\ DOMAIN ch[j] = {1, 2} /\ ch[j][2] = it'
        BY <2>1, <2>2 DEF BlockInv, SubqueriesHang, Linked
    <3>2. j = selection
        BY <1>1, <2>1, <2>2, <3>1 DEF TreeShape, IsTree
    <3> QED BY <2>2, <3>1, <3>2
  <2>5. SearchAt(it')
    BY <2>3, <2>4 DEF SearchAt
  <2> QED BY <2>1, <2>5, SearchForms
<1>4. CASE Descend
  <2>1. /\ pc = "descend" /\ UNCHANGED <<node, ch, term, root, work, wi, pj>>
    BY <1>4 DEF Descend, tree
  <2>2. PICK i \in DOMAIN ch[it] : /\ Defines(ch[it][i]) /\ it' = ch[it][i]
                                   /\ \A k \in 1 .. i - 1 : ~Defines(ch[it][k])
    BY <1>4 DEF Descend
  <2>3. it \in Node /\ Linked(it) /\ it # root
    BY <2>1, DescendFacts
  <2>4. SearchAt(it)
    BY <2>1, SearchForms DEF BlockInv
  <2>5. get_node_parent(ch, it')[1] = it
    BY <1>1, <2>2, <2>3, ParentIs DEF TreeShape
  <2>6. Resolved(predicate) => ~(node[it'].node_case = "PROJECTION" /\ node[it'].alias = NoName)
    BY <2>1, <2>2, NotIntoSubquery
  <2>7. ASSUME Resolved(predicate), \A p \in Derived : ~Defines(ch[p][1])
        PROVE  Block(node, ch, it) = Block(node, ch, selection)
    <3>1. PICK q, k : /\ q = get_node_parent(ch, it)[1] /\ q \in Node
                      /\ k \in DOMAIN ch[q] /\ ch[q][k] = it
        BY <1>1, <2>3, ParentSlot
    <3>2. node[it].node_case # "PROJECTION"
      <4> SUFFICES ASSUME node[it].node_case = "PROJECTION"
                   PROVE  FALSE
        OBVIOUS
      <4>1. it \in Derived
        BY <2>3, <2>4, <2>7 DEF Derived, SearchAt
      <4>2. Len(ch[it]) = 1 /\ ch[it] \in Seq(Node)
        BY <1>1, <2>3 DEF TypeOK, TreeShape, IsTree, is_full, n_children, Linked
      <4>3. i = 1
        BY <4>2
      <4> QED BY <2>2, <2>7, <4>1, <4>3
    <3>3. Block(node, ch, it) = Block(node, ch, q)
        BY <1>1, <3>1, <3>2, BlockBelow
    <3> QED BY <2>4, <2>7, <3>1, <3>3 DEF SearchAt
  <2>8. SearchAt(it')
    BY <2>5, <2>6, <2>7 DEF SearchAt
  <2> QED BY <2>1, <2>8, SearchForms
<1>5. CASE UNCHANGED vars
  <2>1. UNCHANGED <<node, ch, term, root, work, wi, pj>> /\ it' = it /\ pc' = pc
    BY <1>5 DEF vars
  <2> QED BY <2>1, SearchForms DEF BlockInv
<1> QED BY <1>2, <1>3, <1>4, <1>5
        DEF Next, CollectSelections, ExtractPredicates, ReAdd, InsertInJoin, InsertInSelection,
            InsertNewSelection, NextConjunct, RemoveSelection, KeepSelection, SelectionDone,
            Return, SecondCall

LEMMA PlacementNext == IInv /\ PInv /\ [Next]_vars => PInv'
<1> SUFFICES ASSUME IInv, LowestInv, FoundInv, MarkerInv, BlockInv, [Next]_vars
             PROVE  LowestInv' /\ FoundInv' /\ MarkerInv' /\ BlockInv'
    BY DEF PInv
<1>1. LowestInv' /\ FoundInv' /\ MarkerInv'
    BY LowestNext, FoundNext, MarkerNext
<1>2. BlockInv'
    BY SubqueriesNext, SearchNext DEF BlockInv
<1> QED BY <1>1, <1>2

LEMMA PlacementInit == Init => PInv
<1> SUFFICES ASSUME Init
             PROVE  PInv
    OBVIOUS
<1>1. PICK t \in Trees : node = t.node /\ ch = t.ch /\ root = t.root
    BY DEF Init
<1>2. SubqueriesOK(t)
    BY SubqueriesAssumption
<1>3. SearchInBlock
    BY DEF Init, SearchInBlock
<1>4. BlockInv
    BY <1>1, <1>2, <1>3 DEF SubqueriesOK, MarkersOK, BlockInv
<1> QED BY <1>4, MarkerInit DEF PInv

(***************************************************************************)
(* The conjuncts on their way: each is searched for, and put, where its    *)
(* relations are defined and nowhere lower, every marker is above its      *)
(* join, and the search stays in the block it started in.                  *)
(***************************************************************************)
THEOREM PlacementInvariance == Spec => []PInv
<1>1. Init => PInv
    BY PlacementInit
<1>2. IInv /\ PInv /\ [Next]_vars => PInv'
    BY PlacementNext
<1> QED BY <1>1, <1>2, Invariance, PTL DEF Spec

(***************************************************************************)
(* For every heap size, all trees as the parser makes them and both values *)
(* of convert_cp_to_join: a conjunct of known relations is dropped only    *)
(* when it goes back to its own selection, next to a lone marker.          *)
(***************************************************************************)
THEOREM LostToOwnMarker == Spec => []LostOnlyToMarker
<1>1. PInv => LostOnlyToMarker
    BY DEF PInv, MarkerInv
<1> QED BY <1>1, PlacementInvariance, PTL

(* The conjunct is put into the block of its selection *)
LEMMA PutInBlock ==
    ASSUME IInv, PInv, [Next]_vars, pc = "descend", Resolved(predicate),
           \A p \in Derived : ~Defines(ch[p][1]), NEW n \in Node, pred'[n] # pred[n]
    PROVE  Block(node', ch', n) = Block(node, ch, selection)
<1>1. /\ TypeOK /\ TreeShape /\ Connected
      /\ LowestInv /\ FoundInv /\ MarkerInv /\ BlockInv
      /\ it \in Node /\ Linked(it) /\ it # root
    BY DescendFacts DEF IInv, PInv
<1>2. PICK q, k : /\ q = parent[1] /\ q \in Node /\ k \in DOMAIN ch[q] /\ ch[q][k] = it
    BY <1>1, ParentSlot DEF parent
<1>3. Block(node, ch, q) = Block(node, ch, selection)
    BY <1>1, <1>2 DEF BlockInv, SearchInBlock
<1>4. CASE InsertInSelection
  <2>1. UNCHANGED <<node, ch>> /\ pred' = [pred EXCEPT ![q] = add_predicate(term, @, predicate)]
    BY <1>2, <1>4 DEF InsertInSelection
  <2>2. n = q
    BY <2>1, <1>1 DEF TypeOK
  <2> QED BY <2>1, <2>2, <1>3
<1>5. CASE InsertInJoin
  <2>1. /\ ch' = ch /\ pred' = [pred EXCEPT ![it] = add_predicate(term, @, predicate)]
        /\ node[it].node_case = "JOIN"
    BY <1>5 DEF InsertInJoin, IntoJoin
  <2>2. n = it
    BY <2>1, <1>1 DEF TypeOK
  <2>3. Block(node, ch, it) = Block(node, ch, q)
    BY <1>1, <1>2, <2>1, BlockBelow
  <2>4. Block(node', ch', it) = Block(node, ch, it)
    <3>1. \A m \in Node : node'[m].node_case = node[m].node_case
        BY <1>5, AddStep DEF Target, AddsTo
    <3>2. \A m \in Node : IsTop(node', ch', m) <=> IsTop(node, ch, m)
        BY <2>1, <3>1 DEF IsTop
    <3> QED BY <2>1, <3>2 DEF Block
  <2> QED BY <2>2, <2>3, <2>4, <1>3
<1>6. CASE InsertNewSelection
  <2>1. PICK f, p, i : /\ PutsIn(f, p, i, it) /\ p = parent[1]
                       /\ \A m \in Node : m # f => pred'[m] = pred[m]
    BY <1>6, InsertNewStep
  <2>2. n = f /\ p = q
    BY <2>1, <1>2
  <2>3. Block(node', ch', f) = Block(node, ch, p)
    BY <2>1, <1>1, BlockPut
  <2> QED BY <2>2, <2>3, <1>3
<1>7. InsertInSelection \/ InsertInJoin \/ InsertNewSelection
  <2>1. CASE Stays \/ RemoveSelection
    BY <2>1 DEF Stays, RemoveSelection
  <2>2. ~ExtractPredicates /\ ~ReAdd
    BY DEF ExtractPredicates, ReAdd
  <2> QED BY <2>1, <2>2, StepKinds DEF Adds
<1> QED BY <1>4, <1>5, <1>6, <1>7

(***************************************************************************)
(* For every heap size, all trees as the parser makes them and both values *)
(* of convert_cp_to_join: a conjunct of known relations is never moved     *)
(* into another query block, unless the inside of a derived table defines  *)
(* all the names it needs.                                                 *)
(***************************************************************************)
THEOREM KeepsBlock == Spec => BlockKept
<1>1. IInv /\ PInv /\ [Next]_vars =>
        [pc = "descend" /\ Resolved(predicate) /\ (\A p \in Derived : ~Defines(ch[p][1])) =>
            \A n \in Node : pred'[n] # pred[n] =>
                Block(node', ch', n) = Block(node, ch, selection)]_vars
    BY PutInBlock
<1> QED BY <1>1, Invariance, PlacementInvariance, PTL DEF Spec, BlockKept

=============================================================================
