---------------------------- MODULE LowestProofs ----------------------------
(***************************************************************************)
(* Every conjunct ends at the lowest node that defines its relations.      *)
(* Each is put there when its turn comes; what has to be shown is that it  *)
(* still is the lowest node after the selections of the later conjuncts    *)
(* have been put in and empty ones cut out.  A selection hides no name     *)
(* (SelectionTransparent), so neither changes what a walk sees.            *)
(***************************************************************************)
EXTENDS PushDownProofs, WalkProofs

(* The recursive walks over the tree of the pass end *)
LEMMA StateGrounded ==
    ASSUME TypeOK, TreeShape, Connected
    PROVE  ch \in [Node -> Seq(Node)] /\ Grounded(Node, Down(ch))
BY TreeGrounded DEF TypeOK, TreeShape, Connected

LEMMA StateGroundedNext ==
    ASSUME TypeOK', TreeShape', Connected'
    PROVE  ch' \in [Node -> Seq(Node)] /\ Grounded(Node, Down(ch'))
BY TreeGrounded DEF TypeOK, TreeShape, Connected

(* What is visible above n *)
Sees(n) == get_relations_aliases(node, ch, n)

(* DefinedAt and IsLowest in a given tree *)
DefinedIn(nodes, children, terms, n, c) ==
    has_relations_defined(nodes, children, n, get_predicate_relations(terms, c))

LowestIn(nodes, children, terms, x, c) ==
    DefinedIn(nodes, children, terms, x, c) =>
        \A i \in DOMAIN children[x] : ~DefinedIn(nodes, children, terms, children[x][i], c)

(* Nodes that see the same define the same conjuncts *)
LEMMA SeesDefines ==
    /\ \A n, m, c : Sees(n) = Sees(m) =>
          (DefinedIn(node, ch, term, n, c) <=> DefinedIn(node, ch, term, m, c))
    /\ term' = term => \A n, m, c : Sees(n)' = Sees(m) =>
          (DefinedIn(node', ch', term', n, c) <=> DefinedIn(node, ch, term, m, c))
BY DEF Sees, DefinedIn, has_relations_defined

(* Cutting selection s out leaves what the other nodes see *)
LEMMA CutSees ==
    ASSUME TypeOK, TreeShape, Connected, NEW s, NEW p, NEW i, NEW c, CutsOut(s, p, i, c),
           node[s].node_case = "SELECTION"
    PROVE  /\ Sees(s) = Sees(c)
           /\ \A n \in Node : n # s => Sees(n)' = Sees(n)
<1>1. ch' \in [Node -> Seq(Node)] /\ Grounded(Node, Down(ch'))
  <2>1. TreeShape' /\ Connected' /\ root \in Node /\ root' = root
    BY CutTree DEF CutsOut, TypeOK
  <2> QED BY <2>1, CutSlots, TreeGrounded DEF TreeShape, Connected
<1>2. ch \in [Node -> Seq(Node)] /\ Grounded(Node, Down(ch))
    BY StateGrounded
<1>3. Interposed(node', ch', node, ch, s, c)
  <2>0. p # s /\ c # s
    BY CutSlots
  <2>1. /\ s \in Node /\ c \in Node /\ node' = node
        /\ DOMAIN ch[s] = {1} /\ ch[s][1] = c
    BY DEF CutsOut
  <2>2. ASSUME NEW n \in Node, n # s
        PROVE  /\ DOMAIN ch'[n] = DOMAIN ch[n]
               /\ \A j \in DOMAIN ch[n] : ch'[n][j] = IF ch[n][j] = s THEN c ELSE ch[n][j]
    <3>1. \A j \in DOMAIN ch[n] : ch[n][j] = s <=> n = p /\ j = i
        BY DEF CutsOut, TreeShape, IsTree
    <3> QED BY <2>2, <3>1, CutSlots
  <2> QED BY <2>0, <2>1, <2>2 DEF Interposed, SameNames
<1>4. /\ get_relations_aliases(node, ch, s) = get_relations_aliases(node, ch, c)
      /\ \A n \in Node : n # s =>
            get_relations_aliases(node, ch, n) = get_relations_aliases(node', ch', n)
    BY <1>1, <1>2, <1>3, SelectionTransparent
<1> QED BY <1>4 DEF Sees

(* So does putting selection f in above x *)
LEMMA PutSees ==
    ASSUME TypeOK, TreeShape, Connected, NEW f, NEW p, NEW i, NEW x, PutsIn(f, p, i, x)
    PROVE  /\ Sees(f)' = Sees(x)
           /\ \A n \in Node : n # f => Sees(n)' = Sees(n)
<1>1. ch' \in [Node -> Seq(Node)] /\ Grounded(Node, Down(ch'))
  <2>1. TreeShape' /\ Connected' /\ root \in Node /\ root' = root
    BY PutTree DEF PutsIn, TypeOK
  <2> QED BY <2>1, PutSlots, TreeGrounded DEF TreeShape, Connected
<1>2. ch \in [Node -> Seq(Node)] /\ Grounded(Node, Down(ch))
    BY StateGrounded
<1>3. f \in Node /\ x \in Node /\ x # f
    BY PutSlots DEF PutsIn
<1>4. Interposed(node, ch, node', ch', f, x)
  <2>1. DOMAIN ch'[f] = {1} /\ ch'[f][1] = x
    BY PutSlots
  <2>2. node'[f].node_case = "SELECTION" /\ \A n \in Node : n # f => node'[n] = node[n]
    BY DEF PutsIn, TypeOK, NewNode
  <2>3. ASSUME NEW n \in Node, n # f
        PROVE  /\ DOMAIN ch[n] = DOMAIN ch'[n]
               /\ \A j \in DOMAIN ch'[n] : ch[n][j] = IF ch'[n][j] = f THEN x ELSE ch'[n][j]
    <3>1. /\ DOMAIN ch'[n] = DOMAIN ch[n]
          /\ \A j \in DOMAIN ch[n] : /\ ch'[n][j] = IF n = p /\ j = i THEN f ELSE ch[n][j]
                                     /\ ch[n][j] # f
        BY <2>3, PutSlots
    <3> QED BY <3>1 DEF PutsIn
  <2> QED BY <1>3, <2>1, <2>2, <2>3 DEF Interposed, SameNames
<1>5. /\ get_relations_aliases(node', ch', f) = get_relations_aliases(node', ch', x)
      /\ \A n \in Node : n # f =>
            get_relations_aliases(node', ch', n) = get_relations_aliases(node, ch, n)
    BY <1>1, <1>2, <1>4, SelectionTransparent
<1> QED BY <1>3, <1>5 DEF Sees

(* A selection of the tree has one child *)
LEMMA SelectionChild ==
    ASSUME TypeOK, TreeShape, NEW n \in Node, Linked(n), node[n].node_case = "SELECTION"
    PROVE  DOMAIN ch[n] = {1} /\ ch[n][1] \in Node /\ Linked(ch[n][1])
<1>1. Len(ch[n]) = 1 /\ ch[n] \in Seq(Node)
    BY DEF TypeOK, TreeShape, IsTree, is_full, n_children, Linked
<1>2. DOMAIN ch[n] = {1} /\ ch[n][1] \in Node
    BY <1>1
<1>3. ch[n][1] \in Children(ch, n)
    BY <1>2 DEF Children
<1> QED BY <1>2, <1>3 DEF Linked, InTree

-----------------------------------------------------------------------------
(* What the steps that write a predicate or the tree do *)

(* Every selection of the tree has lost its predicate to work *)
LEMMA ExtractStep ==
    ASSUME IInv, ExtractPredicates
    PROVE  /\ \A n \in Node : Linked(n) /\ node[n].node_case = "SELECTION" =>
                 /\ pred'[n] = <<>>
                 /\ \E i \in DOMAIN work' : work'[i].sel = n
           /\ \A n \in Node : pred'[n] = <<>> \/ pred'[n] = pred[n]
           /\ \A i \in DOMAIN work' : /\ work'[i].sel \in Node
                                      /\ Linked(work'[i].sel)
                                      /\ node[work'[i].sel].node_case = "SELECTION"
                                      /\ work'[i].preds = Split(term, pred, work'[i].sel)
           /\ pc' = "place" /\ wi' = 1 /\ pj' = 1
           /\ UNCHANGED <<node, ch, term, root>>
<1>1. TypeOK /\ Connected /\ CollectInv
    BY DEF IInv
<1>2. /\ pc = "collect" /\ todo = <<>> /\ pc' = "place" /\ wi' = 1 /\ pj' = 1
      /\ UNCHANGED <<node, ch, term, root>>
    BY DEF ExtractPredicates
<1>3. PICK seen \in SUBSET Node : Visited(seen)
    BY <1>1, <1>2 DEF CollectInv
<1>4. \A n \in Node : Linked(n) => n \in seen
    BY <1>1, <1>2, <1>3, AllVisited
<1>5. /\ \A n \in Node : Linked(n) /\ node[n].node_case = "SELECTION" =>
            \E i \in DOMAIN selections : selections[i] = n
      /\ \A i \in DOMAIN selections : /\ selections[i] \in Node /\ Linked(selections[i])
                                      /\ node[selections[i]].node_case = "SELECTION"
    BY <1>3, <1>4 DEF Visited
<1>6. /\ DOMAIN work' = DOMAIN selections
      /\ \A i \in DOMAIN selections : /\ work'[i].sel = selections[i]
                                      /\ work'[i].preds = Split(term, pred, selections[i])
    BY DEF ExtractPredicates, Split
<1>7. \A n \in Node : pred'[n] = IF \E i \in DOMAIN selections : selections[i] = n
                                THEN <<>> ELSE pred[n]
    BY DEF ExtractPredicates
<1> QED BY <1>2, <1>5, <1>6, <1>7

(* The empty selection is cut out, predicates stay *)
LEMMA RemoveStep ==
    ASSUME IInv, RemoveSelection
    PROVE  \E s, p, i, c :
               /\ CutsOut(s, p, i, c)
               /\ s = selection /\ s = work[wi].sel /\ wi \in DOMAIN work
               /\ node[s].node_case = "SELECTION" /\ pred[s] = <<>>
               /\ pc = "place" /\ SelectionDone /\ NextSelection
               /\ UNCHANGED <<node, pred, term, root, fresh, pc, call, work, it>>
<1>1. TypeOK /\ TreeShape
    BY DEF IInv
<1>2. /\ SelectionDone /\ NextSelection /\ pc = "place" /\ wi \in DOMAIN work
      /\ UNCHANGED <<node, pred, term, root, fresh, pc, call, work, it>>
    BY DEF RemoveSelection, SelectionDone
<1>3. PICK s : s = selection
    OBVIOUS
<1>4. /\ s \in Node /\ Linked(s) /\ s # root /\ DOMAIN ch[s] = {1} /\ ch[s][1] \in Node
      /\ s = work[wi].sel /\ pred[s] = <<>> /\ node[s].node_case = "SELECTION"
    BY <1>2, <1>3, CurrentSelection DEF selection, RemoveSelection
<1>5. PICK p, i : /\ p = get_node_parent(ch, s)[1] /\ i = get_node_parent(ch, s)[2]
                  /\ p \in Node /\ i \in DOMAIN ch[p] /\ ch[p][i] = s
    BY <1>1, <1>4, ParentSlot
<1>6. PICK c : c = ch[s][1]
    OBVIOUS
<1>7. ch' = [ch EXCEPT ![p][i] = c, ![s] = <<>>]
    BY <1>3, <1>5, <1>6 DEF RemoveSelection
<1>8. CutsOut(s, p, i, c)
    BY <1>2, <1>4, <1>5, <1>6, <1>7 DEF CutsOut
<1> QED BY <1>2, <1>3, <1>4, <1>8

(* A selection that holds the conjunct is put in above the lowest node *)
LEMMA InsertNewStep ==
    ASSUME IInv, InsertNewSelection
    PROVE  \E f, p, i :
               /\ PutsIn(f, p, i, it)
               /\ p = parent[1] /\ node[p].node_case # "SELECTION"
               /\ f = fresh /\ pred[f] = <<>> /\ pred'[f] = <<predicate>>
               /\ \A n \in Node : n # f => pred'[n] = pred[n]
               /\ pc = "descend" /\ pc' = "place" /\ pj' = pj + 1
               /\ UNCHANGED <<term, root, call, work, wi, it>>
<1>1. TypeOK /\ TreeShape /\ HeapInv
    BY DEF IInv
<1>2. /\ pc = "descend" /\ fresh \in Node /\ pc' = "place" /\ pj' = pj + 1
      /\ node' = [node EXCEPT ![fresh] = NewNode("SELECTION")]
      /\ UNCHANGED <<term, root, call, work, wi, it>>
    BY DEF InsertNewSelection, AtLowest, NextConjunct
<1>3. it \in Node /\ Linked(it) /\ it # root
    BY <1>2, DescendFacts
<1>4. PICK f \in Node : f = fresh
    BY <1>2
<1>5. PICK p, i : /\ p = parent[1] /\ i = parent[2]
                  /\ p \in Node /\ i \in DOMAIN ch[p] /\ ch[p][i] = it
    BY <1>1, <1>3, ParentSlot DEF parent
<1>6. node[f] = Free /\ ch[f] = <<>> /\ pred[f] = <<>>
    BY <1>1, <1>4 DEF HeapInv, Unused, Node
<1>7. ch' = [ch EXCEPT ![f] = <<it>>, ![p][i] = f]
    BY <1>4, <1>5 DEF InsertNewSelection
<1>8. PutsIn(f, p, i, it)
    BY <1>2, <1>3, <1>4, <1>5, <1>6, <1>7 DEF PutsIn, Free, NewNode
<1>9. pred'[f] = <<predicate>> /\ \A n \in Node : n # f => pred'[n] = pred[n]
    BY <1>1, <1>4 DEF InsertNewSelection, TypeOK
<1>10. node[p].node_case # "SELECTION"
    BY <1>5 DEF InsertNewSelection
<1> QED BY <1>2, <1>4, <1>5, <1>6, <1>8, <1>9, <1>10

(* x is where the step adds the conjunct *)
Target(x) ==
    /\ AddsTo(x) /\ HasConjunct /\ pc \in {"place", "descend"}
    /\ \A n \in Node : SameNames(node'[n], node[n])
    /\ \/ ReAdd /\ x = selection
       \/ InsertInJoin /\ x = it /\ node[x].node_case = "JOIN"
       \/ InsertInSelection /\ x = parent[1] /\ node[x].node_case = "SELECTION" /\ ch[x][1] = it

(* The conjunct is added to the predicate of a node that is there already *)
LEMMA AddStep ==
    ASSUME IInv, ReAdd \/ InsertInJoin \/ InsertInSelection
    PROVE  \E x : Target(x)
<1>1. CASE ReAdd
  <2>1. HasConjunct /\ pc = "place" /\ wi \in DOMAIN work
    BY <1>1 DEF ReAdd, HasConjunct
  <2>2. selection \in Node /\ Linked(selection)
    BY <2>1, CurrentSelection
  <2>3. AddsTo(selection)
    BY <1>1, <2>2 DEF AddsTo, ReAdd, NextConjunct, IInv, TypeOK
  <2>4. \A n \in Node : SameNames(node'[n], node[n])
    BY <1>1 DEF ReAdd, SameNames
  <2> QED BY <1>1, <2>1, <2>3, <2>4 DEF Target
<1>2. CASE InsertInJoin
  <2>1. pc = "descend"
    BY <1>2 DEF InsertInJoin, AtLowest
  <2>2. HasConjunct /\ it \in Node /\ Linked(it) /\ TypeOK
    BY <2>1, DescendFacts
  <2>3. /\ node' = [node EXCEPT ![it].type = IF @ = "CROSS_PRODUCT" THEN "INNER" ELSE @]
        /\ node \in [Node -> Label] /\ node[it].node_case = "JOIN"
    BY <1>2, <2>2 DEF InsertInJoin, IntoJoin, TypeOK
  <2>4. /\ node' \in [Node -> Label]
        /\ \A n \in Node : SameNames(node'[n], node[n])
        /\ \A n \in Node : n # it => node'[n] = node[n]
    BY <2>2, <2>3 DEF Label, JoinType, SameNames
  <2>5. AddsTo(it)
    BY <1>2, <2>2, <2>4 DEF AddsTo, InsertInJoin, NextConjunct, SameNames
  <2> QED BY <1>2, <2>1, <2>2, <2>3, <2>4, <2>5 DEF Target
<1>3. CASE InsertInSelection
  <2>1. pc = "descend"
    BY <1>3 DEF InsertInSelection, AtLowest
  <2>2. HasConjunct /\ it \in Node /\ Linked(it) /\ it # root /\ TypeOK /\ TreeShape
    BY <2>1, DescendFacts
  <2>3. /\ parent[1] \in Node /\ Linked(parent[1])
        /\ parent[2] \in DOMAIN ch[parent[1]] /\ ch[parent[1]][parent[2]] = it
    BY <2>2, ParentSlot DEF parent
  <2>4. AddsTo(parent[1])
    BY <1>3, <2>2, <2>3 DEF AddsTo, InsertInSelection, NextConjunct, TypeOK
  <2>5. node[parent[1]].node_case = "SELECTION" /\ \A n \in Node : SameNames(node'[n], node[n])
    BY <1>3 DEF InsertInSelection, SameNames
  <2>6. ch[parent[1]][1] = it
    <3>1. PICK p, i : p = parent[1] /\ i = parent[2]
        OBVIOUS
    <3>2. Len(ch[p]) = 1 /\ ch[p] \in Seq(Node) /\ i \in DOMAIN ch[p] /\ ch[p][i] = it
        BY <2>2, <2>3, <2>5, <3>1 DEF TypeOK, TreeShape, IsTree, is_full, n_children, Linked
    <3>3. i = 1
        BY <3>2
    <3> QED BY <3>1, <3>2, <3>3
  <2> QED BY <1>3, <2>1, <2>2, <2>4, <2>5, <2>6 DEF Target
<1> QED BY <1>1, <1>2, <1>3

(* It hides no name either *)
LEMMA AddSees ==
    ASSUME TypeOK, TreeShape, Connected, ch' = ch, \A n \in Node : SameNames(node'[n], node[n])
    PROVE  \A n \in Node : Sees(n)' = Sees(n)
<1>1. ch \in [Node -> Seq(Node)] /\ Grounded(Node, Down(ch))
    BY StateGrounded
<1>2. \A n \in Node : get_relations_aliases(node', ch, n) = get_relations_aliases(node, ch, n)
    BY <1>1, VisibleByNames
<1> QED BY <1>2 DEF Sees

-----------------------------------------------------------------------------
(* The lowest node *)

LEMMA LowestForms ==
    /\ LowestInv <=>
          (Placing => \A n \in Node : Linked(n) /\ node[n].node_case = "SELECTION" =>
               \A k \in DOMAIN pred[n] : LowestIn(node, ch, term, ch[n][1], pred[n][k]))
    /\ LowestInv' <=>
          (Placing' => \A n \in Node : Linked(n)' /\ node'[n].node_case = "SELECTION" =>
               \A k \in DOMAIN pred'[n] : LowestIn(node', ch', term', ch'[n][1], pred'[n][k]))
BY DEF LowestInv, IsLowest, DefinedAt, LowestIn, DefinedIn

LEMMA LowestAdd ==
    ASSUME IInv, LowestInv, ReAdd \/ InsertInJoin \/ InsertInSelection
    PROVE  LowestInv'
<1>1. PICK x : Target(x)
    BY AddStep
<1>2. TypeOK /\ TreeShape /\ Connected
    BY DEF IInv
<1>3. /\ x \in Node /\ UNCHANGED <<ch, term, root>> /\ Placing
      /\ \A n \in Node : node'[n].node_case = node[n].node_case
      /\ pred' = [pred EXCEPT ![x] = add_predicate(term, @, predicate)]
    BY <1>1 DEF Target, AddsTo, Placing
<1>4. \A n \in Node : ch[n] \in Seq(Node) /\ \A i \in DOMAIN ch[n] : ch[n][i] \in Node
    BY <1>2 DEF TypeOK
<1>5. \A n \in Node : \A c : DefinedIn(node', ch', term', n, c) <=> DefinedIn(node, ch, term, n, c)
  <2>1. \A n \in Node : Sees(n)' = Sees(n)
    BY <1>1, <1>2, <1>3, AddSees DEF Target
  <2> QED BY <2>1, <1>3, SeesDefines
<1>6. \A n \in Node : \A c : LowestIn(node, ch, term, n, c) => LowestIn(node', ch', term', n, c)
    BY <1>3, <1>4, <1>5 DEF LowestIn
<1>7. node[x].node_case = "SELECTION" => LowestIn(node, ch, term, ch[x][1], predicate)
    BY <1>1 DEF Target, ReAdd, InsertInSelection, AtLowest, LowestIn, DefinedIn, Defines, DefinedAt
<1>8. ASSUME NEW n \in Node, Linked(n), node[n].node_case = "SELECTION", NEW k \in DOMAIN pred'[n]
      PROVE  LowestIn(node, ch, term, ch[n][1], pred'[n][k])
  <2>1. CASE n # x
    BY <2>1, <1>2, <1>3, <1>8, LowestForms DEF TypeOK
  <2>2. CASE n = x
    <3>1. predicate \in DOMAIN term
        BY <1>1, CurrentConjunct DEF Target
    <3>2. Added(term, pred[x], predicate, pred'[x])
        BY <1>2, <1>3, <3>1, AddFacts DEF TypeOK
    <3>3. \/ k \in DOMAIN pred[x] /\ pred'[x][k] = pred[x][k]
          \/ pred'[x][k] = predicate
        BY <2>2, <1>8, <3>2 DEF Added
    <3> QED BY <2>2, <3>3, <1>3, <1>7, <1>8, LowestForms
  <2> QED BY <2>1, <2>2
<1>9. ASSUME NEW n \in Node, Linked(n), node[n].node_case = "SELECTION"
      PROVE  ch[n][1] \in Node
    BY <1>2, <1>9, SelectionChild
<1>10. \A n \in Node : Linked(n)' <=> Linked(n)
    BY <1>3 DEF Linked
<1> QED BY <1>3, <1>6, <1>8, <1>9, <1>10, LowestForms

(***************************************************************************)
(* The node above the one that is cut out has the grandchild as its child: *)
(* it sees the same, so that a conjunct the removed selection could not    *)
(* pass on cannot be passed on now.                                        *)
(***************************************************************************)
LEMMA LowestRemove ==
    ASSUME IInv, LowestInv, RemoveSelection
    PROVE  LowestInv'
<1>1. PICK s, p, i, c :
         /\ CutsOut(s, p, i, c) /\ node[s].node_case = "SELECTION" /\ pc = "place"
         /\ UNCHANGED <<node, pred, term, root, pc>>
    BY RemoveStep
<1>2. TypeOK /\ TreeShape /\ Connected
    BY DEF IInv
<1>3. /\ Sees(s) = Sees(c)
      /\ \A n \in Node : n # s => Sees(n)' = Sees(n)
    BY <1>1, <1>2, CutSees
<1>4. /\ p # s /\ c # s
      /\ \A q \in Node : q # s => DOMAIN ch'[q] = DOMAIN ch[q]
      /\ \A q \in Node : q # s => \A j \in DOMAIN ch[q] :
            ch'[q][j] = IF q = p /\ j = i THEN c ELSE ch[q][j]
      /\ \A n \in Node : Linked(n)' <=> Linked(n) /\ n # s
    BY <1>1, <1>2, CutSlots
<1>5. /\ s \in Node /\ p \in Node /\ c \in Node /\ i \in DOMAIN ch[p] /\ ch[p][i] = s
      /\ DOMAIN ch[s] = {1} /\ ch[s][1] = c
    BY <1>1 DEF CutsOut
<1>6. \A n \in Node : \A j \in DOMAIN ch[n] : ch[n][j] \in Node /\ (ch[n][j] = s => n = p /\ j = i)
    BY <1>2, <1>5 DEF TypeOK, TreeShape, IsTree
<1>7. \A n \in Node : \A b : n # s => (DefinedIn(node', ch', term', n, b) <=> DefinedIn(node, ch, term, n, b))
    BY <1>1, <1>3, SeesDefines
<1>8. \A b : DefinedIn(node, ch, term, s, b) <=> DefinedIn(node, ch, term, c, b)
    BY <1>3, SeesDefines
<1>9. ASSUME NEW x \in Node, x # s, NEW b, LowestIn(node, ch, term, x, b)
      PROVE  LowestIn(node', ch', term', x, b)
  <2> SUFFICES ASSUME DefinedIn(node', ch', term', x, b), NEW j \in DOMAIN ch'[x]
               PROVE  ~DefinedIn(node', ch', term', ch'[x][j], b)
    BY DEF LowestIn
  <2>1. DefinedIn(node, ch, term, x, b) /\ j \in DOMAIN ch[x]
    BY <1>4, <1>7, <1>9
  <2>2. ~DefinedIn(node, ch, term, ch[x][j], b)
    BY <2>1, <1>9 DEF LowestIn
  <2>3. CASE ch[x][j] = s
    <3>1. ch'[x][j] = c
        BY <2>1, <2>3, <1>4, <1>6, <1>9
    <3> QED BY <3>1, <2>2, <2>3, <1>4, <1>5, <1>7, <1>8
  <2>4. CASE ch[x][j] # s
    <3>1. ch'[x][j] = ch[x][j] /\ ch[x][j] \in Node
        BY <2>1, <2>4, <1>4, <1>5, <1>6, <1>9
    <3> QED BY <3>1, <2>2, <2>4, <1>7
  <2> QED BY <2>3, <2>4
<1>10. ASSUME NEW n \in Node, Linked(n), n # s, node[n].node_case = "SELECTION",
              NEW k \in DOMAIN pred[n]
       PROVE  LowestIn(node', ch', term', ch'[n][1], pred[n][k])
  <2>1. 1 \in DOMAIN ch[n] /\ ch[n][1] \in Node
    BY <1>2, <1>10, SelectionChild
  <2>2. LowestIn(node, ch, term, ch[n][1], pred[n][k])
    BY <1>1, <1>10, LowestForms DEF Placing
  <2>3. CASE ch[n][1] # s
    <3>1. ch'[n][1] = ch[n][1]
        BY <2>1, <2>3, <1>4, <1>5, <1>10
    <3>2. LowestIn(node', ch', term', ch[n][1], pred[n][k])
        BY <1>1, <1>9, <2>1, <2>2, <2>3
    <3> QED BY <3>1, <3>2, <1>1
  <2>4. CASE ch[n][1] = s
    <3>1. ch'[n][1] = c
        BY <2>1, <2>4, <1>4, <1>6, <1>10
    <3>2. ~DefinedIn(node, ch, term, c, pred[n][k])
        BY <2>2, <2>4, <1>5, <1>8 DEF LowestIn
    <3>3. ~DefinedIn(node', ch', term', c, pred[n][k])
        BY <3>2, <1>1, <1>4, <1>5, <1>7
    <3> QED BY <3>1, <3>3, <1>1 DEF LowestIn
  <2> QED BY <2>3, <2>4
<1> QED BY <1>1, <1>4, <1>10, LowestForms DEF Placing

LEMMA LowestInsert ==
    ASSUME IInv, LowestInv, InsertNewSelection
    PROVE  LowestInv'
<1>1. PICK f, p, i :
         /\ PutsIn(f, p, i, it) /\ node[p].node_case # "SELECTION"
         /\ pred'[f] = <<predicate>> /\ \A n \in Node : n # f => pred'[n] = pred[n]
         /\ pc = "descend" /\ UNCHANGED <<term, root, it>>
    BY InsertNewStep
<1>2. TypeOK /\ TreeShape /\ Connected
    BY DEF IInv
<1>3. /\ Sees(f)' = Sees(it)
      /\ \A n \in Node : n # f => Sees(n)' = Sees(n)
    BY <1>1, <1>2, PutSees
<1>4. /\ f # p /\ f # it
      /\ \A q \in Node : \A j \in DOMAIN ch[q] : ch[q][j] # f
      /\ ch'[f] = <<it>>
      /\ \A q \in Node : q # f => DOMAIN ch'[q] = DOMAIN ch[q]
      /\ \A q \in Node : q # f => \A j \in DOMAIN ch[q] :
            ch'[q][j] = IF q = p /\ j = i THEN f ELSE ch[q][j]
      /\ \A n \in Node : Linked(n)' <=> Linked(n) \/ n = f
    BY <1>1, <1>2, PutSlots
<1>5. /\ f \in Node /\ it \in Node /\ p \in Node /\ i \in DOMAIN ch[p] /\ ch[p][i] = it
      /\ \A n \in Node : n # f => node'[n] = node[n]
    BY <1>1, <1>2 DEF PutsIn, TypeOK
<1>6. \A n \in Node : \A b : n # f => (DefinedIn(node', ch', term', n, b) <=> DefinedIn(node, ch, term, n, b))
    BY <1>1, <1>3, SeesDefines
<1>7. \A b : DefinedIn(node', ch', term', f, b) <=> DefinedIn(node, ch, term, it, b)
    BY <1>1, <1>3, SeesDefines
<1>8. ASSUME NEW x \in Node, x # f, NEW b, LowestIn(node, ch, term, x, b)
      PROVE  LowestIn(node', ch', term', x, b)
  <2> SUFFICES ASSUME DefinedIn(node', ch', term', x, b), NEW j \in DOMAIN ch'[x]
               PROVE  ~DefinedIn(node', ch', term', ch'[x][j], b)
    BY DEF LowestIn
  <2>1. DefinedIn(node, ch, term, x, b) /\ j \in DOMAIN ch[x]
    BY <1>4, <1>6, <1>8
  <2>2. ~DefinedIn(node, ch, term, ch[x][j], b) /\ ch[x][j] \in Node /\ ch[x][j] # f
    BY <2>1, <1>2, <1>4, <1>8 DEF LowestIn, TypeOK
  <2>3. CASE x = p /\ j = i
    BY <2>1, <2>2, <2>3, <1>4, <1>5, <1>7
  <2>4. CASE ~(x = p /\ j = i)
    <3>1. ch'[x][j] = ch[x][j]
        BY <2>1, <2>4, <1>4, <1>8
    <3> QED BY <3>1, <2>2, <1>6
  <2> QED BY <2>3, <2>4
<1>9. LowestIn(node, ch, term, it, predicate)
    BY DEF InsertNewSelection, AtLowest, LowestIn, DefinedIn, Defines, DefinedAt
<1>10. ASSUME NEW n \in Node, Linked(n)', node'[n].node_case = "SELECTION",
              NEW k \in DOMAIN pred'[n]
       PROVE  LowestIn(node', ch', term', ch'[n][1], pred'[n][k])
  <2>1. CASE n = f
    <3>1. ch'[n][1] = it /\ pred'[n][k] = predicate
        BY <1>1, <1>4, <1>10, <2>1
    <3>2. LowestIn(node', ch', term', it, predicate)
        BY <1>1, <1>4, <1>5, <1>8, <1>9
    <3> QED BY <3>1, <3>2
  <2>2. CASE n # f
    <3>1. Linked(n) /\ node[n].node_case = "SELECTION" /\ k \in DOMAIN pred[n]
        BY <1>1, <1>4, <1>5, <1>10, <2>2
    <3>2. 1 \in DOMAIN ch[n] /\ ch[n][1] \in Node /\ ch[n][1] # f /\ n # p
        BY <1>1, <1>2, <1>4, <3>1, SelectionChild
    <3>3. LowestIn(node, ch, term, ch[n][1], pred[n][k])
        BY <1>1, <3>1, LowestForms DEF Placing
    <3>4. ch'[n][1] = ch[n][1] /\ pred'[n][k] = pred[n][k]
        BY <1>1, <1>4, <2>2, <3>2
    <3>5. LowestIn(node', ch', term', ch[n][1], pred[n][k])
        BY <1>1, <1>8, <3>2, <3>3
    <3> QED BY <3>4, <3>5
  <2> QED BY <2>1, <2>2
<1> QED BY <1>10, LowestForms

(* Steps that leave the tree and its predicates alone *)
LEMMA LowestStay ==
    ASSUME LowestInv, UNCHANGED <<node, ch, pred, term, root>>, Placing' => Placing
    PROVE  LowestInv'
<1>1. \A n \in Node : Linked(n)' <=> Linked(n)
    BY DEF Linked
<1> QED BY <1>1, LowestForms

LEMMA LowestNext == IInv /\ LowestInv /\ [Next]_vars => LowestInv'
<1> SUFFICES ASSUME IInv, LowestInv, [Next]_vars
             PROVE  LowestInv'
    OBVIOUS
<1>1. CASE CollectSelections \/ FindLowest \/ Descend \/ KeepSelection \/ Return \/ SecondCall
           \/ UNCHANGED vars
  <2>1. UNCHANGED <<node, ch, pred, term, root>> /\ (Placing' => Placing)
    BY <1>1 DEF CollectSelections, FindLowest, Descend, KeepSelection, SelectionDone, Return,
                SecondCall, vars, tree, Placing
  <2> QED BY <2>1, LowestStay
<1>2. CASE ExtractPredicates
  <2>1. /\ \A n \in Node : Linked(n) /\ node[n].node_case = "SELECTION" => pred'[n] = <<>>
        /\ UNCHANGED <<node, ch, root>>
    BY <1>2, ExtractStep
  <2>2. \A n \in Node : Linked(n)' <=> Linked(n)
    BY <2>1 DEF Linked
  <2> QED BY <2>1, <2>2, LowestForms
<1>3. CASE ReAdd \/ InsertInJoin \/ InsertInSelection
    BY <1>3, LowestAdd
<1>4. CASE InsertNewSelection
    BY <1>4, LowestInsert
<1>5. CASE RemoveSelection
    BY <1>5, LowestRemove
<1> QED BY <1>1, <1>2, <1>3, <1>4, <1>5 DEF Next

(***************************************************************************)
(* When the pass is over every conjunct is at the lowest node, for every   *)
(* heap size, all well-formed trees and both values of convert_cp_to_join. *)
(***************************************************************************)
THEOREM LowestPlaces == Spec => []PlacedLowest
<1>1. Init => LowestInv
    BY DEF Init, LowestInv, Placing
<1>2. IInv /\ LowestInv /\ [Next]_vars => LowestInv'
    BY LowestNext
<1>3. LowestInv => PlacedLowest
    BY DEF LowestInv, PlacedLowest, Placing
<1> QED BY <1>1, <1>2, <1>3, Invariance, PTL DEF Spec

=============================================================================
