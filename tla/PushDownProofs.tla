--------------------------- MODULE PushDownProofs ---------------------------
(***************************************************************************)
(* IInv is an inductive invariant of push_down_predicates: one lemma per   *)
(* action says that the step keeps it.  Three actions need an argument     *)
(* about the tree and not only about the slots they write: the end of the  *)
(* collection (AllVisited: everything in the tree has been visited), the   *)
(* removal (CutSlots, CutTree) and the insertion of a selection (PutSlots, *)
(* PutTree).  The theorems at the end follow from IInv.                    *)
(***************************************************************************)
EXTENDS PushDownInv, SequenceTheorems, TLAPS

(* Append keeps the positions of a sequence and adds one at the end *)
LEMMA AppendFacts ==
    ASSUME NEW S, NEW s \in Seq(S), NEW e \in S
    PROVE  /\ Append(s, e) \in Seq(S) /\ Len(s) \in Nat
           /\ DOMAIN s = 1 .. Len(s)
           /\ DOMAIN Append(s, e) = 1 .. Len(s) + 1
           /\ \A i \in DOMAIN s : Append(s, e)[i] = s[i]
           /\ Append(s, e)[Len(s) + 1] = e
BY LenProperties, AppendProperties

(* r is s followed by t without its first *)
IsReplaced(ls, lt, s, t, r) ==
    /\ DOMAIN s = 1 .. ls /\ DOMAIN t = 1 .. lt /\ DOMAIN r = 1 .. ls + lt - 1
    /\ \A i \in 1 .. ls + lt - 1 : r[i] = IF i <= ls THEN s[i] ELSE t[i - ls + 1]

Injective(s) == \A i, j \in DOMAIN s : s[i] = s[j] => i = j

(* The same without positions *)
HoldsRest(s, t, r) ==
    /\ 1 \in DOMAIN t
    /\ \A i \in DOMAIN s : i \in DOMAIN r /\ r[i] = s[i]
    /\ \A j \in DOMAIN t : j # 1 => \E i \in DOMAIN r : r[i] = t[j]
    /\ \A i \in DOMAIN r : \/ i \in DOMAIN s /\ r[i] = s[i]
                           \/ \E j \in DOMAIN t : j # 1 /\ r[i] = t[j]

(* get_all_selections replaces the node on top of its stack by its children *)
LEMMA HeadReplaced ==
    ASSUME NEW S, NEW s \in Seq(S), NEW t \in Seq(S), t # <<>>
    PROVE  /\ Len(s) \in Nat /\ Len(t) \in Nat \ {0}
           /\ IsReplaced(Len(s), Len(t), s, t, s \o Tail(t))
<1>1. Tail(t) \in Seq(S) /\ Len(Tail(t)) = Len(t) - 1
      /\ \A i \in 1 .. Len(Tail(t)) : Tail(t)[i] = t[i + 1]
  BY HeadTailProperties
<1>2. /\ s \o Tail(t) \in Seq(S)
      /\ Len(s \o Tail(t)) = Len(s) + Len(Tail(t))
      /\ \A i \in 1 .. Len(s) + Len(Tail(t)) : (s \o Tail(t))[i] =
                     IF i <= Len(s) THEN s[i] ELSE Tail(t)[i - Len(s)]
  BY <1>1, ConcatProperties
<1>3. /\ Len(s) \in Nat /\ Len(t) \in Nat \ {0}
      /\ DOMAIN s = 1 .. Len(s) /\ DOMAIN t = 1 .. Len(t)
      /\ DOMAIN (s \o Tail(t)) = 1 .. Len(s \o Tail(t))
  BY <1>2, LenProperties, EmptySeq
<1>4. ASSUME NEW i \in 1 .. Len(s) + Len(t) - 1
      PROVE  (s \o Tail(t))[i] = IF i <= Len(s) THEN s[i] ELSE t[i - Len(s) + 1]
  <2>1. CASE i <= Len(s)
    BY <1>1, <1>2, <1>3, <2>1
  <2>2. CASE ~(i <= Len(s))
    <3>1. i - Len(s) \in 1 .. Len(Tail(t)) /\ (i - Len(s)) + 1 = i - Len(s) + 1
      BY <1>1, <1>3, <2>2
    <3> QED
      BY <1>1, <1>2, <1>3, <2>2, <3>1
  <2> QED
    BY <2>1, <2>2
<1> QED
  BY <1>1, <1>2, <1>3, <1>4 DEF IsReplaced

(* ... so that the stack holds the children and the rest, each node once *)
LEMMA Replaced ==
    ASSUME NEW ls \in Nat, NEW lt \in Nat \ {0}, NEW s, NEW t, NEW r,
           IsReplaced(ls, lt, s, t, r), Injective(s), Injective(t),
           \A i \in DOMAIN s, j \in DOMAIN t : s[i] # t[j]
    PROVE  HoldsRest(s, t, r) /\ Injective(r)
<1> USE DEF IsReplaced, Injective
<1>1. \A i \in 1 .. ls : i \in DOMAIN r /\ r[i] = s[i]
  OBVIOUS
<1>2. ASSUME NEW i \in ls + 1 .. ls + lt - 1
      PROVE  i - ls + 1 \in 2 .. lt /\ r[i] = t[i - ls + 1]
  <2>1. i \in 1 .. ls + lt - 1 /\ ~(i <= ls) /\ i - ls + 1 \in 2 .. lt
    OBVIOUS
  <2> QED
    BY <2>1
<1>3. ASSUME NEW j \in 2 .. lt
      PROVE  \E i \in DOMAIN r : r[i] = t[j]
  <2>1. PICK i \in ls + 1 .. ls + lt - 1 : i = j + ls - 1
    OBVIOUS
  <2>2. i - ls + 1 = j /\ i \in DOMAIN r
    BY <2>1
  <2> QED
    BY <1>2, <2>2
<1>4. \A i \in DOMAIN r : \/ i \in DOMAIN s /\ r[i] = s[i]
                          \/ i \in ls + 1 .. ls + lt - 1
  BY <1>1
<1>5. ASSUME NEW i \in DOMAIN r
      PROVE  \/ i \in DOMAIN s /\ r[i] = s[i]
             \/ \E j \in DOMAIN t : j # 1 /\ r[i] = t[j]
  <2>1. CASE i \in ls + 1 .. ls + lt - 1
    <3>1. i - ls + 1 \in DOMAIN t /\ i - ls + 1 # 1 /\ r[i] = t[i - ls + 1]
      BY <1>2, <2>1
    <3> QED
      BY <3>1
  <2> QED
    BY <1>4, <2>1
<1>6. ASSUME NEW i \in DOMAIN r, NEW j \in DOMAIN r, r[i] = r[j]
      PROVE  i = j
  <2>1. \A k \in ls + 1 .. ls + lt - 1 : k - ls + 1 \in DOMAIN t /\ r[k] = t[k - ls + 1]
    BY <1>2
  <2>2. CASE i \in DOMAIN s /\ r[i] = s[i]
    BY <1>4, <1>6, <2>1, <2>2, ZenonT(30)
  <2>3. CASE i \in ls + 1 .. ls + lt - 1
    <3>1. j \in ls + 1 .. ls + lt - 1
      BY <1>4, <1>6, <2>1, <2>3
    <3>2. i - ls + 1 = j - ls + 1
      BY <1>6, <2>1, <2>3, <3>1
    <3> QED
      BY <2>3, <3>1, <3>2
  <2> QED
    BY <1>4, <2>2, <2>3
<1>7. 1 \in DOMAIN t /\ \A j \in DOMAIN t : j # 1 => j \in 2 .. lt
  OBVIOUS
<1>8. \A i \in DOMAIN s : i \in DOMAIN r /\ r[i] = s[i]
  BY <1>1
<1> QED
  BY <1>3, <1>5, <1>6, <1>7, <1>8 DEF HoldsRest

(* A list of conjuncts without a nested AND is its own split *)
LEMMA SplitAtoms ==
    ASSUME NEW terms, NEW ps, \A i \in DOMAIN ps : IsAtom(terms, ps[i])
    PROVE  split_selection_predicates(terms, ps) = ps
BY DEF split_selection_predicates

(* The trees the pass is started on satisfy the invariant *)
THEOREM InitInv == Init => IInv
<1> SUFFICES ASSUME Init PROVE IInv
  OBVIOUS
<1>1. PICK t \in Trees : /\ node = t.node   /\ ch = t.ch     /\ pred = t.pred
                         /\ term = t.term   /\ root = t.root /\ fresh = t.fresh
  BY DEF Init
<1>2. TreeOK(t)
  BY TreesAssumption
<1>3. /\ pc = "collect" /\ call = 1 /\ todo = <<root>> /\ selections = <<>>
      /\ work = <<>> /\ wi = 1 /\ pj = 1 /\ it = root
  BY DEF Init
<1>4. TypeOK
  BY <1>1, <1>2, <1>3 DEF TreeOK, WellFormed, TypeOK
<1>5. TreeShape /\ Connected /\ HeapInv
  BY <1>1, <1>2 DEF TreeOK, WellFormed, TreeShape, Connected, HeapInv, Linked
<1>6. Visited({})
  BY <1>3, <1>4 DEF Visited, TypeOK, Linked, InTree
<1>7. CollectInv
  BY <1>1, <1>2, <1>6 DEF CollectInv, TreeOK, WellFormed
<1>8. WorkInv /\ ConjunctInv /\ LoopInv /\ Conserved
  BY <1>3 DEF WorkInv, ConjunctInv, LoopInv, Conserved, Placing
<1>9. NotDuplicated
  BY <1>1, <1>2, <1>3 DEF NotDuplicated, TreeOK, WellFormed, SlotsDistinct, Placing
<1> QED
  BY <1>4, <1>5, <1>7, <1>8, <1>9 DEF IInv

(* Visiting a node: its children have not been met before, they have one parent *)
LEMMA CollectSelectionsInv == IInv /\ CollectSelections => IInv'
<1> SUFFICES ASSUME IInv, CollectSelections PROVE IInv'
  OBVIOUS
<1>1. TypeOK /\ TreeShape /\ Connected /\ HeapInv /\ CollectInv /\ NotDuplicated
  BY DEF IInv
<1>2. PICK n \in Node : n = todo[1]
  BY <1>1 DEF CollectSelections, TypeOK
<1>3. /\ pc = "collect" /\ pc' = pc /\ todo # <<>>
      /\ selections' = IF node[n].node_case = "SELECTION"
                       THEN Append(selections, n) ELSE selections
      /\ todo' = ch[n] \o Tail(todo)
      /\ UNCHANGED <<node, ch, pred, term, root, fresh, call, work, wi, pj, it>>
  BY <1>2 DEF CollectSelections, tree
<1>4. /\ ch[n] \in Seq(Node) /\ Tail(todo) \in Seq(Node) /\ todo \in Seq(Node)
      /\ selections \in Seq(Node)
  BY <1>1, <1>2, <1>3 DEF TypeOK
<1>5. TypeOK'
  BY <1>1, <1>3, <1>4 DEF TypeOK
<1>6. PICK seen \in SUBSET Node : Visited(seen)
  BY <1>1, <1>3 DEF CollectInv
<1>7. Visited(seen \cup {n})'
  <2>1. n \notin seen /\ Linked(n) /\ (n # root => \E p \in seen : n \in Children(ch, p))
    BY <1>2, <1>3, <1>4, <1>6 DEF Visited
  <2>2. /\ \A p, q \in Node : \A i \in DOMAIN ch[p], j \in DOMAIN ch[q] :
               ch[p][i] = ch[q][j] => p = q /\ i = j
        /\ \A p \in Node : root \notin Children(ch, p)
    BY <1>1 DEF TreeShape, IsTree
  \* a child of n has not been met before: its only parent is n
  <2>3. \A i \in DOMAIN ch[n] : /\ ch[n][i] \notin seen /\ ch[n][i] # n /\ ch[n][i] # root
                               /\ \A j \in DOMAIN todo : todo[j] # ch[n][i]
    <3> SUFFICES ASSUME NEW i \in DOMAIN ch[n]
                 PROVE  /\ ch[n][i] \notin seen /\ ch[n][i] # n /\ ch[n][i] # root
                        /\ \A j \in DOMAIN todo : todo[j] # ch[n][i]
      OBVIOUS
    <3>1. ch[n][i] \in Children(ch, n)
      BY DEF Children
    <3>2. ch[n][i] # root
      BY <2>2, <3>1
    <3>3. \A p \in seen : ch[n][i] \notin Children(ch, p)
      BY <2>1, <2>2 DEF Children
    <3> QED
      BY <1>2, <1>6, <2>1, <3>1, <3>2, <3>3 DEF Visited
  <2>4. /\ Injective(todo) /\ Injective(ch[n])
        /\ \A k \in DOMAIN ch[n], l \in DOMAIN todo : ch[n][k] # todo[l]
    BY <1>6, <2>2, <2>3 DEF Visited, Injective
  <2>5. PICK ls \in Nat, lt \in Nat \ {0} : IsReplaced(ls, lt, ch[n], todo, todo')
    <3>1. todo \in Seq(Node) /\ todo # <<>> /\ ch[n] \in Seq(Node)
      BY <1>3, <1>4
    <3>2. /\ Len(ch[n]) \in Nat /\ Len(todo) \in Nat \ {0}
          /\ IsReplaced(Len(ch[n]), Len(todo), ch[n], todo, ch[n] \o Tail(todo))
      BY <3>1, HeadReplaced
    <3> QED
      BY <1>3, <3>2
  <2>6. HoldsRest(ch[n], todo, todo') /\ Injective(todo')
    BY <2>4, <2>5, Replaced
  <2>7. /\ 1 \in DOMAIN todo
        /\ \A i \in DOMAIN ch[n] : i \in DOMAIN todo' /\ todo'[i] = ch[n][i]
        /\ \A j \in DOMAIN todo : j # 1 => \E i \in DOMAIN todo' : todo'[i] = todo[j]
        /\ \A i \in DOMAIN todo' : \/ i \in DOMAIN ch[n] /\ todo'[i] = ch[n][i]
                                   \/ \E j \in DOMAIN todo : j # 1 /\ todo'[i] = todo[j]
        /\ \A i, j \in DOMAIN todo : todo[i] = todo[j] => i = j
        /\ \A i, j \in DOMAIN todo' : todo'[i] = todo'[j] => i = j
    BY <2>4, <2>6 DEF Injective, HoldsRest
  <2>8. ASSUME NEW i \in DOMAIN todo'
        PROVE  /\ InTree(ch, root, todo'[i])
               /\ todo'[i] \notin seen \cup {n}
               /\ todo'[i] # root => \E p \in seen \cup {n} : todo'[i] \in Children(ch, p)
    <3>1. CASE i \in DOMAIN ch[n] /\ todo'[i] = ch[n][i]
      <4>1. todo'[i] \in Children(ch, n)
        BY <3>1 DEF Children
      <4> QED
        BY <2>3, <3>1, <4>1 DEF InTree
    <3>2. CASE \E j \in DOMAIN todo : j # 1 /\ todo'[i] = todo[j]
      <4>1. PICK k \in DOMAIN todo : k # 1 /\ todo'[i] = todo[k]
        BY <3>2
      <4>2. /\ Linked(todo[k]) /\ todo[k] \notin seen
            /\ todo[k] # root => \E p \in seen : todo[k] \in Children(ch, p)
        BY <1>6 DEF Visited
      <4>3. todo[k] # n
        BY <1>2, <2>7, <4>1
      <4> QED
        BY <4>1, <4>2, <4>3 DEF Linked
    <3> QED
      BY <2>7, <3>1, <3>2
  <2>9. \A m \in seen \cup {n} : \A c \in Children(ch, m) :
           c \in seen \cup {n} \/ \E i \in DOMAIN todo' : todo'[i] = c
    <3> SUFFICES ASSUME NEW m \in seen \cup {n}, NEW c \in Children(ch, m)
                 PROVE  c \in seen \cup {n} \/ \E i \in DOMAIN todo' : todo'[i] = c
      OBVIOUS
    <3>1. CASE m \in seen
      <4>1. c \in seen \/ \E i \in DOMAIN todo : todo[i] = c
        BY <1>6, <3>1 DEF Visited
      <4> QED
        BY <1>2, <2>7, <4>1
    <3>2. CASE m = n
      BY <2>7, <3>2 DEF Children
    <3> QED
      BY <3>1, <3>2
  <2>10. root \in seen \cup {n} \/ \E i \in DOMAIN todo' : todo'[i] = root
    BY <1>2, <1>6, <2>7 DEF Visited
  <2>11. /\ \A i, j \in DOMAIN selections' : selections'[i] = selections'[j] => i = j
         /\ \A i \in DOMAIN selections' : /\ selections'[i] \in seen \cup {n}
                                          /\ node[selections'[i]].node_case = "SELECTION"
         /\ \A m \in seen \cup {n} : node[m].node_case = "SELECTION" =>
               \E i \in DOMAIN selections' : selections'[i] = m
    <3>1. /\ \A i, j \in DOMAIN selections : selections[i] = selections[j] => i = j
          /\ \A i \in DOMAIN selections :
                selections[i] \in seen /\ node[selections[i]].node_case = "SELECTION"
          /\ \A m \in seen : node[m].node_case = "SELECTION" =>
                \E i \in DOMAIN selections : selections[i] = m
      BY <1>6 DEF Visited
    <3>2. CASE node[n].node_case # "SELECTION"
      BY <1>3, <3>1, <3>2
    <3>3. CASE node[n].node_case = "SELECTION"
      <4>1. /\ Len(selections) \in Nat
            /\ DOMAIN selections = 1 .. Len(selections)
            /\ DOMAIN selections' = 1 .. Len(selections) + 1
            /\ \A i \in DOMAIN selections : selections'[i] = selections[i]
            /\ selections'[Len(selections) + 1] = n
        BY <1>3, <1>4, <3>3, AppendFacts
      <4>2. \A i \in DOMAIN selections' : i \in DOMAIN selections \/ i = Len(selections) + 1
        BY <4>1
      <4>3. DOMAIN selections \subseteq DOMAIN selections' /\ Len(selections) + 1 \in DOMAIN selections'
        BY <4>1
      <4> QED
        BY <2>1, <3>1, <3>3, <4>1, <4>2, <4>3
    <3> QED
      BY <3>2, <3>3
  <2>12. \A m \in seen \cup {n} : Linked(m) /\ (m # root => \E p \in seen \cup {n} : m \in Children(ch, p))
    BY <1>6, <2>1 DEF Visited
  <2>13. ch' = ch /\ root' = root /\ node' = node
    BY <1>3
  <2>14. PICK more : more = seen \cup {n}
    OBVIOUS
  <2>15. Visited(more)'
    <3>1. (\A i \in DOMAIN todo : Linked(todo[i]) /\ todo[i] \notin more)'
      BY <2>8, <2>13, <2>14 DEF Linked
    <3>2. (root \in more \/ \E i \in DOMAIN todo : todo[i] = root)'
      BY <2>10, <2>13, <2>14
    <3>3. (\A m \in more : Linked(m))'
      BY <2>12, <2>13, <2>14 DEF Linked
    <3>4. (\A m \in more : \A c \in Children(ch, m) :
              c \in more \/ \E i \in DOMAIN todo : todo[i] = c)'
      BY <2>9, <2>13, <2>14
    <3>5. (\A m \in more : m # root => \E p \in more : m \in Children(ch, p))'
      BY <2>12, <2>13, <2>14
    <3>6. (\A i \in DOMAIN todo : todo[i] # root => \E p \in more : todo[i] \in Children(ch, p))'
      BY <2>8, <2>13, <2>14
    <3>7. (\A i \in DOMAIN selections :
              selections[i] \in more /\ node[selections[i]].node_case = "SELECTION")'
      BY <2>11, <2>13, <2>14
    <3>8. (\A m \in more : node[m].node_case = "SELECTION" =>
              \E i \in DOMAIN selections : selections[i] = m)'
      BY <2>11, <2>13, <2>14
    <3> QED
      BY <2>7, <2>11, <3>1, <3>2, <3>3, <3>4, <3>5, <3>6, <3>7, <3>8 DEF Visited
  <2> QED
    BY <2>14, <2>15
<1>8. CollectInv'
  BY <1>1, <1>3, <1>7 DEF CollectInv
<1>9. (TreeShape /\ Connected /\ HeapInv /\ NotDuplicated)'
  BY <1>1, <1>3 DEF TreeShape, Connected, HeapInv, NotDuplicated, Linked, Placing
<1>10. (WorkInv /\ ConjunctInv /\ LoopInv /\ Conserved)'
  BY <1>3 DEF WorkInv, ConjunctInv, LoopInv, Conserved, Placing
<1> QED
  BY <1>5, <1>8, <1>9, <1>10 DEF IInv

-----------------------------------------------------------------------------
(* get_all_selections has visited the whole tree when its stack is empty *)
LEMMA AllVisited ==
    ASSUME TypeOK, Connected, todo = <<>>, NEW seen \in SUBSET Node, Visited(seen)
    PROVE  \A n \in Node : Linked(n) => n \in seen
<1>1. root \in seen /\ \A n \in seen : Linked(n) /\ Children(ch, n) \subseteq seen
  BY DEF Visited
<1>2. seen \in SUBSET {n \in Node : InTree(ch, root, n)}
  BY <1>1 DEF Linked
<1>3. seen = {n \in Node : InTree(ch, root, n)}
  BY <1>1, <1>2 DEF Connected, IsConnected
<1> QED
  BY <1>3 DEF Linked

(* Taking the predicates of all selections apart *)
LEMMA ExtractPredicatesInv == IInv /\ ExtractPredicates => IInv'
<1> SUFFICES ASSUME IInv, ExtractPredicates PROVE IInv'
  OBVIOUS
<1>1. TypeOK /\ TreeShape /\ Connected /\ HeapInv /\ CollectInv /\ NotDuplicated
  BY DEF IInv
<1>2. /\ pc = "collect" /\ todo = <<>> /\ pc' = "place" /\ wi' = 1 /\ pj' = 1
      /\ UNCHANGED <<node, ch, term, root, fresh, call, todo, selections, it>>
  BY DEF ExtractPredicates
<1>3. /\ DOMAIN work' = DOMAIN selections
      /\ \A i \in DOMAIN selections : /\ work'[i].sel = selections[i]
                                      /\ work'[i].preds = Split(term, pred, selections[i])
  BY DEF ExtractPredicates, Split
<1>4. /\ \A n \in Node : pred'[n] = IF \E i \in DOMAIN selections : selections[i] = n
                                    THEN <<>> ELSE pred[n]
      /\ pred' = [n \in Node |-> pred'[n]]
  BY DEF ExtractPredicates
<1>5. PICK seen \in SUBSET Node : Visited(seen)
  BY <1>1, <1>2 DEF CollectInv
<1>6. \A n \in Node : Linked(n) => n \in seen
  BY <1>1, <1>2, <1>5, AllVisited
<1>7. /\ \A i \in DOMAIN selections : /\ selections[i] \in Node /\ Linked(selections[i])
                                      /\ node[selections[i]].node_case = "SELECTION"
      /\ \A i, j \in DOMAIN selections : selections[i] = selections[j] => i = j
      /\ \A n \in Node : Linked(n) /\ node[n].node_case = "SELECTION" =>
            \E i \in DOMAIN selections : selections[i] = n
  BY <1>5, <1>6 DEF Visited
<1>8. Splits(node, pred, term)
  BY <1>1, <1>2 DEF CollectInv
<1>9. TypeOK'
  <2>1. pred' \in [Node -> Seq(DOMAIN term)]
    <3>1. <<>> \in Seq(DOMAIN term) /\ \A n \in Node : pred[n] \in Seq(DOMAIN term)
      BY <1>1, EmptySeq DEF TypeOK
    <3> QED
      BY <3>1 DEF ExtractPredicates
  <2>2. work' \in Seq([sel : Node, preds : Seq(DOMAIN term)])
    <3>1. Len(selections) \in Nat /\ DOMAIN selections = 1 .. Len(selections)
      BY <1>1 DEF TypeOK
    <3>2. work' = [i \in 1 .. Len(selections) |->
                      [sel |-> selections[i], preds |-> Split(term, pred, selections[i])]]
      BY <3>1 DEF ExtractPredicates, Split
    <3>3. \A i \in 1 .. Len(selections) :
             [sel |-> selections[i], preds |-> Split(term, pred, selections[i])]
                \in [sel : Node, preds : Seq(DOMAIN term)]
      BY <1>7, <1>8, <3>1 DEF Splits
    <3> QED
      BY <3>1, <3>2, <3>3
  <2> QED
    BY <1>1, <1>2, <2>1, <2>2 DEF TypeOK
<1>10. (TreeShape /\ Connected)'
  BY <1>1, <1>2 DEF TreeShape, Connected
<1>11. HeapInv'
  BY <1>1, <1>2, <1>4 DEF HeapInv, Unused, Linked
<1>12. CollectInv' /\ LoopInv'
  <2>1. Len(work') \in Nat
    BY <1>9 DEF TypeOK
  <2> QED
    BY <1>2, <2>1 DEF CollectInv, LoopInv
<1>13. WorkInv'
  <2>1. \A i \in DOMAIN selections : i >= 1
    BY <1>1 DEF TypeOK
  <2> QED
    BY <1>2, <1>3, <1>4, <1>7, <2>1 DEF WorkInv, Linked
<1>14. \A n \in Node : node[n].node_case = "SELECTION" => pred'[n] = <<>>
  BY <1>1, <1>4, <1>7 DEF HeapInv
<1>15. ConjunctInv'
  <2>1. \A i, k \in DOMAIN selections :
           \A j \in DOMAIN work'[i].preds, l \in DOMAIN work'[k].preds :
              work'[i].preds[j] = work'[k].preds[l] => i = k /\ j = l
    BY <1>3, <1>7, <1>8 DEF Splits
  <2>2. \A i \in DOMAIN selections : \A j \in DOMAIN work'[i].preds :
           IsAtom(term, work'[i].preds[j])
    BY <1>3, <1>7, <1>8 DEF Splits
  <2> QED
    BY <1>2, <1>3, <1>14, <2>1, <2>2 DEF ConjunctInv
<1>16. \A i \in DOMAIN work', j \in Nat \ {0} : ~Processed(i, j)'
  BY <1>1, <1>2, <1>3 DEF Processed, TypeOK
<1>17. Conserved'
  <2>1. ASSUME NEW i \in DOMAIN work'
        PROVE  \A j \in DOMAIN work'[i].preds : j \in Nat \ {0}
    <3>1. work'[i].preds \in Seq(DOMAIN term)
      BY <1>3, <1>7, <1>8 DEF Splits
    <3> QED
      BY <3>1
  <2> QED
    BY <1>16, <2>1 DEF Conserved
<1>18. NotDuplicated'
  <2>1. \A n, m \in Node : \A k \in DOMAIN pred'[n], l \in DOMAIN pred'[m] :
           pred'[n][k] = pred'[m][l] => n = m /\ k = l
    BY <1>1, <1>4 DEF NotDuplicated
  <2>2. ASSUME NEW i \in DOMAIN selections, NEW j \in DOMAIN work'[i].preds,
               NEW n \in Node, NEW k \in DOMAIN pred'[n], pred'[n][k] = work'[i].preds[j]
        PROVE  FALSE
    <3>1. node[n].node_case # "SELECTION" /\ pred'[n] = pred[n]
      BY <1>4, <1>7, <1>14, <2>2
    <3> QED
      BY <1>3, <1>7, <1>8, <2>2, <3>1 DEF Splits
  <2> QED
    BY <1>3, <2>1, <2>2 DEF NotDuplicated, Held
<1> QED
  BY <1>9, <1>10, <1>11, <1>12, <1>13, <1>15, <1>17, <1>18 DEF IInv

-----------------------------------------------------------------------------
(* The entries of selections_predicates_relations *)
LEMMA WorkTypes ==
    ASSUME TypeOK
    PROVE  /\ Len(work) \in Nat /\ DOMAIN work = 1 .. Len(work)
           /\ \A i \in DOMAIN work : /\ i \in Nat /\ i >= 1
                                     /\ work[i].sel \in Node
                                     /\ work[i].preds \in Seq(DOMAIN term)
<1>1. PICK R : R = [sel : Node, preds : Seq(DOMAIN term)]
  OBVIOUS
<1>2. work \in Seq(R)
  BY <1>1 DEF TypeOK
<1>3. /\ Len(work) \in Nat /\ DOMAIN work = 1 .. Len(work)
      /\ \A i \in 1 .. Len(work) : work[i] \in R
  BY <1>2, LenProperties, ElementOfSeq
<1>4. \A i \in DOMAIN work : i \in Nat /\ i >= 1
  BY <1>3
<1> QED
  BY <1>1, <1>3, <1>4

(* What add_predicate_to_selection and add_predicate_to_join do to a predicate *)
Added(terms, ps, t, q) ==
    /\ q \in Seq(DOMAIN terms)
    /\ q # <<>>
    /\ \A k \in DOMAIN ps : k \in DOMAIN q /\ q[k] = ps[k]
    /\ \A k \in DOMAIN q : k \in DOMAIN ps \/ q[k] = t
    /\ \A k, l \in DOMAIN q : k \notin DOMAIN ps /\ l \notin DOMAIN ps => k = l
    /\ \/ IsBareMarker(terms, ps) /\ q = ps
       \/ ~IsBareMarker(terms, ps) /\ \E k \in DOMAIN q : q[k] = t

(* add_predicate keeps what is there and adds the conjunct unless it finds a lone marker *)
LEMMA AddFacts ==
    ASSUME NEW terms, NEW ps \in Seq(DOMAIN terms), NEW t \in DOMAIN terms
    PROVE  Added(terms, ps, t, add_predicate(terms, ps, t))
<1> DEFINE q == add_predicate(terms, ps, t)
<1> USE DEF Added
<1>1. CASE IsBareMarker(terms, ps)
  <2>1. q = ps /\ Len(ps) = 1
    BY <1>1 DEF add_predicate, IsBareMarker
  <2>2. ps # <<>>
    BY <2>1
  <2> QED
    BY <1>1, <2>1, <2>2
<1>2. CASE ~IsBareMarker(terms, ps)
  <2>1. q = Append(ps, t)
    BY <1>2 DEF add_predicate
  <2>2. /\ q \in Seq(DOMAIN terms) /\ Len(ps) \in Nat
        /\ DOMAIN ps = 1 .. Len(ps) /\ DOMAIN q = 1 .. Len(ps) + 1
        /\ \A k \in DOMAIN ps : q[k] = ps[k]
        /\ q[Len(ps) + 1] = t
    BY <2>1, AppendFacts
  <2>3. \A k \in DOMAIN q : k \in DOMAIN ps \/ k = Len(ps) + 1
    BY <2>2
  <2>4. Len(ps) + 1 \in DOMAIN q /\ DOMAIN ps \subseteq DOMAIN q
    BY <2>2
  <2>5. q # <<>>
    BY <2>1, AppendProperties
  <2> QED
    BY <1>2, <2>2, <2>3, <2>4, <2>5
<1> QED
  BY <1>1, <1>2

(* The node of the tree the current conjunct is added to *)
AddsTo(x) ==
    /\ x \in Node /\ Linked(x)
    /\ \A n \in Node : node'[n].node_case = node[n].node_case
    /\ \A n \in Node : n # x => node'[n] = node[n]
    /\ node' \in [Node -> Label]
    /\ pred' = [pred EXCEPT ![x] = add_predicate(term, @, predicate)]
    /\ pj' = pj + 1 /\ pc' = "place"
    /\ UNCHANGED <<ch, term, root, fresh, call, todo, selections, work, wi, it>>

(* The current conjunct is in no predicate of the tree yet *)
LEMMA CurrentConjunct ==
    ASSUME IInv, pc \in {"place", "descend"}, HasConjunct
    PROVE  /\ predicate \in DOMAIN term /\ IsAtom(term, predicate)
           /\ \A n \in Node : \A k \in DOMAIN pred[n] : pred[n][k] # predicate
           /\ \A i \in DOMAIN work : \A j \in DOMAIN work[i].preds :
                 work[i].preds[j] = predicate => i = wi /\ j = pj
<1>1. TypeOK /\ HeapInv /\ ConjunctInv /\ NotDuplicated /\ Placing
  BY DEF IInv, Placing
<1>2. wi \in DOMAIN work /\ pj \in DOMAIN work[wi].preds /\ predicate = work[wi].preds[pj]
  BY DEF HasConjunct, predicate
<1>3. ~Processed(wi, pj)
  BY <1>1 DEF Processed, TypeOK
<1>4. work[wi].preds \in Seq(DOMAIN term)
  BY <1>1, <1>2, WorkTypes
<1>5. predicate \in DOMAIN term
  BY <1>2, <1>4
<1>6. ~Held(predicate)
  BY <1>1, <1>2, <1>3 DEF NotDuplicated
<1>7. \A n \in Node : \A k \in DOMAIN pred[n] : pred[n][k] # predicate
  BY <1>1, <1>6 DEF Held, HeapInv
<1> QED
  BY <1>1, <1>2, <1>5, <1>7 DEF ConjunctInv

(* What is processed after the step was processed before, or is the current one *)
LEMMA ProcessedNext ==
    ASSUME TypeOK, pj' = pj + 1, wi' = wi, NEW i \in Nat, NEW j \in Nat
    PROVE  Processed(i, j)' <=> Processed(i, j) \/ (i = wi /\ j = pj)
BY DEF Processed, TypeOK

(* Adding the current conjunct to the predicate of a node of the tree *)
LEMMA AddPredicateInv ==
    ASSUME IInv, pc \in {"place", "descend"}, HasConjunct, NEW x, AddsTo(x)
    PROVE  IInv'
<1>1. /\ TypeOK /\ TreeShape /\ Connected /\ HeapInv /\ WorkInv /\ ConjunctInv /\ LoopInv
      /\ Conserved /\ NotDuplicated /\ Placing
  BY DEF IInv, Placing
<1>2. /\ x \in Node /\ Linked(x)
      /\ \A n \in Node : node'[n].node_case = node[n].node_case
      /\ \A n \in Node : n # x => node'[n] = node[n]
      /\ node' \in [Node -> Label]
      /\ pj' = pj + 1 /\ pc' = "place"
      /\ UNCHANGED <<ch, term, root, fresh, call, todo, selections, work, wi, it>>
  BY DEF AddsTo
<1>3. PICK c : c = predicate
  OBVIOUS
<1>4. /\ c \in DOMAIN term /\ IsAtom(term, c)
      /\ \A n \in Node : \A k \in DOMAIN pred[n] : pred[n][k] # c
      /\ \A i \in DOMAIN work : \A j \in DOMAIN work[i].preds :
            work[i].preds[j] = c => i = wi /\ j = pj
  BY <1>3, CurrentConjunct
<1>5. pred[x] \in Seq(DOMAIN term)
  BY <1>1, <1>2 DEF TypeOK
<1>6. PICK q : q = add_predicate(term, pred[x], c)
  OBVIOUS
<1>7. /\ q \in Seq(DOMAIN term)
      /\ q # <<>>
      /\ \A k \in DOMAIN pred[x] : k \in DOMAIN q /\ q[k] = pred[x][k]
      /\ \A k \in DOMAIN q : k \in DOMAIN pred[x] \/ q[k] = c
      /\ \A k, l \in DOMAIN q : k \notin DOMAIN pred[x] /\ l \notin DOMAIN pred[x] => k = l
      /\ \/ IsBareMarker(term, pred[x]) /\ q = pred[x]
         \/ ~IsBareMarker(term, pred[x]) /\ \E k \in DOMAIN q : q[k] = c
  <2>1. Added(term, pred[x], c, q)
    BY <1>4, <1>5, <1>6, AddFacts
  <2> QED
    BY <2>1 DEF Added
<1>8. /\ pred' = [pred EXCEPT ![x] = q]
      /\ pred'[x] = q /\ \A n \in Node : n # x => pred'[n] = pred[n]
  BY <1>1, <1>2, <1>3, <1>6 DEF AddsTo, TypeOK
<1>9. TypeOK'
  <2>1. pred' \in [Node -> Seq(DOMAIN term)]
    BY <1>1, <1>7, <1>8 DEF TypeOK
  <2> QED
    BY <1>1, <1>2, <2>1 DEF TypeOK
<1>10. TreeShape'
  BY <1>1, <1>2 DEF TreeShape, IsTree, is_full
<1>11. Connected'
  BY <1>1, <1>2 DEF Connected
<1>12. \A n \in Node : Linked(n)' <=> Linked(n)
  BY <1>2 DEF Linked
<1>13. HeapInv'
  <2>1. ~(x >= fresh)
    BY <1>1, <1>2 DEF TreeShape, IsTree, HeapInv, Unused, Linked, Free, NewNode
  <2>2. Unused(node', ch', pred', fresh')
    BY <1>1, <1>2, <1>8, <2>1 DEF HeapInv, Unused
  <2>3. root \in Node
    BY <1>1 DEF TypeOK
  <2> QED
    BY <1>1, <1>2, <1>8, <1>12, <2>2, <2>3 DEF HeapInv
<1>14. CollectInv'
  BY <1>2 DEF CollectInv
<1>15. \A i \in DOMAIN work : work[i].sel \in Node
  BY <1>1, WorkTypes
<1>16. WorkInv'
  BY <1>1, <1>2, <1>7, <1>8, <1>12, <1>15 DEF WorkInv, Placing
<1>17. ConjunctInv'
  BY <1>1, <1>2, <1>4, <1>7, <1>8 DEF ConjunctInv, Placing
<1>18. LoopInv'
  BY <1>1, <1>2 DEF LoopInv, Placing
<1>19. \A i \in DOMAIN work : \A j \in DOMAIN work[i].preds :
           Processed(i, j)' <=> Processed(i, j) \/ (i = wi /\ j = pj)
  <2> SUFFICES ASSUME NEW i \in DOMAIN work, NEW j \in DOMAIN work[i].preds
               PROVE  Processed(i, j)' <=> Processed(i, j) \/ (i = wi /\ j = pj)
    OBVIOUS
  <2>1. i \in Nat
    BY <1>1, WorkTypes
  <2>2. work[i].preds \in Seq(DOMAIN term)
    BY <1>1, WorkTypes
  <2>3. j \in Nat
    BY <2>2
  <2> QED
    BY <1>1, <1>2, <2>1, <2>3, ProcessedNext
<1>20. Conserved'
  <2>1. \A d : Held(d) => Held(d)'
    BY <1>7, <1>8, <1>12 DEF Held
  <2>2. (\E n \in Node : IsBareMarker(term, pred[n])) => (\E n \in Node : IsBareMarker(term, pred'[n]))
    BY <1>7, <1>8
  <2>3. Held(c)' \/ \E n \in Node : IsBareMarker(term, pred'[n])
    BY <1>2, <1>7, <1>8, <1>12 DEF Held
  <2>4. ASSUME NEW i \in DOMAIN work, NEW j \in DOMAIN work[i].preds, Processed(i, j)'
        PROVE  \/ Held(work[i].preds[j])'
               \/ \E n \in Node : IsBareMarker(term, pred'[n])
    <3>1. CASE Processed(i, j)
      BY <1>1, <1>2, <2>1, <2>2, <3>1 DEF Conserved
    <3>2. CASE i = wi /\ j = pj
      <4>1. work[i].preds[j] = c
        BY <1>3, <3>2 DEF predicate
      <4> QED
        BY <1>2, <2>3, <4>1
    <3> QED
      BY <1>19, <2>4, <3>1, <3>2
  <2> QED
    BY <1>2, <2>4 DEF Conserved
<1>21. NotDuplicated'
  <2>1. \A n, m \in Node : \A k \in DOMAIN pred'[n], l \in DOMAIN pred'[m] :
           pred'[n][k] = pred'[m][l] => n = m /\ k = l
    BY <1>1, <1>2, <1>4, <1>7, <1>8 DEF NotDuplicated
  <2>2. \A d : Held(d)' => Held(d) \/ d = c
    BY <1>7, <1>8, <1>12 DEF Held
  <2>3. ASSUME NEW i \in DOMAIN work, NEW j \in DOMAIN work[i].preds
        PROVE  Processed(i, j)' \/ ~Held(work[i].preds[j])'
    <3>1. Processed(i, j) \/ ~Held(work[i].preds[j])
      BY <1>1 DEF NotDuplicated
    <3> QED
      BY <1>2, <1>4, <1>19, <2>2, <3>1
  <2> QED
    BY <1>2, <2>1, <2>3 DEF NotDuplicated
<1> QED
  BY <1>9, <1>10, <1>11, <1>13, <1>14, <1>16, <1>17, <1>18, <1>20, <1>21 DEF IInv

(* get_node_parent finds the slot of every node below the root *)
LEMMA ParentSlot ==
    ASSUME TypeOK, TreeShape, NEW x \in Node, Linked(x), x # root
    PROVE  /\ get_node_parent(ch, x)[1] \in Node
           /\ get_node_parent(ch, x)[2] \in DOMAIN ch[get_node_parent(ch, x)[1]]
           /\ ch[get_node_parent(ch, x)[1]][get_node_parent(ch, x)[2]] = x
           /\ Linked(get_node_parent(ch, x)[1])
<1>1. PICK p \in Node : \E j \in DOMAIN ch[p] : ch[p][j] = x
  BY DEF Linked, InTree, Children
<1>2. PICK i \in DOMAIN ch[p] : ch[p][i] = x
  BY <1>1
<1> DEFINE Slots == UNION {{q} \X DOMAIN ch[q] : q \in Node}
<1>3. <<p, i>> \in Slots /\ ch[<<p, i>>[1]][<<p, i>>[2]] = x
  BY <1>2
<1>4. PICK slot \in Slots : slot = get_node_parent(ch, x) /\ ch[slot[1]][slot[2]] = x
  BY <1>3 DEF get_node_parent
<1>5. slot[1] \in Node /\ slot[2] \in DOMAIN ch[slot[1]]
  BY <1>4
<1>6. ch[slot[1]] # <<>>
  BY <1>5
<1>7. Linked(slot[1])
  BY <1>5, <1>6 DEF TreeShape, IsTree, Linked
<1> QED
  BY <1>4, <1>5, <1>7

(* The selection the loop is at is in the tree and has one child *)
LEMMA CurrentSelection ==
    ASSUME IInv, pc \in {"place", "descend"}, wi \in DOMAIN work
    PROVE  /\ selection \in Node /\ Linked(selection) /\ selection # root
           /\ node[selection].node_case = "SELECTION"
           /\ DOMAIN ch[selection] = {1}
           /\ ch[selection][1] \in Node /\ Linked(ch[selection][1]) /\ ch[selection][1] # root
<1>1. TypeOK /\ TreeShape /\ HeapInv /\ WorkInv /\ Placing
  BY DEF IInv, Placing
<1>2. selection \in Node
  BY <1>1, WorkTypes DEF selection
<1>3. Linked(selection) /\ node[selection].node_case = "SELECTION"
  BY <1>1, SMTT(20) DEF WorkInv, selection, TypeOK
<1>4. Len(ch[selection]) = 1 /\ ch[selection] \in Seq(Node)
  BY <1>1, <1>2, <1>3 DEF TreeShape, IsTree, is_full, n_children, Linked, TypeOK
<1>5. DOMAIN ch[selection] = {1}
  BY <1>4
<1>6. ch[selection][1] \in Children(ch, selection) /\ ch[selection][1] \in Node
  BY <1>4, <1>5 DEF Children
<1>7. ch[selection][1] # root /\ Linked(ch[selection][1])
  BY <1>1, <1>2, <1>6 DEF TreeShape, IsTree, Linked, InTree
<1> QED
  BY <1>1, <1>2, <1>3, <1>5, <1>6, <1>7 DEF HeapInv

(* Giving a conjunct back to its own selection (2.2) *)
LEMMA ReAddInv == IInv /\ ReAdd => IInv'
<1> SUFFICES ASSUME IInv, ReAdd PROVE IInv'
  OBVIOUS
<1>1. HasConjunct /\ pc = "place" /\ wi \in DOMAIN work
  BY DEF ReAdd, HasConjunct
<1>2. selection \in Node /\ Linked(selection)
  BY <1>1, CurrentSelection
<1>3. AddsTo(selection)
  BY <1>2 DEF AddsTo, ReAdd, NextConjunct, IInv, TypeOK
<1> QED
  BY <1>1, <1>3, AddPredicateInv

(* The search for the lowest node is at a node below the root *)
LEMMA DescendFacts ==
    ASSUME IInv, pc = "descend"
    PROVE  HasConjunct /\ it \in Node /\ Linked(it) /\ it # root /\ TypeOK /\ TreeShape
BY DEF IInv, LoopInv, TypeOK

(* add_predicate_to_join *)
LEMMA InsertInJoinInv == IInv /\ InsertInJoin => IInv'
<1> SUFFICES ASSUME IInv, InsertInJoin PROVE IInv'
  OBVIOUS
<1>1. pc = "descend"
  BY DEF InsertInJoin, AtLowest
<1>2. HasConjunct /\ it \in Node /\ Linked(it) /\ TypeOK
  BY <1>1, DescendFacts
<1>3. /\ node' = [node EXCEPT ![it].type = IF @ = "CROSS_PRODUCT" THEN "INNER" ELSE @]
      /\ node \in [Node -> Label]
  BY <1>2 DEF InsertInJoin, TypeOK
<1>4. /\ node' \in [Node -> Label]
      /\ \A n \in Node : node'[n].node_case = node[n].node_case
      /\ \A n \in Node : n # it => node'[n] = node[n]
  BY <1>2, <1>3, ZenonT(30) DEF Label, JoinType
<1>5. AddsTo(it)
  BY <1>2, <1>4 DEF AddsTo, InsertInJoin, NextConjunct
<1> QED
  BY <1>1, <1>2, <1>5, AddPredicateInv

(* The conjunct goes to the selection above the lowest node *)
LEMMA InsertInSelectionInv == IInv /\ InsertInSelection => IInv'
<1> SUFFICES ASSUME IInv, InsertInSelection PROVE IInv'
  OBVIOUS
<1>1. pc = "descend"
  BY DEF InsertInSelection, AtLowest
<1>2. HasConjunct /\ it \in Node /\ Linked(it) /\ it # root /\ TypeOK /\ TreeShape
  BY <1>1, DescendFacts
<1>3. parent[1] \in Node /\ Linked(parent[1])
  BY <1>2, ParentSlot DEF parent
<1>4. AddsTo(parent[1])
  BY <1>2, <1>3 DEF AddsTo, InsertInSelection, NextConjunct, TypeOK
<1> QED
  BY <1>1, <1>2, <1>4, AddPredicateInv

(* A step that only moves the position in the loops *)
LEMMA MoveInv ==
    ASSUME IInv, Placing, pc' \in {"place", "descend", "done"}, TypeOK', LoopInv',
           UNCHANGED <<node, ch, pred, term, root, fresh, call, todo, selections, work, wi, pj>>
    PROVE  IInv'
<1>1. /\ TypeOK /\ TreeShape /\ Connected /\ HeapInv /\ WorkInv /\ ConjunctInv
      /\ Conserved /\ NotDuplicated
  BY DEF IInv
<1>2. Placing'
  BY DEF Placing
<1>3. (TreeShape /\ Connected /\ HeapInv /\ CollectInv)'
  BY <1>1 DEF TreeShape, Connected, HeapInv, Linked, CollectInv
<1>4. (WorkInv /\ ConjunctInv)'
  BY <1>1, <1>2 DEF WorkInv, ConjunctInv, Linked
<1>5. (Conserved /\ NotDuplicated)'
  BY <1>1, <1>2 DEF Conserved, NotDuplicated, Held, Linked, Processed
<1> QED
  BY <1>3, <1>4, <1>5 DEF IInv

(* Starting the search below the selection (2.1) *)
LEMMA FindLowestInv == IInv /\ FindLowest => IInv'
<1> SUFFICES ASSUME IInv, FindLowest PROVE IInv'
  OBVIOUS
<1>1. /\ HasConjunct /\ pc = "place" /\ wi \in DOMAIN work
      /\ it' = ch[selection][1] /\ pc' = "descend"
      /\ UNCHANGED <<node, ch, pred, term, root, fresh, call, todo, selections, work, wi, pj>>
  BY DEF FindLowest, HasConjunct, tree
<1>2. ch[selection][1] \in Node /\ Linked(ch[selection][1]) /\ ch[selection][1] # root
  BY <1>1, CurrentSelection
<1>3. TypeOK'
  BY <1>1, <1>2 DEF IInv, TypeOK
<1>4. LoopInv'
  <2>1. Linked(it)' /\ it' # root
    BY <1>1, <1>2 DEF Linked
  <2> QED
    BY <1>1, <2>1 DEF LoopInv, IInv, HasConjunct, Placing
<1> QED
  BY <1>1, <1>3, <1>4, MoveInv DEF Placing

(* The search goes on to a child *)
LEMMA DescendInv == IInv /\ Descend => IInv'
<1> SUFFICES ASSUME IInv, Descend PROVE IInv'
  OBVIOUS
<1>1. /\ pc = "descend" /\ pc' = pc
      /\ UNCHANGED <<node, ch, pred, term, root, fresh, call, todo, selections, work, wi, pj>>
  BY DEF Descend, tree
<1>2. HasConjunct /\ it \in Node /\ Linked(it) /\ it # root /\ TypeOK /\ TreeShape
  BY <1>1, DescendFacts
<1>3. PICK i \in DOMAIN ch[it] : it' = ch[it][i]
  BY DEF Descend
<1>4. it' \in Node /\ it' \in Children(ch, it)
  BY <1>2, <1>3 DEF TypeOK, Children
<1>5. it' # root /\ InTree(ch, root, it')
  BY <1>2, <1>4 DEF TreeShape, IsTree, InTree
<1>6. TypeOK'
  BY <1>1, <1>2, <1>4 DEF TypeOK
<1>7. LoopInv'
  <2>1. Linked(it)' /\ it' # root
    BY <1>1, <1>5 DEF Linked
  <2> QED
    BY <1>1, <1>2, <2>1 DEF LoopInv, IInv, HasConjunct, Placing
<1> QED
  BY <1>1, <1>6, <1>7, MoveInv DEF Placing

(* The end of the pass *)
LEMMA ReturnInv == IInv /\ Return => IInv'
<1> SUFFICES ASSUME IInv, Return PROVE IInv'
  OBVIOUS
<1>1. /\ pc = "place" /\ pc' = "done" /\ wi \notin DOMAIN work
      /\ UNCHANGED <<node, ch, pred, term, root, fresh, call, todo, selections, work, wi, pj, it>>
  BY DEF Return, tree
<1>2. TypeOK'
  BY <1>1 DEF IInv, TypeOK
<1>3. LoopInv'
  BY <1>1 DEF IInv, LoopInv, Placing
<1> QED
  BY <1>1, <1>2, <1>3, MoveInv DEF Placing

(* Stepping over a selection whose conjuncts are all placed processes nothing new *)
LEMMA SelectionProcessed ==
    ASSUME TypeOK, SelectionDone, NextSelection, work' = work,
           NEW i \in DOMAIN work, NEW j \in DOMAIN work[i].preds
    PROVE  Processed(i, j)' <=> Processed(i, j)
<1>1. /\ wi \in DOMAIN work /\ pj \notin DOMAIN work[wi].preds /\ wi' = wi + 1 /\ pj' = 1
      /\ wi \in Nat /\ pj \in Nat \ {0}
  BY DEF SelectionDone, NextSelection, TypeOK
<1>2. i \in Nat /\ work[i].preds \in Seq(DOMAIN term) /\ work[wi].preds \in Seq(DOMAIN term)
  BY <1>1, WorkTypes
<1>3. j \in Nat \ {0}
  BY <1>2
<1>4. i = wi => j < pj
  <2> SUFFICES ASSUME i = wi PROVE j < pj
    OBVIOUS
  <2>1. PICK len \in Nat : DOMAIN work[wi].preds = 1 .. len
    BY <1>2
  <2> QED
    BY <1>1, <1>3, <2>1
<1> QED
  BY <1>1, <1>2, <1>3, <1>4 DEF Processed

(* A selection that got a conjunct back stays *)
LEMMA KeepSelectionInv == IInv /\ KeepSelection => IInv'
<1> SUFFICES ASSUME IInv, KeepSelection PROVE IInv'
  OBVIOUS
<1>1. /\ TypeOK /\ TreeShape /\ Connected /\ HeapInv /\ WorkInv /\ ConjunctInv /\ LoopInv
      /\ Conserved /\ NotDuplicated
  BY DEF IInv
<1>2. /\ SelectionDone /\ NextSelection /\ pred[work[wi].sel] # <<>>
      /\ pc = "place" /\ wi \in DOMAIN work /\ wi' = wi + 1 /\ pj' = 1
      /\ UNCHANGED <<node, ch, pred, term, root, fresh, pc, call, todo, selections, work, it>>
  BY DEF KeepSelection, SelectionDone, NextSelection, tree, selection
<1>3. Placing /\ Placing'
  BY <1>2 DEF Placing
<1>4. wi \in Nat \ {0} /\ \A i \in DOMAIN work : i \in Nat
  BY <1>1, WorkTypes DEF TypeOK
<1>5. TypeOK'
  BY <1>1, <1>2, <1>4 DEF TypeOK
<1>6. (TreeShape /\ Connected /\ HeapInv /\ CollectInv /\ ConjunctInv)'
  BY <1>1, <1>2, <1>3 DEF TreeShape, Connected, HeapInv, CollectInv, ConjunctInv, Linked
<1>7. WorkInv'
  BY <1>1, <1>2, <1>3, <1>4 DEF WorkInv, Linked
<1>8. LoopInv'
  BY <1>1, <1>2, <1>4, WorkTypes DEF LoopInv
<1>9. (Conserved /\ NotDuplicated)'
  <2>1. \A i \in DOMAIN work : \A j \in DOMAIN work[i].preds :
           Processed(i, j)' <=> Processed(i, j)
    BY <1>1, <1>2, SelectionProcessed
  <2>2. \A d : Held(d)' <=> Held(d)
    BY <1>2 DEF Held, Linked
  <2>3. Conserved'
    BY <1>1, <1>2, <1>3, <2>1, <2>2 DEF Conserved
  <2>4. NotDuplicated'
    BY <1>1, <1>2, <1>3, <2>1, <2>2 DEF NotDuplicated
  <2> QED
    BY <2>3, <2>4
<1> QED
  BY <1>5, <1>6, <1>7, <1>8, <1>9 DEF IInv

(* After a call every selection holds a flat list: the next call can split it *)
LEMMA SecondCallInv == IInv /\ SecondCall => IInv'
<1> SUFFICES ASSUME IInv, SecondCall PROVE IInv'
  OBVIOUS
<1>1. TypeOK /\ TreeShape /\ Connected /\ HeapInv /\ ConjunctInv /\ NotDuplicated
  BY DEF IInv
<1>2. /\ pc = "done" /\ pc' = "collect" /\ call' = 2 /\ todo' = <<root>> /\ selections' = <<>>
      /\ UNCHANGED <<node, ch, pred, term, root, fresh, work, wi, pj, it>>
  BY DEF SecondCall, tree
<1>3. ~Placing' /\ Placing
  BY <1>2 DEF Placing
<1>4. TypeOK'
  BY <1>1, <1>2 DEF TypeOK
<1>5. (TreeShape /\ Connected /\ HeapInv)'
  BY <1>1, <1>2 DEF TreeShape, Connected, HeapInv, Linked
<1>6. Visited({})'
  BY <1>2 DEF Visited, Linked, InTree
<1>7. Splits(node, pred, term)
  <2>1. \A n \in Node : node[n].node_case = "SELECTION" => Split(term, pred, n) = pred[n]
    BY <1>1, <1>3, SplitAtoms DEF ConjunctInv, Split
  <2>2. \A n \in Node : pred[n] \in Seq(DOMAIN term)
    BY <1>1 DEF TypeOK
  <2> QED
    BY <1>1, <1>3, <2>1, <2>2 DEF Splits, ConjunctInv, NotDuplicated
<1>8. CollectInv'
  BY <1>2, <1>6, <1>7 DEF CollectInv
<1>9. (WorkInv /\ ConjunctInv /\ LoopInv /\ Conserved /\ NotDuplicated)'
  BY <1>1, <1>2, <1>3 DEF WorkInv, ConjunctInv, LoopInv, Conserved, NotDuplicated
<1> QED
  BY <1>4, <1>5, <1>8, <1>9 DEF IInv

-----------------------------------------------------------------------------
(***************************************************************************)
(* Cutting selection s out: slot i of p, which held s, gets the child c.   *)
(***************************************************************************)
CutsOut(s, p, i, c) ==
    /\ s \in Node /\ s # root /\ Linked(s)
    /\ p \in Node /\ i \in DOMAIN ch[p] /\ ch[p][i] = s
    /\ DOMAIN ch[s] = {1} /\ ch[s][1] = c /\ c \in Node
    /\ ch' = [ch EXCEPT ![p][i] = c, ![s] = <<>>]
    /\ root' = root /\ node' = node

(* The slots of the tree afterwards *)
LEMMA CutSlots ==
    ASSUME TypeOK, TreeShape, Connected, NEW s, NEW p, NEW i, NEW c, CutsOut(s, p, i, c)
    PROVE  /\ p # s /\ c # s /\ c # root
           /\ ch' \in [Node -> Seq(Node)]
           /\ ch'[s] = <<>>
           /\ \A q \in Node : q # s => DOMAIN ch'[q] = DOMAIN ch[q] /\ Len(ch'[q]) = Len(ch[q])
           /\ \A q \in Node : q # s => \A j \in DOMAIN ch[q] :
                 /\ ch'[q][j] = IF q = p /\ j = i THEN c ELSE ch[q][j]
                 /\ ch'[q][j] # s
           /\ \A n \in Node : Linked(n)' <=> Linked(n) /\ n # s
<1>1. /\ s \in Node /\ s # root /\ Linked(s)
      /\ p \in Node /\ i \in DOMAIN ch[p] /\ ch[p][i] = s
      /\ DOMAIN ch[s] = {1} /\ ch[s][1] = c /\ c \in Node
      /\ ch' = [ch EXCEPT ![p][i] = c, ![s] = <<>>]
      /\ root' = root /\ node' = node
      /\ ch \in [Node -> Seq(Node)] /\ root \in Node
  BY DEF CutsOut, TypeOK
<1>2. /\ \A q, r \in Node : \A j \in DOMAIN ch[q], k \in DOMAIN ch[r] :
            ch[q][j] = ch[r][k] => q = r /\ j = k
      /\ \A q \in Node : root \notin Children(ch, q)
  BY DEF TreeShape, IsTree
\* s is not its own parent: the rest of the tree would not reach it
<1>3. p # s
  <2> SUFFICES ASSUME p = s PROVE FALSE
    OBVIOUS
  <2>1. PICK All : All = {n \in Node : InTree(ch, root, n)}
    OBVIOUS
  <2>2. \A n \in All \ {s} : Children(ch, n) \subseteq All \ {s}
    BY <1>1, <1>2, <2>1 DEF Children, InTree
  <2>3. root \in All \ {s} /\ All \ {s} \in SUBSET All
    BY <1>1, <2>1 DEF InTree
  <2>4. All \ {s} = All
    BY <2>1, <2>2, <2>3 DEF Connected, IsConnected
  <2> QED
    BY <1>1, <2>1, <2>4 DEF Linked
<1>4. c # s
  BY <1>1, <1>2, <1>3
<1>5. c # root
  BY <1>1, <1>2 DEF Children
<1>6. PICK new \in Seq(Node) :
         /\ new = [ch[p] EXCEPT ![i] = c]
         /\ DOMAIN new = DOMAIN ch[p] /\ Len(new) = Len(ch[p])
         /\ \A j \in DOMAIN ch[p] : new[j] = IF j = i THEN c ELSE ch[p][j]
  <2>1. ch[p] \in Seq(Node) /\ DOMAIN ch[p] = 1 .. Len(ch[p])
    BY <1>1, LenProperties
  <2>2. /\ [ch[p] EXCEPT ![i] = c] \in Seq(Node)
        /\ Len([ch[p] EXCEPT ![i] = c]) = Len(ch[p])
        /\ \A j \in 1 .. Len(ch[p]) : [ch[p] EXCEPT ![i] = c][j] = IF j = i THEN c ELSE ch[p][j]
    BY <1>1, <2>1, ExceptSeq
  <2> QED
    BY <2>1, <2>2
<1>7. ch' = [ch EXCEPT ![p] = new, ![s] = <<>>]
  BY <1>1, <1>6
<1>8. /\ ch'[s] = <<>> /\ ch'[p] = new
      /\ \A q \in Node : q # s /\ q # p => ch'[q] = ch[q]
  BY <1>1, <1>3, <1>7
<1>9. ch' \in [Node -> Seq(Node)]
  <2>1. <<>> \in Seq(Node) /\ new \in Seq(Node) /\ ch \in [Node -> Seq(Node)]
    BY <1>1, EmptySeq
  <2> QED
    BY <1>7, <2>1
<1>10. \A q \in Node : q # s => DOMAIN ch'[q] = DOMAIN ch[q] /\ Len(ch'[q]) = Len(ch[q])
  BY <1>6, <1>8
<1>11. ASSUME NEW q \in Node, q # s, NEW j \in DOMAIN ch[q]
       PROVE  /\ ch'[q][j] = IF q = p /\ j = i THEN c ELSE ch[q][j]
              /\ ch'[q][j] # s
  <2>1. ch'[q][j] = IF q = p /\ j = i THEN c ELSE ch[q][j]
    BY <1>6, <1>8, <1>11
  <2>2. p \in Node /\ i \in DOMAIN ch[p] /\ ch[p][i] = s
    BY <1>1
  <2>3. ch[q][j] = s => q = p /\ j = i
    BY <1>2, <2>2
  <2> QED
    BY <1>4, <2>1, <2>3
<1>12. ASSUME NEW n \in Node, Linked(n)'
       PROVE  Linked(n) /\ n # s
  <2>1. CASE n = root
    BY <1>1, <2>1 DEF Linked, InTree
  <2>2. CASE n # root
    <3>1. PICK q \in Node : n \in Children(ch', q)
      BY <1>1, <1>12, <2>2 DEF Linked, InTree
    <3>2. PICK j \in DOMAIN ch'[q] : n = ch'[q][j]
      BY <3>1 DEF Children
    <3>3. q # s
      BY <1>8, <3>2
    <3>4. j \in DOMAIN ch[q] /\ n # s
      BY <1>10, <1>11, <3>2, <3>3
    <3>5. n = c \/ n = ch[q][j]
      BY <1>11, <3>2, <3>3, <3>4
    <3>6. c \in Children(ch, s) /\ ch[q][j] \in Children(ch, q)
      BY <1>1, <3>4 DEF Children
    <3> QED
      BY <1>1, <3>4, <3>5, <3>6 DEF Linked, InTree
  <2> QED
    BY <2>1, <2>2
<1>13. ASSUME NEW n \in Node, Linked(n), n # s
       PROVE  Linked(n)'
  <2>1. CASE n = root
    BY <1>1, <2>1 DEF Linked, InTree
  <2>2. CASE n # root
    <3>1. PICK q \in Node : n \in Children(ch, q)
      BY <1>13, <2>2 DEF Linked, InTree
    <3>2. PICK j \in DOMAIN ch[q] : n = ch[q][j]
      BY <3>1 DEF Children
    <3>3. CASE q = s
      <4>1. n = ch'[p][i] /\ i \in DOMAIN ch'[p]
        BY <1>1, <1>3, <1>10, <1>11, <3>2, <3>3
      <4> QED
        BY <1>1, <4>1 DEF Linked, InTree, Children
    <3>4. CASE q # s
      <4>1. n = ch'[q][j] /\ j \in DOMAIN ch'[q]
        BY <1>1, <1>10, <1>11, <1>13, <3>2, <3>4
      <4> QED
        BY <4>1 DEF Linked, InTree, Children
    <3> QED
      BY <3>3, <3>4
  <2> QED
    BY <2>1, <2>2
<1> QED
  BY <1>3, <1>4, <1>5, <1>8, <1>9, <1>10, <1>11, <1>12, <1>13

(* Cutting a selection out leaves a tree, in one piece *)
LEMMA CutTree ==
    ASSUME TypeOK, TreeShape, Connected, NEW s, NEW p, NEW i, NEW c, CutsOut(s, p, i, c)
    PROVE  TreeShape' /\ Connected'
<1>1. /\ s \in Node /\ s # root /\ Linked(s)
      /\ p \in Node /\ i \in DOMAIN ch[p] /\ ch[p][i] = s
      /\ DOMAIN ch[s] = {1} /\ ch[s][1] = c /\ c \in Node
      /\ root' = root /\ node' = node
      /\ ch \in [Node -> Seq(Node)] /\ root \in Node
  BY DEF CutsOut, TypeOK
<1>2. /\ \A q, r \in Node : \A j \in DOMAIN ch[q], k \in DOMAIN ch[r] :
            ch[q][j] = ch[r][k] => q = r /\ j = k
      /\ \A q \in Node : root \notin Children(ch, q)
      /\ \A n \in Node : InTree(ch, root, n) =>
            node[n].node_case # "FREE" /\ is_full(node, ch, n)
      /\ \A n \in Node : ch[n] # <<>> => InTree(ch, root, n)
  BY DEF TreeShape, IsTree
<1>3. /\ p # s /\ c # s /\ c # root
      /\ ch' \in [Node -> Seq(Node)]
      /\ ch'[s] = <<>>
      /\ \A q \in Node : q # s => DOMAIN ch'[q] = DOMAIN ch[q] /\ Len(ch'[q]) = Len(ch[q])
      /\ \A q \in Node : q # s => \A j \in DOMAIN ch[q] :
            /\ ch'[q][j] = IF q = p /\ j = i THEN c ELSE ch[q][j]
            /\ ch'[q][j] # s
      /\ \A n \in Node : Linked(n)' <=> Linked(n) /\ n # s
  BY CutSlots
<1>4. \A n \in Node : InTree(ch', root', n) <=> InTree(ch, root, n) /\ n # s
  BY <1>3 DEF Linked
<1>5. TreeShape'
  <2>1. \A q \in Node : \A j \in DOMAIN ch'[q] : q # s /\ j \in DOMAIN ch[q]
    BY <1>3
  <2>2. ASSUME NEW q \in Node, NEW r \in Node, NEW j \in DOMAIN ch'[q], NEW k \in DOMAIN ch'[r],
               ch'[q][j] = ch'[r][k]
        PROVE  q = r /\ j = k
    <3>1. q # s /\ r # s /\ j \in DOMAIN ch[q] /\ k \in DOMAIN ch[r]
      BY <2>1
    <3>2. /\ ch'[q][j] = IF q = p /\ j = i THEN c ELSE ch[q][j]
          /\ ch'[r][k] = IF r = p /\ k = i THEN c ELSE ch[r][k]
      BY <1>3, <3>1
    <3>3. s \in Node /\ 1 \in DOMAIN ch[s] /\ ch[s][1] = c
      BY <1>1
    <3>4. ch[q][j] # c /\ ch[r][k] # c
      BY <1>2, <3>1, <3>3
    <3>5. ch[q][j] = ch[r][k] => q = r /\ j = k
      BY <1>2, <3>1
    <3> QED
      BY <2>2, <3>2, <3>4, <3>5
  <2>3. \A q \in Node : root' \notin Children(ch', q)
    BY <1>1, <1>2, <1>3, <2>1 DEF Children
  <2>4. \A n \in Node : InTree(ch', root', n) =>
            node'[n].node_case # "FREE" /\ is_full(node', ch', n)
    BY <1>1, <1>2, <1>3, <1>4 DEF is_full
  <2>5. \A n \in Node : ch'[n] # <<>> => InTree(ch', root', n)
    <3> SUFFICES ASSUME NEW n \in Node, ch'[n] # <<>> PROVE InTree(ch', root', n)
      OBVIOUS
    <3>1. n # s /\ Len(ch'[n]) = Len(ch[n]) /\ ch[n] \in Seq(Node) /\ ch'[n] \in Seq(Node)
      BY <1>1, <1>3
    <3>2. ch[n] # <<>>
      BY <3>1, EmptySeq
    <3> QED
      BY <1>2, <1>4, <3>1, <3>2
  <2> QED
    BY <2>2, <2>3, <2>4, <2>5 DEF TreeShape, IsTree
<1>6. Connected'
  <2>1. PICK All \in SUBSET Node : All = {n \in Node : InTree(ch, root, n)}
    OBVIOUS
  <2>2. {n \in Node : InTree(ch', root', n)} = All \ {s}
    BY <1>4, <2>1
  <2>3. s \in All /\ c \in All
    BY <1>1, <2>1 DEF Linked, InTree, Children
  <2>4. \A T \in SUBSET All : root \in T /\ (\A n \in T : Children(ch, n) \subseteq T) => T = All
    BY <2>1 DEF Connected, IsConnected
  <2>5. ASSUME NEW S \in SUBSET (All \ {s}), root \in S,
               \A n \in S : Children(ch', n) \subseteq S
        PROVE  S = All \ {s}
    <3>1. \A n \in S : \A j \in DOMAIN ch[n] : ch'[n][j] \in S
      BY <1>3, <2>5 DEF Children
    <3>2. \A n \in S : \A j \in DOMAIN ch[n] : ch[n][j] \in S \/ (n = p /\ j = i)
      BY <1>3, <2>5, <3>1
    <3>3. CASE c \in S
      <4>1. PICK T \in SUBSET All : T = S \cup {s}
        BY <2>3, <2>5
      <4>2. \A n \in T : Children(ch, n) \subseteq T
        <5>1. ASSUME NEW n \in S, NEW j \in DOMAIN ch[n] PROVE ch[n][j] \in T
          BY <1>1, <3>2, <4>1
        <5>2. \A j \in DOMAIN ch[s] : ch[s][j] \in T
          BY <1>1, <3>3, <4>1
        <5> QED
          BY <4>1, <5>1, <5>2 DEF Children
      <4>3. T = All
        BY <2>4, <2>5, <4>1, <4>2
      <4> QED
        BY <2>5, <4>1, <4>3
    <3>4. CASE c \notin S
      <4>1. p \notin S
        BY <1>1, <1>3, <3>1, <3>4
      <4>2. \A n \in S : Children(ch, n) \subseteq S
        BY <3>2, <4>1 DEF Children
      <4>3. S = All
        BY <2>4, <2>5, <4>2
      <4> QED
        BY <2>3, <4>3
    <3> QED
      BY <3>3, <3>4
  <2>6. IsConnected(ch', root')
    BY <1>1, <2>2, <2>5 DEF IsConnected
  <2> QED
    BY <2>6 DEF Connected
<1> QED
  BY <1>5, <1>6

(* A selection without conjuncts is taken out of the tree (2.3) *)
LEMMA RemoveSelectionInv == IInv /\ RemoveSelection => IInv'
<1> SUFFICES ASSUME IInv, RemoveSelection PROVE IInv'
  OBVIOUS
<1>1. /\ TypeOK /\ TreeShape /\ Connected /\ HeapInv /\ WorkInv /\ ConjunctInv /\ LoopInv
      /\ Conserved /\ NotDuplicated
  BY DEF IInv
<1>2. /\ SelectionDone /\ NextSelection /\ pc = "place" /\ wi \in DOMAIN work
      /\ wi' = wi + 1 /\ pj' = 1
      /\ UNCHANGED <<node, pred, term, root, fresh, pc, call, todo, selections, work, it>>
  BY DEF RemoveSelection, SelectionDone, NextSelection
<1>3. PICK s : s = selection
  OBVIOUS
<1>4. /\ s \in Node /\ Linked(s) /\ s # root /\ DOMAIN ch[s] = {1} /\ ch[s][1] \in Node
      /\ s = work[wi].sel /\ pred[s] = <<>>
  BY <1>2, <1>3, CurrentSelection DEF selection, RemoveSelection
<1>5. PICK p, i : /\ p = get_node_parent(ch, s)[1] /\ i = get_node_parent(ch, s)[2]
                  /\ p \in Node /\ i \in DOMAIN ch[p] /\ ch[p][i] = s
  BY <1>1, <1>4, ParentSlot
<1>6. PICK c : c = ch[s][1]
  OBVIOUS
<1>7. CutsOut(s, p, i, c)
  <2>1. ch' = [ch EXCEPT ![p][i] = c, ![s] = <<>>]
    BY <1>3, <1>5, <1>6 DEF RemoveSelection
  <2> QED
    BY <1>2, <1>4, <1>5, <1>6, <2>1 DEF CutsOut
<1>8. /\ p # s
      /\ ch' \in [Node -> Seq(Node)]
      /\ ch'[s] = <<>>
      /\ \A q \in Node : q # s => DOMAIN ch'[q] = DOMAIN ch[q] /\ Len(ch'[q]) = Len(ch[q])
      /\ \A n \in Node : Linked(n)' <=> Linked(n) /\ n # s
  BY <1>1, <1>7, CutSlots
<1>9. Placing /\ Placing'
  BY <1>2 DEF Placing
<1>10. wi \in Nat \ {0} /\ \A k \in DOMAIN work : k \in Nat /\ work[k].sel \in Node
  BY <1>1, WorkTypes DEF TypeOK
<1>11. TypeOK'
  <2>1. ch' \in [Node -> Seq(Node)] /\ wi' \in Nat \ {0} /\ pj' \in Nat \ {0}
    BY <1>2, <1>8, <1>10
  <2> QED
    BY <1>1, <1>2, <2>1 DEF TypeOK
<1>12. TreeShape' /\ Connected'
  BY <1>1, <1>7, CutTree
<1>13. HeapInv'
  <2>1. Unused(node', ch', pred', fresh')
    <3> SUFFICES ASSUME NEW n \in Node, n >= fresh PROVE ch'[n] = <<>>
      BY <1>1, <1>2 DEF HeapInv, Unused
    <3>1. ch[n] = <<>>
      BY <1>1 DEF HeapInv, Unused
    <3>2. CASE n # s
      <4>1. ch'[n] \in Seq(Node) /\ Len(ch'[n]) = 0
        BY <1>8, <3>1, <3>2, EmptySeq
      <4> QED
        BY <4>1, EmptySeq
    <3> QED
      BY <1>8, <3>2
  <2> QED
    BY <1>1, <1>2, <1>4, <1>8, <2>1 DEF HeapInv
<1>14. CollectInv' /\ ConjunctInv'
  BY <1>1, <1>2, <1>9 DEF CollectInv, ConjunctInv
<1>15. WorkInv'
  <2>1. \A k \in DOMAIN work : k >= wi' => /\ k >= wi /\ work[k].sel # s
    BY <1>1, <1>2, <1>4, <1>9, <1>10 DEF WorkInv
  <2>2. \A k \in DOMAIN work : k >= wi' =>
           Linked(work[k].sel)' /\ node[work[k].sel].node_case = "SELECTION"
    <3> SUFFICES ASSUME NEW k \in DOMAIN work, k >= wi'
                 PROVE  Linked(work[k].sel)' /\ node[work[k].sel].node_case = "SELECTION"
      OBVIOUS
    <3>1. Linked(work[k].sel) /\ node[work[k].sel].node_case = "SELECTION"
      BY <1>1, <1>9, <2>1 DEF WorkInv
    <3> QED
      BY <1>2, <1>8, <1>10, <2>1, <3>1
  <2>3. \A n \in Node : Linked(n)' /\ node[n].node_case = "SELECTION" /\ pred[n] = <<>> =>
           \E k \in DOMAIN work : k >= wi' /\ work[k].sel = n
    <3> SUFFICES ASSUME NEW n \in Node, Linked(n)', node[n].node_case = "SELECTION",
                        pred[n] = <<>>
                 PROVE  \E k \in DOMAIN work : k >= wi' /\ work[k].sel = n
      OBVIOUS
    <3>1. Linked(n) /\ n # s
      BY <1>8
    <3>2. PICK k \in DOMAIN work : k >= wi /\ work[k].sel = n
      BY <1>1, <1>9, <3>1 DEF WorkInv
    <3>3. k >= wi'
      BY <1>2, <1>4, <1>10, <3>1, <3>2
    <3> QED
      BY <3>2, <3>3
  <2> QED
    BY <1>1, <1>2, <1>9, <2>2, <2>3 DEF WorkInv
<1>16. LoopInv'
  BY <1>1, <1>2, <1>10, WorkTypes DEF LoopInv
<1>17. \A k \in DOMAIN work : \A j \in DOMAIN work[k].preds :
           Processed(k, j)' <=> Processed(k, j)
  BY <1>1, <1>2, SelectionProcessed
<1>18. \A d : Held(d)' <=> Held(d)
  BY <1>2, <1>4, <1>8 DEF Held
<1>19. Conserved'
  BY <1>1, <1>2, <1>9, <1>17, <1>18 DEF Conserved
<1>20. NotDuplicated'
  BY <1>1, <1>2, <1>9, <1>17, <1>18 DEF NotDuplicated
<1> QED
  BY <1>11, <1>12, <1>13, <1>14, <1>15, <1>16, <1>19, <1>20 DEF IInv

-----------------------------------------------------------------------------
(***************************************************************************)
(* Putting a new selection f in: slot i of p, which held x, gets f.        *)
(***************************************************************************)
PutsIn(f, p, i, x) ==
    /\ f \in Node /\ x \in Node /\ x # root
    /\ ch[f] = <<>> /\ node[f].node_case = "FREE"
    /\ p \in Node /\ i \in DOMAIN ch[p] /\ ch[p][i] = x
    /\ ch' = [ch EXCEPT ![f] = <<x>>, ![p][i] = f]
    /\ node' = [node EXCEPT ![f] = NewNode("SELECTION")]
    /\ root' = root

(* The slots of the tree when f has been put in above x *)
LEMMA PutSlots ==
    ASSUME TypeOK, TreeShape, NEW f, NEW p, NEW i, NEW x, PutsIn(f, p, i, x)
    PROVE  /\ f # p /\ f # x /\ f # root /\ ~Linked(f) /\ Linked(p)
           /\ \A q \in Node : \A j \in DOMAIN ch[q] : ch[q][j] # f
           /\ ch' \in [Node -> Seq(Node)]
           /\ ch'[f] = <<x>>
           /\ \A q \in Node : q # f => DOMAIN ch'[q] = DOMAIN ch[q] /\ Len(ch'[q]) = Len(ch[q])
           /\ \A q \in Node : q # f => \A j \in DOMAIN ch[q] :
                 ch'[q][j] = IF q = p /\ j = i THEN f ELSE ch[q][j]
           /\ \A n \in Node : Linked(n)' <=> Linked(n) \/ n = f
<1>1. /\ f \in Node /\ x \in Node /\ x # root
      /\ ch[f] = <<>> /\ node[f].node_case = "FREE"
      /\ p \in Node /\ i \in DOMAIN ch[p] /\ ch[p][i] = x
      /\ ch' = [ch EXCEPT ![f] = <<x>>, ![p][i] = f]
      /\ root' = root
      /\ ch \in [Node -> Seq(Node)] /\ root \in Node
  BY DEF PutsIn, TypeOK
<1>2. ~Linked(f)
  BY <1>1 DEF TreeShape, IsTree, Linked
<1>3. \A q \in Node : \A j \in DOMAIN ch[q] : ch[q][j] # f
  BY <1>2 DEF Linked, InTree, Children
<1>4. f # p /\ f # x /\ f # root
  <2>1. f # p
    BY <1>1
  <2>2. f # x
    BY <1>1, <1>3
  <2>3. f # root
    BY <1>2 DEF Linked, InTree
  <2> QED
    BY <2>1, <2>2, <2>3
<1>5. Linked(p)
  <2>1. ch[p] # <<>>
    BY <1>1
  <2> QED
    BY <1>1, <2>1 DEF TreeShape, IsTree, Linked
<1>6. PICK new \in Seq(Node) :
         /\ new = [ch[p] EXCEPT ![i] = f]
         /\ DOMAIN new = DOMAIN ch[p] /\ Len(new) = Len(ch[p])
         /\ \A j \in DOMAIN ch[p] : new[j] = IF j = i THEN f ELSE ch[p][j]
  <2>1. ch[p] \in Seq(Node) /\ DOMAIN ch[p] = 1 .. Len(ch[p])
    BY <1>1, LenProperties
  <2>2. /\ [ch[p] EXCEPT ![i] = f] \in Seq(Node)
        /\ Len([ch[p] EXCEPT ![i] = f]) = Len(ch[p])
        /\ \A j \in 1 .. Len(ch[p]) : [ch[p] EXCEPT ![i] = f][j] = IF j = i THEN f ELSE ch[p][j]
    BY <1>1, <2>1, ExceptSeq
  <2> QED
    BY <2>1, <2>2
<1>7. ch' = [ch EXCEPT ![f] = <<x>>, ![p] = new]
  BY <1>1, <1>4, <1>6
<1>8. /\ ch'[f] = <<x>> /\ ch'[p] = new
      /\ \A q \in Node : q # f /\ q # p => ch'[q] = ch[q]
  BY <1>1, <1>4, <1>7
<1>9. ch' \in [Node -> Seq(Node)]
  <2>1. <<x>> \in Seq(Node) /\ new \in Seq(Node) /\ ch \in [Node -> Seq(Node)]
    BY <1>1
  <2> QED
    BY <1>7, <2>1
<1>10. \A q \in Node : q # f => DOMAIN ch'[q] = DOMAIN ch[q] /\ Len(ch'[q]) = Len(ch[q])
  BY <1>6, <1>8
<1>11. \A q \in Node : q # f => \A j \in DOMAIN ch[q] :
          ch'[q][j] = IF q = p /\ j = i THEN f ELSE ch[q][j]
  BY <1>6, <1>8
<1>12. DOMAIN ch'[f] = {1} /\ ch'[f][1] = x
  BY <1>8
<1>13. ASSUME NEW n \in Node, Linked(n)'
       PROVE  Linked(n) \/ n = f
  <2>1. CASE n = root
    BY <2>1 DEF Linked, InTree
  <2>2. CASE n # root
    <3>1. PICK q \in Node : n \in Children(ch', q)
      BY <1>1, <1>13, <2>2 DEF Linked, InTree
    <3>2. PICK j \in DOMAIN ch'[q] : n = ch'[q][j]
      BY <3>1 DEF Children
    <3>3. CASE q = f
      <4>1. n = x /\ x \in Children(ch, p)
        BY <1>1, <1>12, <3>2, <3>3 DEF Children
      <4> QED
        BY <1>1, <4>1 DEF Linked, InTree
    <3>4. CASE q # f
      <4>1. j \in DOMAIN ch[q] /\ (n = f \/ n = ch[q][j])
        BY <1>10, <1>11, <3>2, <3>4
      <4>2. ch[q][j] \in Children(ch, q)
        BY <4>1 DEF Children
      <4> QED
        BY <4>1, <4>2 DEF Linked, InTree
    <3> QED
      BY <3>3, <3>4
  <2> QED
    BY <2>1, <2>2
<1>14. Linked(f)'
  <2>1. f \in Children(ch', p)
    BY <1>1, <1>4, <1>10, <1>11 DEF Children
  <2> QED
    BY <1>1, <2>1 DEF Linked, InTree
<1>15. ASSUME NEW n \in Node, Linked(n)
       PROVE  Linked(n)'
  <2>1. CASE n = root
    BY <1>1, <2>1 DEF Linked, InTree
  <2>2. CASE n # root
    <3>1. PICK q \in Node : n \in Children(ch, q)
      BY <1>15, <2>2 DEF Linked, InTree
    <3>2. PICK j \in DOMAIN ch[q] : n = ch[q][j]
      BY <3>1 DEF Children
    <3>3. q # f
      BY <1>1, <3>2
    <3>4. CASE q = p /\ j = i
      <4>1. n \in Children(ch', f)
        BY <1>1, <1>12, <3>2, <3>4 DEF Children
      <4> QED
        BY <1>1, <4>1 DEF Linked, InTree
    <3>5. CASE ~(q = p /\ j = i)
      <4>1. n = ch'[q][j] /\ j \in DOMAIN ch'[q]
        BY <1>10, <1>11, <3>2, <3>3, <3>5
      <4>2. n \in Children(ch', q)
        BY <4>1 DEF Children
      <4> QED
        BY <4>2 DEF Linked, InTree
    <3> QED
      BY <3>4, <3>5
  <2> QED
    BY <2>1, <2>2
<1> QED
  BY <1>2, <1>3, <1>4, <1>5, <1>8, <1>9, <1>10, <1>11, <1>13, <1>14, <1>15

(* Putting a selection in leaves a tree, in one piece *)
LEMMA PutTree ==
    ASSUME TypeOK, TreeShape, Connected, NEW f, NEW p, NEW i, NEW x, PutsIn(f, p, i, x)
    PROVE  TreeShape' /\ Connected'
<1>1. /\ f \in Node /\ x \in Node /\ x # root
      /\ p \in Node /\ i \in DOMAIN ch[p] /\ ch[p][i] = x
      /\ node' = [node EXCEPT ![f] = NewNode("SELECTION")]
      /\ root' = root
      /\ node \in [Node -> Label] /\ ch \in [Node -> Seq(Node)] /\ root \in Node
  BY DEF PutsIn, TypeOK
<1>2. /\ \A q, r \in Node : \A j \in DOMAIN ch[q], k \in DOMAIN ch[r] :
            ch[q][j] = ch[r][k] => q = r /\ j = k
      /\ \A q \in Node : root \notin Children(ch, q)
      /\ \A n \in Node : InTree(ch, root, n) =>
            node[n].node_case # "FREE" /\ is_full(node, ch, n)
      /\ \A n \in Node : ch[n] # <<>> => InTree(ch, root, n)
  BY DEF TreeShape, IsTree
<1>3. /\ f # p /\ f # x /\ f # root /\ ~Linked(f) /\ Linked(p)
      /\ \A q \in Node : \A j \in DOMAIN ch[q] : ch[q][j] # f
      /\ ch' \in [Node -> Seq(Node)]
      /\ ch'[f] = <<x>>
      /\ \A q \in Node : q # f => DOMAIN ch'[q] = DOMAIN ch[q] /\ Len(ch'[q]) = Len(ch[q])
      /\ \A q \in Node : q # f => \A j \in DOMAIN ch[q] :
            ch'[q][j] = IF q = p /\ j = i THEN f ELSE ch[q][j]
      /\ \A n \in Node : Linked(n)' <=> Linked(n) \/ n = f
  BY PutSlots
<1>4. DOMAIN ch'[f] = {1} /\ ch'[f][1] = x /\ Len(ch'[f]) = 1
  BY <1>3
<1>5. \A n \in Node : InTree(ch', root', n) <=> InTree(ch, root, n) \/ n = f
  BY <1>3 DEF Linked
<1>6. TreeShape'
  <2>1. \A q \in Node : \A j \in DOMAIN ch'[q] :
           \/ q = f /\ j = 1 /\ ch'[q][j] = x
           \/ q = p /\ j = i /\ ch'[q][j] = f
           \/ q # f /\ j \in DOMAIN ch[q] /\ ch'[q][j] = ch[q][j] /\ ch[q][j] # x
    <3> SUFFICES ASSUME NEW q \in Node, NEW j \in DOMAIN ch'[q]
                 PROVE  \/ q = f /\ j = 1 /\ ch'[q][j] = x
                        \/ q = p /\ j = i /\ ch'[q][j] = f
                        \/ q # f /\ j \in DOMAIN ch[q] /\ ch'[q][j] = ch[q][j] /\ ch[q][j] # x
      OBVIOUS
    <3>1. CASE q = f
      BY <1>4, <3>1
    <3>2. CASE q # f
      <4>1. j \in DOMAIN ch[q] /\ ch'[q][j] = IF q = p /\ j = i THEN f ELSE ch[q][j]
        BY <1>3, <3>2
      <4>2. ch[q][j] = x => q = p /\ j = i
        BY <1>1, <1>2, <4>1
      <4> QED
        BY <3>2, <4>1, <4>2
    <3> QED
      BY <3>1, <3>2
  <2>2. \A q \in Node : \A j \in DOMAIN ch[q] : ch[q][j] # f
    BY <1>3
  <2>3. ASSUME NEW q \in Node, NEW r \in Node, NEW j \in DOMAIN ch'[q], NEW k \in DOMAIN ch'[r],
               ch'[q][j] = ch'[r][k]
        PROVE  q = r /\ j = k
    <3>1. f # x
      BY <1>3
    <3>2. CASE q = f /\ j = 1 /\ ch'[q][j] = x
      BY <2>1, <2>3, <3>1, <3>2
    <3>3. CASE q = p /\ j = i /\ ch'[q][j] = f
      BY <2>1, <2>2, <2>3, <3>1, <3>3
    <3>4. CASE q # f /\ j \in DOMAIN ch[q] /\ ch'[q][j] = ch[q][j] /\ ch[q][j] # x
      <4>1. ch[q][j] # f
        BY <2>2, <3>4
      <4>2. k \in DOMAIN ch[r] /\ ch'[r][k] = ch[r][k]
        BY <2>1, <2>3, <3>4, <4>1
      <4>3. j \in DOMAIN ch[q] /\ ch[q][j] = ch[r][k]
        BY <2>3, <3>4, <4>2
      <4> QED
        BY <1>2, <4>2, <4>3
    <3> QED
      BY <2>1, <3>2, <3>3, <3>4
  <2>4. \A q \in Node : root' \notin Children(ch', q)
    <3> SUFFICES ASSUME NEW q \in Node, NEW j \in DOMAIN ch'[q] PROVE ch'[q][j] # root
      BY <1>1 DEF Children
    <3>1. \A r \in Node : \A k \in DOMAIN ch[r] : ch[r][k] # root
      BY <1>2 DEF Children
    <3>2. f # root /\ x # root
      BY <1>1, <1>3
    <3> QED
      BY <2>1, <3>1, <3>2
  <2>5. \A n \in Node : InTree(ch', root', n) =>
            node'[n].node_case # "FREE" /\ is_full(node', ch', n)
    <3>1. node'[f].node_case = "SELECTION" /\ \A n \in Node : n # f => node'[n] = node[n]
      BY <1>1 DEF NewNode
    <3>2. is_full(node', ch', f)
      BY <1>4, <3>1 DEF is_full, n_children
    <3>3. \A n \in Node : n # f /\ is_full(node, ch, n) => is_full(node', ch', n)
      BY <1>3, <3>1 DEF is_full
    <3> QED
      BY <1>2, <1>5, <3>1, <3>2, <3>3
  <2>6. \A n \in Node : ch'[n] # <<>> => InTree(ch', root', n)
    <3> SUFFICES ASSUME NEW n \in Node, ch'[n] # <<>>, n # f PROVE InTree(ch', root', n)
      BY <1>5
    <3>1. Len(ch'[n]) = Len(ch[n]) /\ ch[n] \in Seq(Node) /\ ch'[n] \in Seq(Node)
      BY <1>1, <1>3
    <3>2. ch[n] # <<>>
      BY <3>1, EmptySeq
    <3> QED
      BY <1>2, <1>5, <3>2
  <2> QED
    BY <2>3, <2>4, <2>5, <2>6 DEF TreeShape, IsTree
<1>7. Connected'
  <2>1. PICK All \in SUBSET Node : All = {n \in Node : InTree(ch, root, n)}
    OBVIOUS
  <2>2. {n \in Node : InTree(ch', root', n)} = All \cup {f}
    BY <1>1, <1>5, <2>1
  <2>3. f \notin All /\ p \in All
    BY <1>1, <1>3, <2>1 DEF Linked
  <2>4. \A T \in SUBSET All : root \in T /\ (\A n \in T : Children(ch, n) \subseteq T) => T = All
    BY <2>1 DEF Connected, IsConnected
  <2>5. ASSUME NEW S \in SUBSET (All \cup {f}), root \in S,
               \A n \in S : Children(ch', n) \subseteq S
        PROVE  S = All \cup {f}
    <3>1. PICK T \in SUBSET All : T = S \ {f}
      BY <2>5
    <3>2. \A n \in S : \A j \in DOMAIN ch'[n] : ch'[n][j] \in S
      BY <2>5 DEF Children
    <3>3. f \in S => x \in S
      BY <1>4, <3>2
    <3>4. ASSUME NEW n \in T, NEW j \in DOMAIN ch[n] PROVE ch[n][j] \in T
      <4>1. n \in S /\ n # f /\ n \in Node
        BY <2>1, <3>1
      <4>2. ch'[n][j] \in S /\ ch'[n][j] = IF n = p /\ j = i THEN f ELSE ch[n][j]
        BY <1>3, <3>2, <4>1
      <4>3. CASE n = p /\ j = i
        BY <1>1, <1>3, <3>1, <3>3, <4>2, <4>3
      <4>4. CASE ~(n = p /\ j = i)
        <5>1. ch[n][j] # f
          BY <1>3, <4>1
        <5> QED
          BY <3>1, <4>2, <4>4, <5>1
      <4> QED
        BY <4>3, <4>4
    <3>5. T = All
      <4>1. \A n \in T : Children(ch, n) \subseteq T
        BY <3>4 DEF Children
      <4>2. root \in T
        BY <1>3, <2>5, <3>1
      <4> QED
        BY <2>4, <4>1, <4>2
    <3>6. f \in S
      <4>1. p \in S
        BY <2>3, <3>1, <3>5
      <4>2. i \in DOMAIN ch'[p] /\ ch'[p][i] = f
        BY <1>1, <1>3
      <4> QED
        BY <3>2, <4>1, <4>2
    <3> QED
      BY <3>1, <3>5, <3>6
  <2>6. IsConnected(ch', root')
    BY <1>1, <2>2, <2>5 DEF IsConnected
  <2> QED
    BY <2>6 DEF Connected
<1> QED
  BY <1>6, <1>7

(* A new selection for the conjunct above the lowest node *)
LEMMA InsertNewSelectionInv == IInv /\ InsertNewSelection => IInv'
<1> SUFFICES ASSUME IInv, InsertNewSelection PROVE IInv'
  OBVIOUS
<1>1. /\ TypeOK /\ TreeShape /\ Connected /\ HeapInv /\ WorkInv /\ ConjunctInv /\ LoopInv
      /\ Conserved /\ NotDuplicated
  BY DEF IInv
<1>2. /\ pc = "descend" /\ fresh \in Node /\ fresh' = fresh + 1 /\ pj' = pj + 1 /\ pc' = "place"
      /\ node' = [node EXCEPT ![fresh] = NewNode("SELECTION")]
      /\ UNCHANGED <<term, root, call, todo, selections, work, wi, it>>
  BY DEF InsertNewSelection, AtLowest, NextConjunct
<1>3. HasConjunct /\ it \in Node /\ Linked(it) /\ it # root
  BY <1>2, DescendFacts
<1>4. PICK f \in Node : f = fresh
  BY <1>2
<1>5. PICK c : c = predicate
  OBVIOUS
<1>6. /\ c \in DOMAIN term /\ IsAtom(term, c)
      /\ \A n \in Node : \A k \in DOMAIN pred[n] : pred[n][k] # c
      /\ \A i \in DOMAIN work : \A j \in DOMAIN work[i].preds :
            work[i].preds[j] = c => i = wi /\ j = pj
  BY <1>2, <1>3, <1>5, CurrentConjunct
<1>7. PICK p, i : /\ p = parent[1] /\ i = parent[2]
                  /\ p \in Node /\ i \in DOMAIN ch[p] /\ ch[p][i] = it
  BY <1>1, <1>3, ParentSlot DEF parent
<1>8. node[f] = Free /\ ch[f] = <<>> /\ pred[f] = <<>> /\ f \in Nat
  BY <1>1, <1>4 DEF HeapInv, Unused, Node
<1>9. PutsIn(f, p, i, it)
  <2>1. ch' = [ch EXCEPT ![f] = <<it>>, ![p][i] = f]
    BY <1>4, <1>7 DEF InsertNewSelection
  <2> QED
    BY <1>2, <1>3, <1>4, <1>7, <1>8, <2>1 DEF PutsIn, Free, NewNode
<1>10. /\ f # p /\ f # root /\ ~Linked(f)
       /\ ch' \in [Node -> Seq(Node)]
       /\ \A q \in Node : q # f => DOMAIN ch'[q] = DOMAIN ch[q] /\ Len(ch'[q]) = Len(ch[q])
       /\ \A n \in Node : Linked(n)' <=> Linked(n) \/ n = f
  BY <1>1, <1>9, PutSlots
<1>11. /\ pred' = [pred EXCEPT ![f] = <<c>>]
       /\ pred'[f] = <<c>> /\ \A n \in Node : n # f => pred'[n] = pred[n]
  BY <1>1, <1>4, <1>5 DEF InsertNewSelection, TypeOK
<1>12. /\ node'[f] = NewNode("SELECTION") /\ node'[f].node_case = "SELECTION"
       /\ \A n \in Node : n # f => node'[n] = node[n]
  BY <1>1, <1>2, <1>4 DEF TypeOK, NewNode
<1>13. TypeOK'
  <2>1. <<c>> \in Seq(DOMAIN term)
    BY <1>6
  <2>2. pred' \in [Node -> Seq(DOMAIN term)]
    BY <1>1, <1>11, <2>1 DEF TypeOK
  <2>3. NewNode("SELECTION") \in Label
    <3>1. Free \in Label
      BY <1>1, <1>8 DEF TypeOK
    <3>2. "SELECTION" \in NodeCase
      BY DEF NodeCase
    <3> QED
      BY <3>1, <3>2 DEF NewNode, Free, Label
  <2>4. node' \in [Node -> Label]
    BY <1>1, <1>2, <1>4, <2>3 DEF TypeOK
  <2>5. pj' \in Nat \ {0} /\ fresh' \in Nat \ {0}
    BY <1>1, <1>2 DEF TypeOK
  <2> QED
    BY <1>1, <1>2, <1>10, <2>2, <2>4, <2>5 DEF TypeOK
<1>14. TreeShape' /\ Connected'
  BY <1>1, <1>9, PutTree
<1>15. HeapInv'
  <2>1. \A n \in Node : n >= fresh' => n # f /\ n # p /\ n >= fresh
    <3> SUFFICES ASSUME NEW n \in Node, n >= fresh' PROVE n # f /\ n # p /\ n >= fresh
      OBVIOUS
    <3>1. n >= fresh /\ n # f
      BY <1>2, <1>4, <1>8 DEF Node
    <3>2. ch[n] = <<>>
      BY <1>1, <3>1 DEF HeapInv, Unused
    <3> QED
      BY <1>7, <3>1, <3>2
  <2>2. \A n \in Node : n # f /\ n # p => ch'[n] = ch[n]
    BY <1>1, <1>4, <1>7 DEF InsertNewSelection, TypeOK
  <2>3. Unused(node', ch', pred', fresh')
    BY <1>1, <1>11, <1>12, <2>1, <2>2 DEF HeapInv, Unused
  <2>4. node'[root].node_case = "PROJECTION"
    BY <1>1, <1>10, <1>12 DEF HeapInv, TypeOK
  <2> QED
    BY <1>1, <1>2, <1>10, <1>11, <2>3, <2>4 DEF HeapInv
<1>16. Placing /\ Placing'
  BY <1>2 DEF Placing
<1>17. WorkInv'
  <2>1. \A k \in DOMAIN work : work[k].sel \in Node
    BY <1>1, WorkTypes
  <2>2. \A k \in DOMAIN work : k >= wi =>
           Linked(work[k].sel)' /\ node'[work[k].sel].node_case = "SELECTION"
    <3> SUFFICES ASSUME NEW k \in DOMAIN work, k >= wi
                 PROVE  Linked(work[k].sel)' /\ node'[work[k].sel].node_case = "SELECTION"
      OBVIOUS
    <3>1. Linked(work[k].sel) /\ node[work[k].sel].node_case = "SELECTION"
      BY <1>1, <1>16 DEF WorkInv
    <3> QED
      BY <1>2, <1>10, <1>12, <2>1, <3>1
  <2>3. ASSUME NEW n \in Node, Linked(n)', node'[n].node_case = "SELECTION", pred'[n] = <<>>
        PROVE  \E k \in DOMAIN work : k >= wi /\ work[k].sel = n
    <3>1. n # f
      BY <1>11, <2>3
    <3> QED
      BY <1>1, <1>10, <1>11, <1>12, <1>16, <2>3, <3>1 DEF WorkInv
  <2> QED
    BY <1>1, <1>2, <1>16, <2>2, <2>3 DEF WorkInv
<1>18. CollectInv' /\ LoopInv'
  BY <1>1, <1>2, <1>16 DEF CollectInv, LoopInv
<1>19. \A k \in DOMAIN pred'[f] : pred'[f][k] = c /\ k = 1
  BY <1>11
<1>20. ConjunctInv'
  BY <1>1, <1>2, <1>6, <1>11, <1>12, <1>16, <1>19 DEF ConjunctInv
<1>21. ASSUME NEW k \in DOMAIN work, NEW j \in DOMAIN work[k].preds
       PROVE  Processed(k, j)' <=> Processed(k, j) \/ (k = wi /\ j = pj)
  <2>1. k \in Nat /\ work[k].preds \in Seq(DOMAIN term)
    BY <1>1, WorkTypes
  <2>2. j \in Nat
    BY <2>1
  <2> QED
    BY <1>1, <1>2, <2>1, <2>2, ProcessedNext
<1>22. Conserved'
  <2>1. \A d : Held(d) => Held(d)'
    BY <1>8, <1>10, <1>11 DEF Held
  <2>2. \A n \in Node : IsBareMarker(term, pred[n]) => IsBareMarker(term, pred'[n])
    <3>1. ~IsBareMarker(term, pred[f])
      BY <1>8 DEF IsBareMarker
    <3> QED
      BY <1>11, <3>1
  <2>3. Held(c)'
    <3>1. 1 \in DOMAIN pred'[f] /\ pred'[f][1] = c
      BY <1>11
    <3> QED
      BY <1>10, <3>1 DEF Held
  <2>4. ASSUME NEW k \in DOMAIN work, NEW j \in DOMAIN work[k].preds, Processed(k, j)'
        PROVE  \/ Held(work[k].preds[j])'
               \/ \E n \in Node : IsBareMarker(term, pred'[n])
    <3>1. CASE Processed(k, j)
      BY <1>1, <1>2, <1>16, <2>1, <2>2, <3>1 DEF Conserved
    <3>2. CASE k = wi /\ j = pj
      <4>1. work[k].preds[j] = c
        BY <1>5, <3>2 DEF predicate
      <4> QED
        BY <1>2, <2>3, <4>1
    <3> QED
      BY <1>21, <2>4, <3>1, <3>2
  <2> QED
    BY <1>2, <2>4 DEF Conserved
<1>23. NotDuplicated'
  <2>1. \A n, m \in Node : \A k \in DOMAIN pred'[n], l \in DOMAIN pred'[m] :
           pred'[n][k] = pred'[m][l] => n = m /\ k = l
    BY <1>1, <1>6, <1>11, <1>19 DEF NotDuplicated
  <2>2. \A d : Held(d)' => Held(d) \/ d = c
    BY <1>10, <1>11, <1>19 DEF Held
  <2>3. ASSUME NEW k \in DOMAIN work, NEW j \in DOMAIN work[k].preds
        PROVE  Processed(k, j)' \/ ~Held(work[k].preds[j])'
    <3>1. Processed(k, j) \/ ~Held(work[k].preds[j])
      BY <1>1, <1>16 DEF NotDuplicated
    <3> QED
      BY <1>2, <1>6, <1>21, <2>2, <3>1
  <2> QED
    BY <1>2, <2>1, <2>3 DEF NotDuplicated
<1> QED
  BY <1>13, <1>14, <1>15, <1>17, <1>18, <1>20, <1>22, <1>23 DEF IInv

-----------------------------------------------------------------------------
(* A step of the pass, or of the program around it, keeps the invariant *)
LEMMA NextInv == IInv /\ [Next]_vars => IInv'
<1> SUFFICES ASSUME IInv, [Next]_vars PROVE IInv'
  OBVIOUS
<1>1. CASE CollectSelections
  BY <1>1, CollectSelectionsInv
<1>2. CASE ExtractPredicates
  BY <1>2, ExtractPredicatesInv
<1>3. CASE FindLowest
  BY <1>3, FindLowestInv
<1>4. CASE ReAdd
  BY <1>4, ReAddInv
<1>5. CASE Descend
  BY <1>5, DescendInv
<1>6. CASE InsertInJoin
  BY <1>6, InsertInJoinInv
<1>7. CASE InsertInSelection
  BY <1>7, InsertInSelectionInv
<1>8. CASE InsertNewSelection
  BY <1>8, InsertNewSelectionInv
<1>9. CASE RemoveSelection
  BY <1>9, RemoveSelectionInv
<1>10. CASE KeepSelection
  BY <1>10, KeepSelectionInv
<1>11. CASE Return
  BY <1>11, ReturnInv
<1>12. CASE SecondCall
  BY <1>12, SecondCallInv
<1>13. CASE UNCHANGED vars
  <2>1. UNCHANGED <<node, ch, pred, term, root, fresh, pc, call, todo, selections,
                    work, wi, pj, it>>
    BY <1>13 DEF vars
  <2>2. (TypeOK /\ TreeShape /\ Connected)'
    BY <2>1 DEF IInv, TypeOK, TreeShape, Connected
  <2>3. (HeapInv /\ WorkInv /\ ConjunctInv /\ LoopInv)'
    BY <2>1 DEF IInv, HeapInv, WorkInv, ConjunctInv, LoopInv, HasConjunct, Placing, Linked
  <2>4. CollectInv'
    <3>1. \A seen \in SUBSET Node : Visited(seen) => Visited(seen)'
      BY <2>1 DEF Visited, Linked
    <3> QED
      BY <2>1, <3>1 DEF IInv, CollectInv
  <2>5. (Conserved /\ NotDuplicated)'
    BY <2>1 DEF IInv, Conserved, NotDuplicated, Placing, Processed, Held, Linked
  <2> QED
    BY <2>2, <2>3, <2>4, <2>5 DEF IInv
<1> QED
  BY <1>1, <1>2, <1>3, <1>4, <1>5, <1>6, <1>7, <1>8, <1>9, <1>10, <1>11, <1>12, <1>13 DEF Next

(***************************************************************************)
(* IInv is an inductive invariant of push_down_predicates, for every heap  *)
(* size, every set of well-formed trees and both values of                 *)
(* convert_cp_to_join.                                                     *)
(***************************************************************************)
THEOREM Invariance == Spec => []IInv
<1>1. Init => IInv
  BY InitInv
<1>2. IInv /\ [Next]_vars => IInv'
  BY NextInv
<1> QED
  BY <1>1, <1>2, PTL DEF Spec

(* The pass never mixes up nodes, conjuncts and positions *)
THEOREM TypeCorrect == Spec => []TypeOK
<1>1. IInv => TypeOK
  BY DEF IInv
<1> QED
  BY <1>1, Invariance, PTL

(* Cutting selections out and putting new ones in always leaves a tree *)
THEOREM StaysTree == Spec => []TreeShape
<1>1. IInv => TreeShape
  BY DEF IInv
<1> QED
  BY <1>1, Invariance, PTL

(***************************************************************************)
(* ... in one piece: nothing below the root is lost, and there is no cycle *)
(* the recursive walks of the optimizer could run into.                    *)
(***************************************************************************)
THEOREM StaysConnected == Spec => []Connected
<1>1. IInv => Connected
  BY DEF IInv
<1> QED
  BY <1>1, Invariance, PTL

(***************************************************************************)
(* No conjunct whose turn is over is lost, unless a predicate of the tree  *)
(* is a lone subquery marker, the case add_predicate_to_selection misses.  *)
(***************************************************************************)
THEOREM ConjunctsConserved == Spec => []Conserved
<1>1. IInv => Conserved
  BY DEF IInv
<1> QED
  BY <1>1, Invariance, PTL

(* No conjunct is ever in two places *)
THEOREM ConjunctsDistinct == Spec => []NotDuplicated
<1>1. IInv => NotDuplicated
  BY DEF IInv
<1> QED
  BY <1>1, Invariance, PTL

(* When the pass is over no selection of the tree is without a predicate *)
THEOREM SelectionsFilled == Spec => []NoEmptySelection
<1>1. IInv => NoEmptySelection
  <2> SUFFICES ASSUME IInv, pc = "done", NEW n \in Node, Linked(n),
                      node[n].node_case = "SELECTION", pred[n] = <<>>
               PROVE  FALSE
    BY DEF NoEmptySelection
  <2>1. TypeOK /\ WorkInv /\ LoopInv /\ Placing
    BY DEF IInv, Placing
  <2>2. PICK i \in DOMAIN work : i >= wi
    BY <2>1 DEF WorkInv
  <2>3. wi \notin DOMAIN work /\ wi \in Nat \ {0} /\ wi <= Len(work) + 1
    BY <2>1 DEF LoopInv, TypeOK
  <2>4. Len(work) \in Nat /\ DOMAIN work = 1 .. Len(work)
    BY <2>1, WorkTypes
  <2> QED
    BY <2>2, <2>3, <2>4
<1> QED
  BY <1>1, Invariance, PTL

=============================================================================
