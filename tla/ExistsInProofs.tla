--------------------------- MODULE ExistsInProofs ---------------------------
(***************************************************************************)
(* The decorrelation of EXISTS and IN keeps the query and its CTEs trees   *)
(* that share no node.  Three edits of the forest do all of it: a subtree  *)
(* moves below a new top (MoveForest), a selection is cut out (CutForest), *)
(* and a childless node is replaced by three new ones (ReplaceForest).     *)
(***************************************************************************)
EXTENDS ExistsInInv, WalkProofs

-----------------------------------------------------------------------------
(* Forests in one piece *)

(* Every set that holds the tops and its members' children is the forest *)
OnePiece(children, tops) ==
    \A S \in SUBSET Forest(children, tops) :
        tops \subseteq S /\ Closed(children, S) => S = Forest(children, tops)

(* The recursion of Reached ends *)
LEMMA ReachedUnfolds ==
    ASSUME NEW children \in [Node -> Seq(Node)], NEW tops \in SUBSET Node
    PROVE  \E reached :
              /\ Reached(children, tops) = reached[MaxNodes]
              /\ reached[0] = tops
              /\ \A k \in 1 .. MaxNodes : reached[k] = WithChildren(children, reached[k - 1])
<1> DEFINE I == 0 .. MaxNodes
           T == SUBSET Node
           Step(r, k) == IF k = 0 THEN tops ELSE WithChildren(children, r[k - 1])
           G == [k \in I |-> [r \in [I -> T] |-> Step(r, k)]]
           reached == CHOOSE r : r = [k \in I |-> Step(r, k)]
<1>1. MaxNodes \in Nat
    BY MaxNodesAssumption
<1>2. \A n \in Node : Children(children, n) \subseteq Node
    BY DEF Children
<1>3. ASSUME NEW k \in I, NEW r \in [I -> T]
      PROVE  Step(r, k) \in T
  <2>1. CASE k = 0
    BY <2>1
  <2>2. CASE k # 0
    <3>1. k - 1 \in I
        BY <1>1, <2>2
    <3>2. r[k - 1] \in SUBSET Node
        BY <3>1
    <3> QED BY <3>2, <1>2, <2>2 DEF WithChildren
  <2> QED BY <2>1, <2>2
<1>4. ASSUME NEW k \in I, NEW r, NEW q, \A j \in Before(MaxNodes)[k] : r[j] = q[j]
      PROVE  Step(r, k) = Step(q, k)
  <2>1. k # 0 => r[k - 1] = q[k - 1]
    BY <1>1, <1>4 DEF Before
  <2> QED BY <2>1
<1> HIDE DEF Step
<1>5. {} \in T /\ Local(I, Before(MaxNodes), T, G)
    BY <1>3, <1>4 DEF Local
<1>6. Before(MaxNodes) \in [I -> SUBSET I] /\ Grounded(I, Before(MaxNodes))
    BY <1>1, CountGrounded
<1>7. PICK walk : Solves(I, Before(MaxNodes), T, G, I, walk)
  <2> HIDE DEF I, T, G
  <2> QED BY <1>5, <1>6, WalkExists
<1>8. \A k \in I : walk[k] = Step(walk, k)
    BY <1>7 DEF Solves
<1>9. walk = [k \in I |-> Step(walk, k)]
    BY <1>7, <1>8 DEF Solves
<1>10. reached = [k \in I |-> Step(reached, k)]
    BY <1>9
<1>11. Reached(children, tops) = reached[MaxNodes]
    BY DEF Reached, Step
<1> HIDE DEF reached
<1>12. \A k \in I : reached[k] = Step(reached, k)
    BY <1>10
<1>13. reached[0] = tops /\ \A k \in 1 .. MaxNodes : reached[k] = WithChildren(children, reached[k - 1])
    BY <1>1, <1>12 DEF Step
<1> QED BY <1>11, <1>13

LEMMA ForestClosed ==
    ASSUME NEW children \in [Node -> Seq(Node)], NEW tops \in SUBSET Node
    PROVE  /\ Forest(children, tops) \in SUBSET Node /\ tops \subseteq Forest(children, tops)
           /\ Closed(children, Forest(children, tops))
           /\ \A n \in Node : Children(children, n) \subseteq Forest(children, tops)
<1>1. \A n \in Node : Children(children, n) \subseteq Node
    BY DEF Children
<1>2. \A n \in Node : Children(children, n) \subseteq Forest(children, tops)
    BY DEF Forest
<1>3. Forest(children, tops) \in SUBSET Node /\ tops \subseteq Forest(children, tops)
    BY <1>1 DEF Forest
<1> QED BY <1>2, <1>3 DEF Closed

(* What a walk comes to is in every closed set *)
LEMMA ReachedLeast ==
    ASSUME NEW children \in [Node -> Seq(Node)], NEW tops \in SUBSET Node,
           NEW S, tops \subseteq S, Closed(children, S)
    PROVE  Reached(children, tops) \subseteq S
<1>1. PICK reached :
              /\ Reached(children, tops) = reached[MaxNodes]
              /\ reached[0] = tops
              /\ \A k \in 1 .. MaxNodes : reached[k] = WithChildren(children, reached[k - 1])
    BY ReachedUnfolds
<1>2. MaxNodes \in Nat
    BY MaxNodesAssumption
<1> DEFINE Q == {k \in 0 .. MaxNodes : reached[k] \subseteq S}
<1>3. ASSUME NEW k \in 0 .. MaxNodes, Before(MaxNodes)[k] \subseteq Q
      PROVE  k \in Q
  <2>1. CASE k = 0
    BY <2>1, <1>1
  <2>2. CASE k # 0
    <3>1. k - 1 \in Q /\ k \in 1 .. MaxNodes
        BY <1>2, <1>3, <2>2 DEF Before
    <3>2. reached[k] = WithChildren(children, reached[k - 1])
        BY <1>1, <3>1
    <3>3. WithChildren(children, reached[k - 1]) \subseteq S
        BY <3>1 DEF WithChildren, Closed
    <3> QED BY <3>2, <3>3
  <2> QED BY <2>1, <2>2
<1>4. Q = 0 .. MaxNodes
  <2>1. Q \in SUBSET (0 .. MaxNodes)
    OBVIOUS
  <2> HIDE DEF Q
  <2> QED BY <1>2, <1>3, <2>1, CountGrounded DEF Grounded
<1>5. MaxNodes \in Q
    BY <1>2, <1>4
<1> QED BY <1>1, <1>5

(* MaxNodes steps are enough: each one that is not the last finds a new node *)
LEMMA ReachedClosed ==
    ASSUME NEW children \in [Node -> Seq(Node)], NEW tops \in SUBSET Node
    PROVE  /\ Reached(children, tops) \in SUBSET Node /\ tops \subseteq Reached(children, tops)
           /\ Closed(children, Reached(children, tops))
<1>1. PICK reached :
              /\ Reached(children, tops) = reached[MaxNodes]
              /\ reached[0] = tops
              /\ \A k \in 1 .. MaxNodes : reached[k] = WithChildren(children, reached[k - 1])
    BY ReachedUnfolds
<1>2. MaxNodes \in Nat
    BY MaxNodesAssumption
<1>3. \A n \in Node : Children(children, n) \subseteq Node
    BY DEF Children
<1>4. IsFiniteSet(Node) /\ Cardinality(Node) = MaxNodes
    BY <1>2, FS_Interval, MaxNodesAssumption DEF Node
<1> DEFINE Many(k) == /\ tops \subseteq reached[k] /\ reached[k] \subseteq Node
                      /\ Closed(children, reached[k]) \/ Cardinality(reached[k]) >= k
           Q == {k \in 0 .. MaxNodes : Many(k)}
<1>5. ASSUME NEW k \in 0 .. MaxNodes, Before(MaxNodes)[k] \subseteq Q
      PROVE  k \in Q
  <2>1. CASE k = 0
    <3>1. Cardinality(tops) \in Nat
        BY <1>4, FS_Subset, FS_CardinalityType
    <3> QED BY <2>1, <1>1, <3>1
  <2>2. CASE k # 0
    <3>1. k - 1 \in Q /\ k \in 1 .. MaxNodes
        BY <1>2, <1>5, <2>2 DEF Before
    <3>2. PICK R \in SUBSET Node : /\ R = reached[k - 1] /\ tops \subseteq R
                                   /\ Closed(children, R) \/ Cardinality(R) >= k - 1
        BY <3>1
    <3>3. reached[k] = R \cup UNION {Children(children, n) : n \in R}
        BY <1>1, <3>1, <3>2 DEF WithChildren
    <3>4. tops \subseteq reached[k] /\ R \subseteq reached[k] /\ reached[k] \subseteq Node
        BY <1>3, <3>2, <3>3
    <3>5. CASE Closed(children, R)
      <4>1. reached[k] = R
        BY <3>3, <3>5 DEF Closed
      <4> QED BY <3>4, <3>5, <4>1
    <3>6. CASE ~Closed(children, R)
      <4>1. PICK n \in R : ~(Children(children, n) \subseteq R)
        BY <3>6 DEF Closed
      <4>2. PICK c : c \in Children(children, n) /\ c \notin R
        BY <4>1
      <4>3. c \in reached[k]
        BY <3>3, <4>2
      <4>4. IsFiniteSet(reached[k]) /\ IsFiniteSet(R)
        BY <1>4, <3>4, FS_Subset
      <4>5. Cardinality(R \cup {c}) = Cardinality(R) + 1
        BY <4>2, <4>4, FS_AddElement
      <4>6. Cardinality(R \cup {c}) <= Cardinality(reached[k])
        BY <3>4, <4>3, <4>4, FS_Subset
      <4>7. Cardinality(R) \in Nat /\ Cardinality(reached[k]) \in Nat
        BY <4>4, FS_CardinalityType
      <4>8. Cardinality(R) >= k - 1
        BY <3>2, <3>6
      <4>9. Cardinality(reached[k]) >= k
        BY <4>5, <4>6, <4>7, <4>8
      <4> QED BY <3>4, <4>9
    <3> QED BY <3>5, <3>6
  <2> QED BY <2>1, <2>2
<1>6. Q = 0 .. MaxNodes
  <2>1. Q \in SUBSET (0 .. MaxNodes)
    OBVIOUS
  <2> HIDE DEF Q
  <2> QED BY <1>2, <1>5, <2>1, CountGrounded DEF Grounded
<1>7. Many(MaxNodes)
    BY <1>2, <1>6
<1>8. CASE Cardinality(reached[MaxNodes]) >= MaxNodes
  <2>1. reached[MaxNodes] \in SUBSET Node
    BY <1>7
  <2>2. Cardinality(reached[MaxNodes]) <= MaxNodes /\ Cardinality(reached[MaxNodes]) \in Nat
    BY <2>1, <1>4, FS_Subset, FS_CardinalityType
  <2>3. reached[MaxNodes] = Node
    BY <1>2, <1>4, <1>8, <2>1, <2>2, FS_Subset
  <2> QED BY <1>1, <1>3, <1>7, <2>3 DEF Closed
<1> QED BY <1>1, <1>7, <1>8

(* A forest in one piece, without recursion *)
Hangs(children, tops) ==
    /\ children \in [Node -> Seq(Node)] /\ tops \in SUBSET Node
    /\ ForestSlots(children, tops) /\ OnePiece(children, tops)

LEMMA HangsForest ==
    ASSUME NEW children \in [Node -> Seq(Node)], NEW tops \in SUBSET Node
    PROVE  Hangs(children, tops) <=> IsForest(children, tops)
<1>1. PICK F : /\ F = Forest(children, tops) /\ tops \subseteq F /\ Closed(children, F)
    BY ForestClosed
<1>2. PICK R : /\ R = Reached(children, tops) /\ tops \subseteq R /\ Closed(children, R)
    BY ReachedClosed
<1>3. \A S : tops \subseteq S /\ Closed(children, S) => R \subseteq S
    BY <1>2, ReachedLeast
<1>4. OnePiece(children, tops) <=> R = F
    BY <1>1, <1>2, <1>3 DEF OnePiece
<1> QED BY <1>1, <1>2, <1>4 DEF Hangs, IsForest

LEMMA HangsGrounded ==
    ASSUME NEW children, NEW tops, Hangs(children, tops)
    PROVE  Grounded(Node, Down(children))
<1> DEFINE F == Forest(children, tops)
<1>1. children \in [Node -> Seq(Node)] /\ tops \in SUBSET Node
    BY DEF Hangs
<1>2. F \subseteq Node /\ tops \subseteq F /\ \A p \in Node : Children(children, p) \subseteq F
    BY <1>1, ForestClosed
<1>3. \A p, q \in Node : \A c \in Children(children, p) \cap Children(children, q) : p = q
    BY DEF Hangs, ForestSlots, Children
<1>4. \A p \in Node : Children(children, p) \cap tops = {} /\ Children(children, p) \subseteq F
    BY <1>2 DEF Hangs, ForestSlots
<1>5. \A p \in Node : children[p] # <<>> => p \in F
    BY DEF Hangs, ForestSlots
<1>6. \A S \in SUBSET F : tops \subseteq S /\ Closed(children, S) => S = F
    BY DEF Hangs, OnePiece
<1> HIDE DEF F
<1> QED BY <1>1, <1>2, <1>3, <1>4, <1>5, <1>6, HangingGrounded

-----------------------------------------------------------------------------
(* Three edits *)

(* The only child x of q moves below f, a new top *)
Moves(old, q, x, f, new) ==
    /\ q \in Node /\ f \in Node /\ q # f
    /\ old[q] = <<x>> /\ old[f] = <<>>
    /\ new = [old EXCEPT ![f] = <<x>>, ![q] = <<>>]

LEMMA MoveSlots ==
    ASSUME NEW old \in [Node -> Seq(Node)], NEW q, NEW x, NEW f, NEW new, Moves(old, q, x, f, new)
    PROVE  /\ new \in [Node -> Seq(Node)] /\ new[q] = <<>> /\ new[f] = <<x>> /\ x \in Node
           /\ \A n \in Node : n # q /\ n # f => new[n] = old[n]
           /\ DOMAIN new[q] = {} /\ DOMAIN new[f] = {1} /\ DOMAIN old[f] = {}
           /\ DOMAIN old[q] = {1} /\ old[q][1] = x /\ new[f][1] = x
<1>1. old[q] \in Seq(Node) /\ old[q] = <<x>>
    BY DEF Moves
<1>2. x \in Node
  <2>1. 1 \in DOMAIN old[q] /\ old[q][1] = x
    BY <1>1
  <2> QED BY <1>1, <2>1
<1>3. <<x>> \in Seq(Node) /\ <<>> \in Seq(Node)
    BY <1>2
<1>4. /\ new[q] = <<>> /\ new[f] = <<x>>
      /\ \A n \in Node : n # q /\ n # f => new[n] = old[n]
    BY DEF Moves
<1>5. new \in [Node -> Seq(Node)]
  <2>1. DOMAIN new = Node /\ new = [n \in Node |-> new[n]]
    BY DEF Moves
  <2>2. \A n \in Node : new[n] \in Seq(Node)
    BY <1>3, <1>4
  <2> QED BY <2>1, <2>2
<1>6. old[q] = <<x>> /\ old[f] = <<>>
    BY DEF Moves
<1> QED BY <1>2, <1>4, <1>5, <1>6

LEMMA MoveForest ==
    ASSUME NEW old, NEW tops, Hangs(old, tops), NEW q, NEW x, NEW f, NEW new,
           Moves(old, q, x, f, new), f \notin Forest(old, tops)
    PROVE  /\ Hangs(new, tops \cup {f})
           /\ Forest(new, tops \cup {f}) = Forest(old, tops) \cup {f}
<1>1. /\ old \in [Node -> Seq(Node)] /\ tops \in SUBSET Node
      /\ ForestSlots(old, tops) /\ OnePiece(old, tops) /\ q \in Node /\ f \in Node /\ q # f
    BY DEF Hangs, Moves
<1>2. /\ new \in [Node -> Seq(Node)] /\ x \in Node
      /\ \A n \in Node : n # q /\ n # f => new[n] = old[n]
      /\ DOMAIN new[q] = {} /\ DOMAIN new[f] = {1} /\ DOMAIN old[f] = {}
      /\ DOMAIN old[q] = {1} /\ old[q][1] = x /\ new[f][1] = x
      /\ new[q] = <<>>
    BY <1>1, MoveSlots, SMTT(20)
<1>3. /\ Children(new, q) = {} /\ Children(new, f) = {x}
      /\ Children(old, q) = {x} /\ Children(old, f) = {}
      /\ \A n \in Node : n # q /\ n # f => Children(new, n) = Children(old, n)
    BY <1>1, <1>2 DEF Children
<1>4. PICK F \in SUBSET Node : /\ F = Forest(old, tops) /\ tops \subseteq F
                               /\ \A n \in Node : Children(old, n) \subseteq F
    BY <1>1, ForestClosed
<1>5. f \notin F
    BY <1>4
<1>6. Forest(new, tops \cup {f}) = F \cup {f}
  <2>1. UNION {Children(new, p) : p \in Node} = UNION {Children(old, p) : p \in Node}
    BY <1>1, <1>3
  <2> QED BY <2>1, <1>4 DEF Forest
<1>7. ForestSlots(new, tops \cup {f})
  <2>1. ASSUME NEW p \in Node, NEW r \in Node, NEW i \in DOMAIN new[p], NEW j \in DOMAIN new[r],
               new[p][i] = new[r][j]
        PROVE  p = r /\ i = j
    <3>1. \A a, b \in Node : \A k \in DOMAIN old[a], l \in DOMAIN old[b] :
             old[a][k] = old[b][l] => a = b /\ k = l
        BY <1>1 DEF ForestSlots
    <3>2. p # q /\ r # q
        BY <1>2
    <3>3. CASE p = f /\ r = f
        BY <1>2, <3>3
    <3>4. CASE p = f /\ r # f
      <4>1. new[r] = old[r] /\ new[p][i] = x /\ new[r][j] = x
        BY <1>2, <2>1, <3>2, <3>4
      <4>2. old[r][j] = old[q][1] /\ j \in DOMAIN old[r] /\ 1 \in DOMAIN old[q]
        BY <1>2, <4>1
      <4> QED BY <1>1, <3>1, <3>2, <4>2
    <3>5. CASE p # f /\ r = f
      <4>1. new[p] = old[p] /\ new[r][j] = x /\ new[p][i] = x
        BY <1>2, <2>1, <3>2, <3>5
      <4>2. old[p][i] = old[q][1] /\ i \in DOMAIN old[p] /\ 1 \in DOMAIN old[q]
        BY <1>2, <4>1
      <4> QED BY <1>1, <3>1, <3>2, <4>2
    <3>6. CASE p # f /\ r # f
      <4>1. new[p] = old[p] /\ new[r] = old[r]
        BY <1>2, <3>2, <3>6
      <4> QED BY <2>1, <3>1, <4>1
    <3> QED BY <3>3, <3>4, <3>5, <3>6
  <2>2. \A p \in Node : Children(new, p) \cap (tops \cup {f}) = {}
    <3>1. \A p \in Node : Children(old, p) \cap tops = {} /\ f \notin Children(old, p)
        BY <1>1, <1>4, <1>5 DEF ForestSlots
    <3> QED BY <1>1, <1>3, <3>1
  <2>3. \A n \in Node : new[n] # <<>> => n \in F \cup {f}
    BY <1>1, <1>2, <1>4 DEF ForestSlots
  <2> QED BY <2>1, <2>2, <2>3, <1>6 DEF ForestSlots
<1>8. OnePiece(new, tops \cup {f})
  <2>1. ASSUME NEW S \in SUBSET (F \cup {f}), tops \cup {f} \subseteq S, Closed(new, S)
        PROVE  S = F \cup {f}
    <3> DEFINE R == S \ {f}
    <3>1. R \in SUBSET F /\ tops \subseteq R
        BY <2>1, <1>4, <1>5
    <3>2. x \in R
        BY <2>1, <1>1, <1>3, <1>4, <1>5 DEF Closed
    <3>3. ASSUME NEW n \in R
          PROVE  Children(old, n) \subseteq R
      <4>1. CASE n = q
        BY <4>1, <3>2, <1>3
      <4>2. CASE n # q
        <5>1. Children(old, n) = Children(new, n) /\ Children(new, n) \subseteq S
            BY <4>2, <1>3, <2>1, <1>4 DEF Closed
        <5> QED BY <5>1, <1>4, <1>5
      <4> QED BY <4>1, <4>2
    <3>4. R = F
      <4> HIDE DEF R
      <4> QED BY <3>1, <3>3, <1>1, <1>4 DEF OnePiece, Closed
    <3> QED BY <3>4, <2>1
  <2> QED BY <2>1, <1>6 DEF OnePiece
<1>9. Hangs(new, tops \cup {f})
    BY <1>1, <1>2, <1>7, <1>8 DEF Hangs
<1> QED BY <1>4, <1>6, <1>9

(* Slot i of p gets c in place of what it held *)
Puts(old, p, i, c, seq) ==
    /\ seq \in Seq(Node) /\ DOMAIN seq = DOMAIN old[p] /\ Len(seq) = Len(old[p])
    /\ \A j \in DOMAIN old[p] : seq[j] = IF j = i THEN c ELSE old[p][j]

LEMMA PutInSlot ==
    ASSUME NEW old \in [Node -> Seq(Node)], NEW p \in Node, NEW i \in DOMAIN old[p], NEW c \in Node
    PROVE  Puts(old, p, i, c, [old[p] EXCEPT ![i] = c])
<1>1. old[p] \in Seq(Node) /\ DOMAIN old[p] = 1 .. Len(old[p])
    BY LenProperties
<1>2. /\ [old[p] EXCEPT ![i] = c] \in Seq(Node)
      /\ Len([old[p] EXCEPT ![i] = c]) = Len(old[p])
      /\ \A j \in 1 .. Len(old[p]) : [old[p] EXCEPT ![i] = c][j] = IF j = i THEN c ELSE old[p][j]
    BY <1>1, ExceptSeq
<1> QED BY <1>1, <1>2 DEF Puts

(* The node s, in slot i of p, is cut out: its child c takes the slot *)
Cuts(old, s, p, i, c, new) ==
    /\ s \in Node /\ p \in Node /\ i \in DOMAIN old[p] /\ old[p][i] = s
    /\ old[s] = <<c>>
    /\ new = [old EXCEPT ![p][i] = c, ![s] = <<>>]

(* The slots afterwards *)
AfterCut(old, s, p, i, c, new) ==
    /\ new \in [Node -> Seq(Node)] /\ new[s] = <<>> /\ DOMAIN new[s] = {}
    /\ \A n \in Node : n # s =>
          /\ DOMAIN new[n] = DOMAIN old[n] /\ Len(new[n]) = Len(old[n])
          /\ \A j \in DOMAIN old[n] : new[n][j] = IF n = p /\ j = i THEN c ELSE old[n][j]

(* No node is its own parent *)
LEMMA ParentDiffers ==
    ASSUME NEW old, NEW tops, Hangs(old, tops), NEW p \in Node
    PROVE  p \notin Children(old, p)
<1> SUFFICES ASSUME p \in Children(old, p)
             PROVE  FALSE
    OBVIOUS
<1>1. PICK F : F = Forest(old, tops)
    OBVIOUS
<1>2. /\ F \in SUBSET Node /\ tops \subseteq F
      /\ \A n \in Node : Children(old, n) \subseteq F
    BY <1>1, ForestClosed DEF Hangs
<1>3. \A n \in Node : n # p => p \notin Children(old, n)
    BY DEF Hangs, ForestSlots, Children
<1>4. p \notin tops
    BY DEF Hangs, ForestSlots
<1>5. Closed(old, F \ {p})
    BY <1>2, <1>3 DEF Closed
<1>6. F \ {p} = F
    BY <1>1, <1>2, <1>4, <1>5 DEF Hangs, OnePiece
<1> QED BY <1>2, <1>6

LEMMA CutAfter ==
    ASSUME NEW old, NEW tops, Hangs(old, tops), NEW s, NEW p, NEW i, NEW c, NEW new,
           Cuts(old, s, p, i, c, new)
    PROVE  /\ AfterCut(old, s, p, i, c, new)
           /\ s # p /\ c \in Node /\ c # s
           /\ DOMAIN old[s] = {1} /\ old[s][1] = c
<1>1. /\ old \in [Node -> Seq(Node)] /\ s \in Node /\ p \in Node
      /\ i \in DOMAIN old[p] /\ old[p][i] = s /\ old[s] = <<c>>
      /\ new = [old EXCEPT ![p][i] = c, ![s] = <<>>]
    BY DEF Cuts, Hangs
<1>2. DOMAIN old[s] = {1} /\ old[s][1] = c /\ c \in Node
  <2>1. DOMAIN old[s] = {1} /\ old[s][1] = c
    BY <1>1
  <2>2. old[s] \in Seq(Node)
    BY <1>1
  <2> QED BY <2>1, <2>2
<1>3. s # p /\ c # s
  <2>1. s \in Children(old, p) /\ c \in Children(old, s)
    BY <1>1, <1>2 DEF Children
  <2> QED BY <1>1, <2>1, ParentDiffers
<1>4. PICK seq : seq = [old[p] EXCEPT ![i] = c] /\ Puts(old, p, i, c, seq)
    BY <1>1, <1>2, PutInSlot
<1>5. new = [old EXCEPT ![p] = seq, ![s] = <<>>]
    BY <1>1, <1>4
<1>6. /\ new[s] = <<>> /\ new[p] = seq /\ DOMAIN new = Node
      /\ \A n \in Node : n # s /\ n # p => new[n] = old[n]
    BY <1>1, <1>3, <1>5
<1>7. new \in [Node -> Seq(Node)]
  <2>1. \A n \in Node : new[n] \in Seq(Node)
    <3>1. seq \in Seq(Node) /\ <<>> \in Seq(Node)
        BY <1>4 DEF Puts
    <3>2. new[s] \in Seq(Node) /\ new[p] \in Seq(Node)
        BY <3>1, <1>6
    <3> QED BY <3>2, <1>1, <1>6
  <2>2. new = [n \in Node |-> new[n]]
    BY <1>5, <1>6
  <2> QED BY <2>1, <2>2
<1>8. AfterCut(old, s, p, i, c, new)
  <2>1. DOMAIN new[s] = {}
    BY <1>6
  <2>2. ASSUME NEW n \in Node, n # s
        PROVE  /\ DOMAIN new[n] = DOMAIN old[n] /\ Len(new[n]) = Len(old[n])
               /\ \A j \in DOMAIN old[n] : new[n][j] = IF n = p /\ j = i THEN c ELSE old[n][j]
    <3>1. CASE n = p
        BY <3>1, <1>4, <1>6 DEF Puts
    <3>2. CASE n # p
        BY <3>2, <2>2, <1>6
    <3> QED BY <3>1, <3>2
  <2> QED BY <2>1, <2>2, <1>6, <1>7 DEF AfterCut
<1> QED BY <1>2, <1>3, <1>8

LEMMA CutForest ==
    ASSUME NEW old, NEW tops, Hangs(old, tops), NEW s, NEW p, NEW i, NEW c, NEW new,
           Cuts(old, s, p, i, c, new)
    PROVE  Hangs(new, tops) /\ Forest(new, tops) = Forest(old, tops) \ {s}
<1>1. /\ old \in [Node -> Seq(Node)] /\ tops \in SUBSET Node
      /\ ForestSlots(old, tops) /\ OnePiece(old, tops)
      /\ s \in Node /\ p \in Node /\ i \in DOMAIN old[p] /\ old[p][i] = s
    BY DEF Hangs, Cuts
<1>2. /\ AfterCut(old, s, p, i, c, new) /\ s # p /\ c \in Node /\ c # s
      /\ DOMAIN old[s] = {1} /\ old[s][1] = c
    BY CutAfter
<1>3. /\ new \in [Node -> Seq(Node)] /\ new[s] = <<>> /\ DOMAIN new[s] = {}
      /\ \A n \in Node : n # s =>
          /\ DOMAIN new[n] = DOMAIN old[n] /\ Len(new[n]) = Len(old[n])
          /\ \A j \in DOMAIN old[n] : new[n][j] = IF n = p /\ j = i THEN c ELSE old[n][j]
    BY <1>2 DEF AfterCut
<1>4. PICK F \in SUBSET Node : /\ F = Forest(old, tops) /\ tops \subseteq F
                               /\ \A n \in Node : Children(old, n) \subseteq F
    BY <1>1, ForestClosed
<1>5. \A a, b \in Node : \A k \in DOMAIN old[a], l \in DOMAIN old[b] :
             old[a][k] = old[b][l] => a = b /\ k = l
    BY <1>1 DEF ForestSlots
<1>6. s \notin tops /\ c \notin tops /\ s \in F /\ c \in F
  <2>1. s \in Children(old, p) /\ c \in Children(old, s)
    BY <1>1, <1>2 DEF Children
  <2> QED BY <1>1, <1>4, <2>1 DEF ForestSlots
<1>7. \A n \in Node : Children(new, n) \subseteq (Children(old, n) \cup {c}) \ {s}
  <2> SUFFICES ASSUME NEW n \in Node, NEW j \in DOMAIN new[n]
               PROVE  new[n][j] \in (Children(old, n) \cup {c}) \ {s}
    BY DEF Children
  <2>1. n # s /\ j \in DOMAIN old[n]
    BY <1>3
  <2>2. CASE n = p /\ j = i
    BY <1>2, <1>3, <2>1, <2>2
  <2>3. CASE ~(n = p /\ j = i)
    <3>1. new[n][j] = old[n][j]
        BY <1>3, <2>1, <2>3
    <3>2. old[n][j] # s
        BY <1>1, <1>5, <2>1, <2>3
    <3> QED BY <2>1, <3>1, <3>2 DEF Children
  <2> QED BY <2>2, <2>3
<1>8. c \in Children(new, p)
  <2>1. i \in DOMAIN new[p] /\ new[p][i] = c
    BY <1>1, <1>2, <1>3
  <2> QED BY <2>1 DEF Children
<1>9. \A n \in Node : n # s => Children(old, n) \subseteq Children(new, n) \cup {s}
  <2> SUFFICES ASSUME NEW n \in Node, n # s, NEW j \in DOMAIN old[n], old[n][j] # s
               PROVE  old[n][j] \in Children(new, n)
    BY DEF Children
  <2>1. ~(n = p /\ j = i)
    BY <1>1
  <2>2. new[n][j] = old[n][j] /\ j \in DOMAIN new[n]
    BY <1>3, <2>1
  <2> QED BY <2>2 DEF Children
<1>10. Forest(new, tops) = F \ {s}
  <2>1. Forest(new, tops) \subseteq F \ {s}
    BY <1>4, <1>6, <1>7 DEF Forest
  <2>2. Children(old, s) = {c}
    BY <1>2 DEF Children
  <2>3. ASSUME NEW n \in F \ {s}
        PROVE  n \in Forest(new, tops)
    <3>1. CASE n \in tops
        BY <3>1 DEF Forest
    <3>2. CASE n \notin tops
      <4>1. PICK a \in Node : n \in Children(old, a)
        BY <1>4, <3>2 DEF Forest
      <4>2. n \in Children(new, a) \/ n \in Children(new, p)
        BY <1>8, <1>9, <2>2, <2>3, <4>1
      <4> QED BY <1>1, <4>1, <4>2 DEF Forest
    <3> QED BY <3>1, <3>2
  <2> QED BY <2>1, <2>3
<1>11. ForestSlots(new, tops)
  <2>1. ASSUME NEW a \in Node, NEW b \in Node, NEW k \in DOMAIN new[a], NEW l \in DOMAIN new[b],
               new[a][k] = new[b][l]
        PROVE  a = b /\ k = l
    <3>1. a # s /\ b # s /\ k \in DOMAIN old[a] /\ l \in DOMAIN old[b]
        BY <1>3
    <3>2. old[a][k] # c /\ old[b][l] # c
        BY <1>1, <1>2, <1>5, <3>1
    <3>3. /\ new[a][k] = IF a = p /\ k = i THEN c ELSE old[a][k]
          /\ new[b][l] = IF b = p /\ l = i THEN c ELSE old[b][l]
        BY <1>3, <3>1
    <3>4. old[a][k] = old[b][l] => a = b /\ k = l
        BY <1>5, <3>1
    <3> QED BY <2>1, <3>2, <3>3, <3>4
  <2>2. \A n \in Node : Children(new, n) \cap tops = {}
    BY <1>1, <1>6, <1>7 DEF ForestSlots
  <2>3. ASSUME NEW n \in Node, new[n] # <<>>
        PROVE  n \in F \ {s}
    <3>1. n # s /\ Len(new[n]) = Len(old[n]) /\ new[n] \in Seq(Node) /\ old[n] \in Seq(Node)
        BY <1>1, <1>3, <2>3
    <3>2. old[n] # <<>>
        BY <2>3, <3>1, EmptySeq
    <3> QED BY <3>1, <3>2, <1>1, <1>4 DEF ForestSlots
  <2> QED BY <2>1, <2>2, <2>3, <1>10 DEF ForestSlots
<1>12. OnePiece(new, tops)
  <2>1. ASSUME NEW S \in SUBSET (F \ {s}), tops \subseteq S, Closed(new, S)
        PROVE  S = F \ {s}
    <3>1. CASE c \in S
      <4>1. PICK R \in SUBSET F : R = S \cup {s}
        BY <1>6, <2>1
      <4>2. Children(old, s) = {c}
        BY <1>2 DEF Children
      <4>3. \A n \in S : Children(old, n) \subseteq R
        BY <1>9, <2>1, <4>1 DEF Closed
      <4>4. Closed(old, R)
        BY <3>1, <4>1, <4>2, <4>3 DEF Closed
      <4>5. R = F
        BY <1>1, <1>4, <2>1, <4>1, <4>4 DEF OnePiece
      <4> QED BY <2>1, <4>1, <4>5
    <3>2. CASE c \notin S
      <4>1. p \notin S
        BY <1>8, <2>1, <3>2 DEF Closed
      <4>2. \A n \in Node : n # p => s \notin Children(old, n)
        BY <1>1, <1>5 DEF Children
      <4>3. \A n \in S : Children(old, n) \subseteq S
        BY <1>9, <2>1, <4>1, <4>2 DEF Closed
      <4>4. S = F
        BY <1>1, <1>4, <2>1, <4>3 DEF OnePiece, Closed
      <4> QED BY <1>6, <2>1, <4>4
    <3> QED BY <3>1, <3>2
  <2> QED BY <2>1, <1>10 DEF OnePiece
<1> QED BY <1>1, <1>3, <1>4, <1>10, <1>11, <1>12 DEF Hangs

(* The childless q, in slot k of j, is replaced by the new nodes a, b and c *)
Replaces(old, tops, q, j, k, a, b, c, new) ==
    /\ j \in Node /\ k \in DOMAIN old[j] /\ old[j][k] = q /\ old[q] = <<>>
    /\ {a, b, c} \subseteq Node \ Forest(old, tops) /\ a # b /\ a # c /\ b # c
    /\ new = [old EXCEPT ![j][k] = a, ![a] = <<b>>, ![b] = <<c>>]

(* The slots afterwards *)
AfterReplace(old, j, k, a, b, c, new) ==
    /\ new \in [Node -> Seq(Node)] /\ new[a] = <<b>> /\ new[b] = <<c>>
    /\ \A n \in Node : n # a /\ n # b =>
          /\ DOMAIN new[n] = DOMAIN old[n] /\ Len(new[n]) = Len(old[n])
          /\ \A l \in DOMAIN old[n] : new[n][l] = IF n = j /\ l = k THEN a ELSE old[n][l]

LEMMA ReplaceAfter ==
    ASSUME NEW old, NEW tops, Hangs(old, tops), NEW q, NEW j, NEW k, NEW a, NEW b, NEW c, NEW new,
           Replaces(old, tops, q, j, k, a, b, c, new)
    PROVE  /\ AfterReplace(old, j, k, a, b, c, new)
           /\ j # a /\ j # b /\ j # c /\ j # q
           /\ DOMAIN old[a] = {} /\ DOMAIN old[b] = {} /\ DOMAIN old[c] = {} /\ DOMAIN old[q] = {}
<1>1. /\ old \in [Node -> Seq(Node)] /\ ForestSlots(old, tops)
      /\ j \in Node /\ k \in DOMAIN old[j] /\ old[j][k] = q /\ old[q] = <<>>
      /\ a \in Node /\ b \in Node /\ c \in Node /\ a # b /\ a # c /\ b # c
      /\ a \notin Forest(old, tops) /\ b \notin Forest(old, tops) /\ c \notin Forest(old, tops)
      /\ new = [old EXCEPT ![j][k] = a, ![a] = <<b>>, ![b] = <<c>>]
    BY DEF Replaces, Hangs
<1>2. old[a] = <<>> /\ old[b] = <<>> /\ old[c] = <<>>
    BY <1>1 DEF ForestSlots
<1>3. DOMAIN old[a] = {} /\ DOMAIN old[b] = {} /\ DOMAIN old[c] = {} /\ DOMAIN old[q] = {}
    BY <1>1, <1>2
<1>4. j # a /\ j # b /\ j # c /\ j # q
    BY <1>1, <1>3
<1>5. PICK seq : seq = [old[j] EXCEPT ![k] = a] /\ Puts(old, j, k, a, seq)
    BY <1>1, PutInSlot
<1>6. new = [old EXCEPT ![j] = seq, ![a] = <<b>>, ![b] = <<c>>]
    BY <1>1, <1>5
<1>7. /\ new[a] = <<b>> /\ new[b] = <<c>> /\ new[j] = seq /\ DOMAIN new = Node
      /\ \A n \in Node : n # a /\ n # b /\ n # j => new[n] = old[n]
    BY <1>1, <1>4, <1>6
<1>8. new \in [Node -> Seq(Node)]
  <2>1. \A n \in Node : new[n] \in Seq(Node)
    <3>1. seq \in Seq(Node) /\ <<b>> \in Seq(Node) /\ <<c>> \in Seq(Node)
        BY <1>1, <1>5 DEF Puts
    <3>2. new[a] \in Seq(Node) /\ new[b] \in Seq(Node) /\ new[j] \in Seq(Node)
        BY <3>1, <1>7
    <3> QED BY <3>2, <1>1, <1>7
  <2>2. new = [n \in Node |-> new[n]]
    BY <1>6, <1>7
  <2> QED BY <2>1, <2>2
<1>9. AfterReplace(old, j, k, a, b, c, new)
  <2>1. ASSUME NEW n \in Node, n # a, n # b
        PROVE  /\ DOMAIN new[n] = DOMAIN old[n] /\ Len(new[n]) = Len(old[n])
               /\ \A l \in DOMAIN old[n] : new[n][l] = IF n = j /\ l = k THEN a ELSE old[n][l]
    <3>1. CASE n = j
        BY <3>1, <1>5, <1>7 DEF Puts
    <3>2. CASE n # j
        BY <3>2, <2>1, <1>7
    <3> QED BY <3>1, <3>2
  <2> QED BY <2>1, <1>7, <1>8 DEF AfterReplace
<1> QED BY <1>3, <1>4, <1>9

LEMMA ReplaceForest ==
    ASSUME NEW old, NEW tops, Hangs(old, tops), NEW q, NEW j, NEW k, NEW a, NEW b, NEW c, NEW new,
           Replaces(old, tops, q, j, k, a, b, c, new)
    PROVE  /\ Hangs(new, tops)
           /\ Forest(new, tops) = (Forest(old, tops) \ {q}) \cup {a, b, c}
<1>1. /\ old \in [Node -> Seq(Node)] /\ tops \in SUBSET Node
      /\ ForestSlots(old, tops) /\ OnePiece(old, tops)
      /\ j \in Node /\ k \in DOMAIN old[j] /\ old[j][k] = q
      /\ a \in Node /\ b \in Node /\ c \in Node /\ a # b /\ a # c /\ b # c
    BY DEF Hangs, Replaces
<1>2. /\ AfterReplace(old, j, k, a, b, c, new)
      /\ j # a /\ j # b /\ j # c /\ j # q
      /\ DOMAIN old[a] = {} /\ DOMAIN old[b] = {} /\ DOMAIN old[c] = {} /\ DOMAIN old[q] = {}
    BY ReplaceAfter
<1>3. /\ new \in [Node -> Seq(Node)] /\ new[a] = <<b>> /\ new[b] = <<c>>
      /\ \A n \in Node : n # a /\ n # b =>
          /\ DOMAIN new[n] = DOMAIN old[n] /\ Len(new[n]) = Len(old[n])
          /\ \A l \in DOMAIN old[n] : new[n][l] = IF n = j /\ l = k THEN a ELSE old[n][l]
    BY <1>2 DEF AfterReplace
<1>4. DOMAIN new[a] = {1} /\ new[a][1] = b /\ DOMAIN new[b] = {1} /\ new[b][1] = c
    BY <1>3
<1>5. PICK F \in SUBSET Node : /\ F = Forest(old, tops) /\ tops \subseteq F
                               /\ \A n \in Node : Children(old, n) \subseteq F
    BY <1>1, ForestClosed
<1>6. a \notin F /\ b \notin F /\ c \notin F
    BY <1>5 DEF Replaces
<1>7. \A x, y \in Node : \A m \in DOMAIN old[x], l \in DOMAIN old[y] :
             old[x][m] = old[y][l] => x = y /\ m = l
    BY <1>1 DEF ForestSlots
<1>8. q \in F /\ q \notin tops /\ j \in F /\ q # a /\ q # b /\ q # c
  <2>1. q \in Children(old, j)
    BY <1>1 DEF Children
  <2>2. old[j] # <<>>
    BY <1>1
  <2> QED BY <1>1, <1>5, <1>6, <2>1, <2>2 DEF ForestSlots
<1>9. Children(new, a) = {b} /\ Children(new, b) = {c} /\ Children(old, q) = {}
    BY <1>2, <1>4 DEF Children
<1>10. ASSUME NEW n \in Node, n # a, n # b
       PROVE  /\ Children(new, n) \subseteq (Children(old, n) \cup {a}) \ {q}
              /\ Children(old, n) \subseteq Children(new, n) \cup {q}
  <2>1. ASSUME NEW l \in DOMAIN old[n]
        PROVE  new[n][l] = IF n = j /\ l = k THEN a ELSE old[n][l]
    BY <1>3, <1>10
  <2>2. DOMAIN new[n] = DOMAIN old[n]
    BY <1>3, <1>10
  <2>3. \A l \in DOMAIN old[n] : old[n][l] = q <=> n = j /\ l = k
    BY <1>1, <1>7
  <2>4. Children(new, n) \subseteq (Children(old, n) \cup {a}) \ {q}
    BY <1>8, <2>1, <2>2, <2>3 DEF Children
  <2>5. Children(old, n) \subseteq Children(new, n) \cup {q}
    BY <2>1, <2>2, <2>3 DEF Children
  <2> QED BY <2>4, <2>5
<1>11. a \in Children(new, j)
  <2>1. k \in DOMAIN new[j] /\ new[j][k] = a
    BY <1>1, <1>2, <1>3
  <2> QED BY <2>1 DEF Children
<1>12. Children(old, a) = {} /\ Children(old, b) = {} /\ Children(old, c) = {}
    BY <1>2 DEF Children
<1>13. Forest(new, tops) = (F \ {q}) \cup {a, b, c}
  <2>1. ASSUME NEW n \in Forest(new, tops)
        PROVE  n \in (F \ {q}) \cup {a, b, c}
    <3>1. CASE n \in tops
        BY <3>1, <1>5, <1>8
    <3>2. CASE n \notin tops
      <4>1. PICK x \in Node : n \in Children(new, x)
        BY <3>2 DEF Forest
      <4>2. CASE x = a \/ x = b
        BY <4>1, <4>2, <1>9
      <4>3. CASE x # a /\ x # b
        BY <4>1, <4>3, <1>5, <1>10
      <4> QED BY <4>2, <4>3
    <3> QED BY <3>1, <3>2
  <2>2. ASSUME NEW n \in F \ {q}
        PROVE  n \in Forest(new, tops)
    <3>1. CASE n \in tops
        BY <3>1 DEF Forest
    <3>2. CASE n \notin tops
      <4>1. PICK x \in Node : n \in Children(old, x)
        BY <1>5, <3>2 DEF Forest
      <4>2. x # a /\ x # b
        BY <4>1, <1>12
      <4>3. n \in Children(new, x)
        BY <2>2, <4>1, <4>2, <1>10
      <4> QED BY <4>3 DEF Forest
    <3> QED BY <3>1, <3>2
  <2>3. {a, b, c} \subseteq Forest(new, tops)
    BY <1>1, <1>9, <1>11 DEF Forest
  <2> QED BY <2>1, <2>2, <2>3
<1>14. ForestSlots(new, tops)
  <2>1. ASSUME NEW x \in Node, NEW y \in Node, NEW m \in DOMAIN new[x], NEW l \in DOMAIN new[y],
               new[x][m] = new[y][l]
        PROVE  x = y /\ m = l
    <3>1. ASSUME NEW z \in Node, NEW h \in DOMAIN new[z]
          PROVE  \/ z = a /\ h = 1 /\ new[z][h] = b
                 \/ z = b /\ h = 1 /\ new[z][h] = c
                 \/ z = j /\ h = k /\ new[z][h] = a
                 \/ z # a /\ z # b /\ h \in DOMAIN old[z] /\ new[z][h] = old[z][h] /\ new[z][h] \in F
      <4>1. CASE z = a \/ z = b
        BY <4>1, <1>4
      <4>2. CASE z # a /\ z # b
        <5>1. h \in DOMAIN old[z] /\ new[z][h] = IF z = j /\ h = k THEN a ELSE old[z][h]
            BY <1>3, <4>2
        <5>2. old[z][h] \in F
            BY <5>1, <1>5 DEF Children
        <5> QED BY <4>2, <5>1, <5>2
      <4> QED BY <4>1, <4>2
    <3>2. ASSUME x # a, x # b, m \in DOMAIN old[x], new[x][m] = old[x][m],
                 y # a, y # b, l \in DOMAIN old[y], new[y][l] = old[y][l]
          PROVE  x = y /\ m = l
      <4>1. old[x][m] = old[y][l]
        BY <2>1, <3>2
      <4>2. old[x][m] = old[y][l] => x = y /\ m = l
        BY <3>2, <1>7
      <4> QED BY <4>1, <4>2
    <3>3. /\ \/ x = a /\ m = 1 /\ new[x][m] = b
             \/ x = b /\ m = 1 /\ new[x][m] = c
             \/ x = j /\ m = k /\ new[x][m] = a
             \/ x # a /\ x # b /\ m \in DOMAIN old[x] /\ new[x][m] = old[x][m] /\ new[x][m] \in F
          /\ \/ y = a /\ l = 1 /\ new[y][l] = b
             \/ y = b /\ l = 1 /\ new[y][l] = c
             \/ y = j /\ l = k /\ new[y][l] = a
             \/ y # a /\ y # b /\ l \in DOMAIN old[y] /\ new[y][l] = old[y][l] /\ new[y][l] \in F
        BY <3>1
    <3> QED BY <2>1, <3>2, <3>3, <1>1, <1>6
  <2>2. ASSUME NEW n \in Node
        PROVE  Children(new, n) \cap tops = {}
    <3>1. a \notin tops /\ b \notin tops /\ c \notin tops /\ Children(old, n) \cap tops = {}
        BY <1>1, <1>5, <1>6 DEF ForestSlots
    <3> QED BY <3>1, <1>9, <1>10
  <2>3. ASSUME NEW n \in Node, new[n] # <<>>
        PROVE  n \in (F \ {q}) \cup {a, b, c}
    <3> SUFFICES ASSUME n # a, n # b
                 PROVE  n \in F /\ n # q
        OBVIOUS
    <3>1. DOMAIN new[n] = DOMAIN old[n] /\ Len(new[n]) = Len(old[n])
        BY <1>3
    <3>2. new[n] \in Seq(Node) /\ old[n] \in Seq(Node)
        BY <1>1, <1>3
    <3>3. old[n] # <<>>
        BY <2>3, <3>1, <3>2, EmptySeq
    <3> QED BY <3>3, <1>1, <1>5 DEF ForestSlots, Replaces
  <2> QED BY <2>1, <2>2, <2>3, <1>13 DEF ForestSlots
<1>15. OnePiece(new, tops)
  <2>1. ASSUME NEW S \in SUBSET ((F \ {q}) \cup {a, b, c}), tops \subseteq S, Closed(new, S)
        PROVE  S = (F \ {q}) \cup {a, b, c}
    <3>1. PICK R \in SUBSET F : R = (S \cap F) \cup {q}
        BY <1>8
    <3>2. ASSUME NEW n \in R
          PROVE  Children(old, n) \subseteq R
      <4>1. CASE n = q
        BY <4>1, <1>9
      <4>2. CASE n # q
        <5>1. n \in S /\ n \in Node /\ n # a /\ n # b
            BY <4>2, <3>1, <1>5, <1>6
        <5>2. Children(new, n) \subseteq S
            BY <5>1, <2>1 DEF Closed
        <5>3. Children(old, n) \subseteq Children(new, n) \cup {q}
            BY <5>1, <1>10
        <5> QED BY <5>1, <5>2, <5>3, <1>5, <3>1
      <4> QED BY <4>1, <4>2
    <3>3. R = F
      <4>1. tops \subseteq R /\ Closed(old, R)
        BY <1>5, <2>1, <3>1, <3>2 DEF Closed
      <4> QED BY <1>1, <1>5, <4>1 DEF OnePiece
    <3>4. j \in S
        BY <1>2, <1>8, <3>1, <3>3
    <3>5. a \in S
        BY <3>4, <1>11, <2>1 DEF Closed
    <3>6. b \in S
        BY <3>5, <1>9, <2>1 DEF Closed
    <3>7. c \in S
        BY <3>6, <1>9, <2>1 DEF Closed
    <3> QED BY <3>1, <3>3, <3>5, <3>6, <3>7, <2>1
  <2> QED BY <2>1, <1>13 DEF OnePiece
<1> QED BY <1>1, <1>3, <1>5, <1>13, <1>14, <1>15 DEF Hangs

-----------------------------------------------------------------------------
(* The steps of the pass *)

LEMMA OwnedTypes ==
    ASSUME ch \in [Node -> Seq(Node)]
    PROVE  Owned \in [Node -> Seq(Node)] /\ (pc # "select" => Owned = ch)
<1>1. CASE pc = "select"
  <2>1. PICK own : own = Owned /\ own = [ch EXCEPT ![subquery] = <<>>]
    BY <1>1 DEF Owned
  <2>2. \A n \in Node : own[n] = IF n = subquery THEN <<>> ELSE ch[n]
    BY <2>1
  <2>3. <<>> \in Seq(Node)
    BY EmptySeq
  <2>4. \A n \in Node : own[n] \in Seq(Node)
    BY <2>2, <2>3
  <2>5. own = [n \in Node |-> own[n]]
    BY <2>1
  <2> QED BY <1>1, <2>1, <2>4, <2>5
<1>2. CASE pc # "select"
    BY <1>2 DEF Owned
<1> QED BY <1>1, <1>2

(* What the invariant says about the heap *)
LEMMA Standing ==
    ASSUME FInv
    PROVE  /\ Hangs(Owned, Tops(root, ctes))
           /\ Owned \in [Node -> Seq(Node)] /\ DOMAIN node = Node
           /\ Tops(root, ctes) \subseteq Forest(Owned, Tops(root, ctes))
           /\ Forest(Owned, Tops(root, ctes)) \in SUBSET Node
           /\ \A n \in Node : Children(Owned, n) \subseteq Forest(Owned, Tops(root, ctes))
           /\ \A n \in Node : Children(Owned, n) \cap Tops(root, ctes) = {}
           /\ \A n \in Node : n \notin Forest(Owned, Tops(root, ctes)) => Owned[n] = <<>>
<1>1. HeapTypes /\ IsForest(Owned, Tops(root, ctes))
    BY DEF FInv, ForestKept
<1>2. ch \in [Node -> Seq(Node)] /\ DOMAIN node = Node /\ root \in Node /\ ctes \in Seq(Node)
    BY <1>1 DEF HeapTypes
<1>3. PICK own \in [Node -> Seq(Node)] : own = Owned
    BY <1>2, OwnedTypes
<1>4. PICK tops \in SUBSET Node : tops = Tops(root, ctes)
  <2>1. Tops(root, ctes) \subseteq Node
    BY <1>2 DEF Tops
  <2> QED BY <2>1
<1>5. Hangs(own, tops)
    BY <1>1, <1>3, <1>4, HangsForest
<1>6. /\ \A n \in Node : Children(own, n) \cap tops = {}
      /\ \A n \in Node : n \notin Forest(own, tops) => own[n] = <<>>
    BY <1>5 DEF Hangs, ForestSlots
<1>7. /\ tops \subseteq Forest(own, tops) /\ Forest(own, tops) \in SUBSET Node
      /\ \A n \in Node : Children(own, n) \subseteq Forest(own, tops)
    BY ForestClosed
<1> QED BY <1>2, <1>3, <1>4, <1>5, <1>6, <1>7

(* A node with one child *)
LEMMA OneChild ==
    ASSUME NEW children \in [Node -> Seq(Node)], NEW n \in Node, Len(children[n]) = 1
    PROVE  /\ children[n] = <<children[n][1]>> /\ DOMAIN children[n] = {1}
           /\ children[n][1] \in Children(children, n)
<1>1. children[n] \in Seq(Node) /\ DOMAIN children[n] = 1 .. Len(children[n])
    BY LenProperties
<1>2. DOMAIN children[n] = {1}
    BY <1>1
<1>3. children[n] = <<children[n][1]>>
    BY <1>1, <1>2
<1> QED BY <1>2, <1>3 DEF Children

(* The subquery of a join is one of its two children *)
LEMMA SubqueryChild ==
    ASSUME FInv, NEW j, HasSubquery(node, Owned, Tops(root, ctes), j)
    PROVE  /\ j \in Node /\ DOMAIN Owned[j] = {1, 2} /\ Len(Owned[j]) = 2
           /\ Owned[j] = ch[j]
           /\ Owned[j][2] \in Children(Owned, j)
           /\ Owned[j][2] \in Forest(Owned, Tops(root, ctes)) /\ Owned[j][2] \in Node
           /\ Owned[j][2] \notin Tops(root, ctes)
<1>1. /\ j \in Forest(Owned, Tops(root, ctes)) /\ node[j].node_case = "JOIN"
      /\ node[Owned[j][2]].node_case = "PROJECTION"
    BY DEF HasSubquery
<1>2. j \in Node /\ Owned[j] \in Seq(Node)
    BY <1>1, Standing
<1>3. pc = "select" => node[subquery].node_case = "PROJECTION"
    BY DEF FInv, SearchInv
<1>4. IsWhole(node, Owned, j)
    BY <1>1, <1>3 DEF FInv, ForestKept
<1>5. Len(Owned[j]) = 2
    BY <1>1, <1>4 DEF IsWhole, is_full, n_children
<1>6. DOMAIN Owned[j] = 1 .. 2
    BY <1>2, <1>5, LenProperties
<1>7. DOMAIN Owned[j] = {1, 2}
    BY <1>6
<1>8. Owned[j][2] \in Children(Owned, j)
    BY <1>7 DEF Children
<1>9. Owned[j] = ch[j]
  <2>1. pc = "select" => j # subquery
    BY <1>1, <1>3
  <2>2. ch \in [Node -> Seq(Node)]
    BY DEF FInv, HeapTypes
  <2> QED BY <1>2, <2>1, <2>2 DEF Owned
<1> QED BY <1>2, <1>5, <1>7, <1>8, <1>9, Standing

(* The join the loop is at *)
LEMMA CurrentJoin ==
    ASSUME FInv, pc # "find", mi > 0, join # 0
    PROVE  /\ HasSubquery(node, Owned, Tops(root, ctes), join)
           /\ node[join].node_case = "JOIN" /\ node[subquery].node_case = "PROJECTION"
           /\ join \in Node /\ DOMAIN Owned[join] = {1, 2}
           /\ subquery = Owned[join][2] /\ subquery \in Children(Owned, join)
           /\ subquery \in Forest(Owned, Tops(root, ctes)) /\ subquery \in Node
           /\ subquery \notin Tops(root, ctes)
<1>1. mi \in 1 .. mi
    BY DEF FInv, SearchInv
<1>2. HasSubquery(node, Owned, Tops(root, ctes), join)
    BY <1>1 DEF FInv, SearchInv, join
<1>3. Owned[join] = ch[join]
    BY <1>2, SubqueryChild
<1>4. subquery = Owned[join][2]
    BY <1>3 DEF subquery
<1>5. node[join].node_case = "JOIN" /\ node[subquery].node_case = "PROJECTION"
    BY <1>2, <1>4 DEF HasSubquery
<1> QED BY <1>2, <1>4, <1>5, SubqueryChild

(* The searches change the position only *)
LEMMA SearchInvariant ==
    ASSUME FInv, SearchInv', pc # "select", pc' # "select", Decorrelating',
           UNCHANGED <<node, ch, root, fresh, ctes, counter>>
    PROVE  FInv'
<1>1. Owned = ch /\ Owned' = Owned
    BY DEF Owned
<1>2. HeapTypes' /\ CteNamesFree'
    BY <1>1 DEF FInv, HeapTypes, CteNamesFree
<1>3. ForestKept'
    BY <1>1 DEF FInv, ForestKept, Decorrelating
<1> QED BY <1>2, <1>3 DEF FInv

LEMMA FindMarkersInv ==
    ASSUME FInv, FindMarkers
    PROVE  FInv'
<1> DEFINE T == Tops(root, ctes)
           F == Forest(ch, T)
           markers == find_subquery_markers(node, ch, pred, term, root, ExistsInDependent)
           M == {t \in DOMAIN term : term[t].op = "marker"}
<1>1. /\ pc = "find" /\ pc' = "correlation"
      /\ UNCHANGED <<node, ch, pred, term, root, fresh, columns, ctes, counter, status, sel, cor>>
      /\ mi' = Len(markers)
      /\ markers_joins' = [i \in DOMAIN markers |->
             [marker |-> markers[i], join |-> find_join_by_marker(node, ch, root, term[markers[i]].id)]]
    BY DEF FindMarkers
<1>2. SubqueriesRight /\ TermsOK /\ Owned = ch /\ Owned' = Owned
    BY <1>1 DEF FInv, SearchInv, Owned
<1>3. /\ Hangs(ch, T) /\ ch \in [Node -> Seq(Node)] /\ F \in SUBSET Node
      /\ Closed(ch, F) /\ root \in F /\ root \in Node
  <2>1. Hangs(ch, T) /\ ch \in [Node -> Seq(Node)] /\ F \in SUBSET Node
        /\ \A n \in Node : Children(ch, n) \subseteq F
    BY <1>2, Standing
  <2>2. root \in F
    BY <1>2, Standing DEF Tops
  <2> QED BY <2>1, <2>2 DEF Closed
<1>4. Grounded(Node, Down(ch))
    BY <1>3, HangsGrounded
<1> HIDE DEF F, T
<1>5. Preorder(ch, root) \in Seq(F)
    BY <1>3, <1>4, PreorderIn
<1>6. Preorder(ch, root) \in Seq(Node)
  <2>1. Closed(ch, Node)
    BY <1>3 DEF Closed, Children
  <2> QED BY <1>3, <1>4, <2>1, PreorderIn
<1>7. markers \in Seq(M)
    BY <1>2, <1>6, MarkersFound DEF TermsOK, find_subquery_markers
<1> HIDE DEF markers
<1>8. Len(markers) \in Nat /\ DOMAIN markers = 1 .. Len(markers)
    BY <1>7, LenProperties
<1>9. ASSUME NEW i \in 1 .. Len(markers)
      PROVE  \/ markers_joins'[i].join = 0
             \/ HasSubquery(node, Owned, Tops(root, ctes), markers_joins'[i].join)
  <2>1. markers[i] \in M
    BY <1>7, <1>8
  <2>2. term[markers[i]].id # 0
    BY <2>1, <1>2 DEF TermsOK
  <2>3. PICK id : id = term[markers[i]].id
    OBVIOUS
  <2>4. markers_joins'[i].join = find_join_by_marker(node, ch, root, id)
    BY <1>1, <1>8, <2>3
  <2>5. PICK A : A = {n \in Node : node[n].node_case = "JOIN" /\ node[n].marker = id}
    OBVIOUS
  <2>6. markers_joins'[i].join = FirstNode(Preorder(ch, root), A)
    BY <2>4, <2>5 DEF find_join_by_marker
  <2>7. markers_joins'[i].join = 0 \/ markers_joins'[i].join \in F \cap A
    BY <1>5, <2>6, FirstNodeIn
  <2> QED BY <1>2, <2>2, <2>3, <2>5, <2>7 DEF SubqueriesRight, F, T
<1>10. SearchInv'
    BY <1>1, <1>2, <1>8, <1>9 DEF SearchInv
<1> QED BY <1>1, <1>10, SearchInvariant DEF Decorrelating

LEMMA DiesInv ==
    ASSUME FInv, UNCHANGED <<node, ch, pred, term, root, fresh, columns, ctes, counter, pc,
                             markers_joins, mi, sel, cor>>
    PROVE  FInv'
<1>1. Owned' = Owned /\ subquery' = subquery /\ join' = join
    BY DEF Owned, subquery, join
<1>2. Decorrelating' /\ HeapTypes' /\ CteNamesFree'
    BY <1>1 DEF FInv, Decorrelating, HeapTypes, CteNamesFree
<1>3. ForestKept'
    BY <1>1 DEF FInv, ForestKept, Decorrelating
<1>4. SearchInv'
    BY <1>1 DEF FInv, SearchInv, SubqueriesRight, TermsOK
<1> QED BY <1>2, <1>3, <1>4 DEF FInv

LEMMA FindCorrelationInv ==
    ASSUME FInv, FindCorrelation
    PROVE  FInv'
<1> DEFINE s == get_first_selection(ch[subquery][1])
           A == {n \in Node : node[n].node_case = "SELECTION"}
           Hung == UNION {Children(ch, p) : p \in Node}
<1>1. pc = "correlation" /\ mi > 0
    BY DEF FindCorrelation
<1>2. Owned = ch
    BY <1>1 DEF Owned
<1>3. CASE \E why : Dies(why)
    BY <1>3, DiesInv DEF Dies
<1>4. CASE ~ \E why : Dies(why)
  <2>1. join # 0 /\ s # 0
    BY <1>4 DEF FindCorrelation
  <2>2. /\ sel' = s /\ pc' = "move"
        /\ UNCHANGED <<node, ch, pred, term, root, fresh, columns, ctes, counter, status, markers_joins, mi>>
    BY <2>1 DEF FindCorrelation
  <2>3. /\ Hangs(ch, Tops(root, ctes)) /\ ch \in [Node -> Seq(Node)]
        /\ subquery \in Forest(ch, Tops(root, ctes)) /\ subquery \in Node
        /\ node[subquery].node_case = "PROJECTION"
    BY <1>1, <1>2, <2>1, Standing, CurrentJoin
  <2>4. Grounded(Node, Down(ch))
    BY <2>3, HangsGrounded
  <2>5. Len(ch[subquery]) = 1
    BY <1>1, <1>2, <2>3 DEF FInv, ForestKept, IsWhole, is_full, n_children
  <2>6. Hung \in SUBSET Node /\ Closed(ch, Hung)
    BY <2>3 DEF Closed, Children
  <2>7. PICK x : x = ch[subquery][1]
    OBVIOUS
  <2>8. x \in Hung
    BY <2>3, <2>5, <2>7, OneChild
  <2>9. Preorder(ch, x) \in Seq(Hung)
    <3> HIDE DEF Hung
    <3> QED BY <2>3, <2>4, <2>6, <2>8, PreorderIn
  <2>10. s = FirstNode(Preorder(ch, x), A)
    BY <2>7 DEF get_first_selection
  <2>11. s \in Hung \cap A
    <3> HIDE DEF Hung, A, s
    <3> QED BY <2>1, <2>9, <2>10, FirstNodeIn
  <2>12. /\ sel' \in Node /\ node[sel'].node_case = "SELECTION"
         /\ \E p \in Node : sel' \in Children(ch, p)
    BY <2>2, <2>11
  <2>13. SearchInv'
    <3>1. Owned' = Owned /\ join' = join /\ subquery' = subquery
        BY <1>1, <2>2 DEF Owned, join, subquery
    <3> QED BY <1>1, <2>1, <2>2, <2>3, <2>12, <3>1 DEF FInv, SearchInv
  <2> QED BY <1>1, <2>2, <2>13, SearchInvariant DEF Decorrelating
<1> QED BY <1>3, <1>4

LEMMA DecorrelatedInv ==
    ASSUME FInv, Decorrelated
    PROVE  FInv'
<1>1. /\ pc = "correlation" /\ pc' = "unnest"
      /\ UNCHANGED <<node, ch, pred, term, root, fresh, columns, ctes, counter, status,
                     markers_joins, mi, sel, cor>>
    BY DEF Decorrelated
<1>2. Owned' = Owned
    BY <1>1 DEF Owned
<1>3. SearchInv'
    BY <1>1, <1>2 DEF FInv, SearchInv
<1> QED BY <1>1, <1>3, SearchInvariant DEF Decorrelating

(* Where the parent search finds a node that hangs in a slot *)
LEMMA SlotFound ==
    ASSUME NEW children, NEW p \in Node, NEW x \in Children(children, p)
    PROVE  \E q, i : /\ get_node_parent(children, x)[1] = q /\ get_node_parent(children, x)[2] = i
                     /\ q \in Node /\ i \in DOMAIN children[q] /\ children[q][i] = x
<1>1. PICK i \in DOMAIN children[p] : children[p][i] = x
    BY DEF Children
<1> DEFINE Slots == UNION {{q} \X DOMAIN children[q] : q \in Node}
<1>2. <<p, i>> \in Slots /\ children[<<p, i>>[1]][<<p, i>>[2]] = x
    BY <1>1
<1>3. PICK slot \in Slots : slot = get_node_parent(children, x) /\ children[slot[1]][slot[2]] = x
    BY <1>2 DEF get_node_parent
<1>4. slot[1] \in Node /\ slot[2] \in DOMAIN children[slot[1]]
    BY <1>3
<1> QED BY <1>3, <1>4

(***************************************************************************)
(* What moving the subtree of the subquery q below the new node f leaves,  *)
(* the selection s being cut out or not.                                   *)
(***************************************************************************)
Moved(tops, q, f, s, new) ==
    LET old  == Forest(ch, tops)
        left == Forest(new, tops \cup {f})
    IN  /\ Hangs(new, tops \cup {f})
        /\ left \subseteq old \cup {f} /\ (old \cup {f}) \ {s} \subseteq left
        /\ new[q] = <<>> /\ Len(new[f]) = 1
        /\ \A n \in old \cap left : n # q => Len(new[n]) = Len(ch[n])
        /\ \A n \in old \cap left : n # q => \A i \in DOMAIN ch[n] : ch[n][i] # s => new[n][i] = ch[n][i]

(* The step that moves a subquery *)
LEMMA MoveToCteMoves ==
    ASSUME FInv, MoveToCte, ~ \E why : Dies(why)
    PROVE  /\ Owned = ch /\ subquery' = subquery /\ ch' \in [Node -> Seq(Node)]
           /\ Moved(Tops(root, ctes), subquery, fresh, sel, Owned')
           /\ fresh \in Node /\ fresh \notin Forest(ch, Tops(root, ctes))
<1> DEFINE tops  == Tops(root, ctes)
           q     == subquery
           x     == ch[subquery][1]
           f     == fresh
           both  == [ch EXCEPT ![f] = <<x>>]
           taken == [ch EXCEPT ![f] = <<x>>, ![q] = <<>>]
           slot  == get_node_parent(taken, sel)
           c     == ch[sel][1]
<1>1. /\ pc = "move" /\ pc' = "select" /\ f \in Node /\ UNCHANGED <<markers_joins, mi>>
      /\ \/ ch' = both
         \/ ch' = [both EXCEPT ![slot[1]][slot[2]] = both[sel][1], ![sel] = <<>>]
  <2>1. [both EXCEPT ![q] = <<>>] = taken
    OBVIOUS
  <2> QED BY <2>1 DEF MoveToCte, CutOut
<1>2. /\ mi > 0 /\ join # 0 /\ sel \in Node /\ node[sel].node_case = "SELECTION"
      /\ \E p \in Node : sel \in Children(ch, p)
    BY <1>1 DEF FInv, SearchInv
<1>3. Owned = ch
    BY <1>1 DEF Owned
<1>4. PICK F \in SUBSET Node :
         /\ F = Forest(ch, tops) /\ Hangs(ch, tops) /\ ch \in [Node -> Seq(Node)]
         /\ \A n \in Node : Children(ch, n) \subseteq F
         /\ \A n \in Node : Children(ch, n) \cap tops = {}
         /\ \A n \in Node : n \notin F => ch[n] = <<>>
    BY <1>3, Standing
<1>5. /\ q \in F /\ q \in Node /\ node[q].node_case = "PROJECTION"
      /\ join \in Node /\ node[join].node_case = "JOIN" /\ DOMAIN ch[join] = {1, 2}
      /\ q = ch[join][2] /\ q \in Children(ch, join) /\ join \in F
    BY <1>1, <1>2, <1>4, <1>3, CurrentJoin DEF HasSubquery
<1>6. sel \in F /\ sel \notin tops /\ sel # q
    BY <1>2, <1>4, <1>5
<1>7. \A n \in F : IsWhole(node, ch, n) /\ n < f
    BY <1>1, <1>4, <1>3 DEF FInv, ForestKept, HeapTypes
<1>8. f \notin F /\ f \in Nat
    BY <1>7 DEF FInv, HeapTypes
<1>9. Len(ch[q]) = 1 /\ Len(ch[sel]) = 1
    BY <1>2, <1>5, <1>6, <1>7 DEF IsWhole, is_full, n_children
<1>10. ch[q] = <<x>> /\ ch[sel] = <<c>>
    BY <1>2, <1>4, <1>5, <1>9, OneChild
<1>11. Moves(ch, q, x, f, taken)
    BY <1>1, <1>4, <1>5, <1>8, <1>10 DEF Moves
<1> HIDE DEF tops, q, x, f, taken, both, c
<1>12. Hangs(taken, tops \cup {f}) /\ Forest(taken, tops \cup {f}) = F \cup {f}
  <2>1. Hangs(ch, tops) /\ f \notin Forest(ch, tops)
    BY <1>4, <1>8
  <2>2. /\ Hangs(taken, tops \cup {f})
        /\ Forest(taken, tops \cup {f}) = Forest(ch, tops) \cup {f}
    BY <1>11, <2>1, MoveForest
  <2> QED BY <1>4, <2>2
<1>13. /\ taken \in [Node -> Seq(Node)] /\ taken[q] = <<>> /\ taken[f] = <<x>>
       /\ \A n \in Node : n # q /\ n # f => taken[n] = ch[n]
    BY <1>4, <1>11, MoveSlots
<1>14. Len(taken[f]) = 1 /\ Len(taken[q]) = 0 /\ DOMAIN taken[q] = {}
    BY <1>13
<1>15. /\ taken = [both EXCEPT ![q] = <<>>] /\ DOMAIN both = Node
       /\ both[sel] = <<c>> /\ both[join] = ch[join] /\ join # q /\ join # f /\ join # sel /\ sel # f
  <2>1. DOMAIN both = Node /\ taken = [both EXCEPT ![q] = <<>>]
    BY <1>4 DEF both, taken
  <2>2. join # q /\ join # f /\ join # sel /\ sel # f
    BY <1>2, <1>5, <1>6, <1>8
  <2>3. both[sel] = ch[sel] /\ both[join] = ch[join]
    BY <1>2, <1>4, <1>5, <2>2 DEF both
  <2> QED BY <2>1, <2>2, <2>3, <1>10
<1>16. both \in [Node -> Seq(Node)]
  <2>1. \A n \in Node : n # f => both[n] = ch[n]
    BY <1>4 DEF both
  <2>2. both[f] = taken[f]
    BY <1>1, <1>4, <1>13 DEF both, f
  <2>3. f \in Node
    BY <1>1 DEF f
  <2>4. \A n \in Node : both[n] \in Seq(Node)
    BY <1>4, <1>13, <2>1, <2>2, <2>3
  <2>5. both = [n \in Node |-> both[n]]
    BY <1>4 DEF both
  <2> QED BY <2>4, <2>5
<1>17. CASE ch' = both
  <2>1. subquery' = q
    BY <1>1, <1>5, <1>15, <1>17 DEF subquery, join
  <2>2. Owned' = taken
    BY <1>1, <1>15, <1>17, <2>1 DEF Owned
  <2>3. Moved(tops, q, f, sel, taken)
    BY <1>4, <1>8, <1>12, <1>13, <1>14 DEF Moved
  <2> QED BY <2>1, <2>2, <2>3, <1>1, <1>4, <1>8, <1>17, <1>16, <1>3 DEF tops, q, f
<1>18. CASE ch' = [both EXCEPT ![slot[1]][slot[2]] = both[sel][1], ![sel] = <<>>]
  <2>1. sel # f /\ taken[sel] = <<c>>
    BY <1>2, <1>6, <1>8, <1>10, <1>13
  <2>2. PICK p \in Node : sel \in Children(taken, p)
    BY <1>6, <1>12, <2>1 DEF Forest
  <2>3. PICK r, i : slot[1] = r /\ slot[2] = i /\ r \in Node /\ i \in DOMAIN taken[r] /\ taken[r][i] = sel
    BY <2>2, SlotFound
  <2>4. r # q /\ r # sel
    <3>1. sel \in Children(taken, r)
        BY <2>3 DEF Children
    <3> QED BY <3>1, <1>2, <1>12, <1>14, <2>3, ParentDiffers
  <2>5. ch' = [both EXCEPT ![r][i] = c, ![sel] = <<>>]
    <3>1. both[sel][1] = c
        BY <1>15
    <3> HIDE DEF slot
    <3> QED BY <1>18, <2>3, <3>1
  <2>6. subquery' = q
    <3>1. ~(r = join /\ i = 2)
        BY <1>4, <1>5, <1>6, <1>13, <1>15, <2>3
    <3>2. ch'[join] = IF join = r THEN [ch[join] EXCEPT ![i] = c] ELSE ch[join]
        BY <1>5, <1>15, <2>3, <2>4, <2>5
    <3>3. ch'[join][2] = q
        BY <1>4, <1>5, <3>1, <3>2
    <3> QED BY <1>1, <3>3 DEF subquery, join
  <2>7. PICK new : new = [taken EXCEPT ![r][i] = c, ![sel] = <<>>]
    OBVIOUS
  <2>8. Owned' = new
    <3>1. Owned' = [ch' EXCEPT ![q] = <<>>]
        BY <1>1, <2>6 DEF Owned
    <3>2. [[both EXCEPT ![r][i] = c, ![sel] = <<>>] EXCEPT ![q] = <<>>]
            = [[both EXCEPT ![q] = <<>>] EXCEPT ![r][i] = c, ![sel] = <<>>]
        BY <1>2, <1>5, <1>6, <1>15, <2>3, <2>4
    <3> QED BY <1>15, <2>5, <2>7, <3>1, <3>2
  <2>9. Cuts(taken, sel, r, i, c, new)
    BY <1>2, <2>1, <2>3, <2>7 DEF Cuts
  <2>10. Hangs(new, tops \cup {f}) /\ Forest(new, tops \cup {f}) = (F \cup {f}) \ {sel}
    BY <1>12, <2>9, CutForest
  <2>11. AfterCut(taken, sel, r, i, c, new)
    BY <1>12, <2>9, CutAfter
  <2>12. /\ new \in [Node -> Seq(Node)]
         /\ \A n \in Node : n # sel =>
             /\ DOMAIN new[n] = DOMAIN taken[n] /\ Len(new[n]) = Len(taken[n])
             /\ \A l \in DOMAIN taken[n] : new[n][l] = IF n = r /\ l = i THEN c ELSE taken[n][l]
    BY <2>11 DEF AfterCut
  <2>13. new[q] = <<>>
    <3>1. Len(new[q]) = 0 /\ new[q] \in Seq(Node)
        BY <1>5, <1>6, <1>14, <2>12
    <3> QED BY <3>1, EmptySeq
  <2>14. Len(new[f]) = 1
    BY <1>1, <1>14, <2>1, <2>12 DEF f
  <2>15. ASSUME NEW n \in F, n # sel, n # q
         PROVE  Len(new[n]) = Len(ch[n]) /\ \A l \in DOMAIN ch[n] : ch[n][l] # sel => new[n][l] = ch[n][l]
    <3>1. n \in Node /\ taken[n] = ch[n]
        BY <1>8, <1>13, <2>15
    <3>2. \A l \in DOMAIN taken[n] : new[n][l] = IF n = r /\ l = i THEN c ELSE taken[n][l]
        BY <2>12, <2>15, <3>1
    <3>3. \A l \in DOMAIN ch[n] : ch[n][l] # sel => new[n][l] = ch[n][l]
        BY <2>3, <3>1, <3>2
    <3>4. Len(new[n]) = Len(ch[n])
        BY <2>12, <2>15, <3>1
    <3> QED BY <3>3, <3>4
  <2>16. Moved(tops, q, f, sel, new)
    BY <1>4, <2>10, <2>13, <2>14, <2>15 DEF Moved
  <2>17. ch' \in [Node -> Seq(Node)]
    <3>1. DOMAIN ch' = Node /\ ch' = [n \in Node |-> ch'[n]]
        BY <1>15, <2>5
    <3>2. \A n \in Node : n # q => ch'[n] = new[n]
        BY <1>1, <2>6, <2>8, <3>1 DEF Owned
    <3>3. ch'[q] = both[q]
        BY <1>5, <1>6, <1>15, <2>4, <2>5
    <3>4. \A n \in Node : ch'[n] \in Seq(Node)
        BY <1>5, <1>16, <2>12, <3>2, <3>3
    <3> QED BY <3>1, <3>4
  <2> QED BY <2>6, <2>8, <2>16, <2>17, <1>1, <1>4, <1>8, <1>3 DEF tops, q, f
<1> QED BY <1>1, <1>17, <1>18

LEMMA MoveToCteInv ==
    ASSUME FInv, MoveToCte
    PROVE  FInv'
<1>1. CASE \E why : Dies(why)
    BY <1>1, DiesInv DEF Dies
<1>2. CASE ~ \E why : Dies(why)
  <2> DEFINE label == [NewNode("PROJECTION") EXCEPT !.alias = CteName(counter),
                           !.args = [i \in DOMAIN cor |-> cor[i].inner]]
  <2>1. /\ pc = "move" /\ pc' = "select"
        /\ node' = [node EXCEPT ![fresh] = label]
        /\ ctes' = Append(ctes, fresh) /\ counter' = counter + 1 /\ fresh' = fresh + 1
        /\ UNCHANGED <<root, status, markers_joins, mi, sel, cor>>
    BY <1>2 DEF MoveToCte
  <2>2. label.node_case = "PROJECTION" /\ label.alias = CteName(counter)
    BY DEF NewNode
  <2> HIDE DEF label
  <2>3. PICK q, f, tops, F :
           /\ q = subquery /\ f = fresh /\ tops = Tops(root, ctes) /\ F = Forest(ch, tops)
    OBVIOUS
  <2>4. /\ Owned = ch /\ ch \in [Node -> Seq(Node)] /\ DOMAIN node = Node /\ F \in SUBSET Node
        /\ tops \subseteq F /\ \A n \in Node : Children(ch, n) \cap tops = {}
    BY <1>2, <2>3, Standing, MoveToCteMoves
  <2>5. /\ mi \in Nat /\ mi > 0 /\ join # 0 /\ sel \in Node /\ node[sel].node_case = "SELECTION"
        /\ \A i \in 1 .. mi : markers_joins[i].join = 0 \/ HasSubquery(node, ch, tops, markers_joins[i].join)
    BY <2>1, <2>3, <2>4 DEF FInv, SearchInv
  <2>6. /\ q \in F /\ q \in Node /\ node[q].node_case = "PROJECTION" /\ q = ch[join][2]
        /\ HasSubquery(node, ch, tops, join)
    BY <2>1, <2>3, <2>4, <2>5, CurrentJoin
  <2>7. PICK new : /\ new = Owned' /\ Moved(tops, q, f, sel, new) /\ f \in Node /\ f \notin F
                   /\ subquery' = q
    BY <1>2, <2>3, MoveToCteMoves
  <2>8. PICK L : L = Forest(new, tops \cup {f})
    OBVIOUS
  <2>9. /\ Hangs(new, tops \cup {f})
        /\ L \subseteq F \cup {f} /\ (F \cup {f}) \ {sel} \subseteq L
        /\ new[q] = <<>> /\ Len(new[f]) = 1
        /\ \A n \in F \cap L : n # q => Len(new[n]) = Len(ch[n])
        /\ \A n \in F \cap L : n # q => \A i \in DOMAIN ch[n] : ch[n][i] # sel => new[n][i] = ch[n][i]
    BY <2>3, <2>7, <2>8 DEF Moved
  <2>10. ctes \in Seq(Node) /\ root \in Node /\ \A i \in DOMAIN ctes : ctes[i] \in tops
    BY <2>3 DEF FInv, HeapTypes, Tops
  <2>11. /\ ctes' \in Seq(Node) /\ DOMAIN ctes' = 1 .. Len(ctes) + 1 /\ Len(ctes) \in Nat
         /\ ctes'[Len(ctes) + 1] = f /\ \A i \in 1 .. Len(ctes) : ctes'[i] = ctes[i]
         /\ DOMAIN ctes = 1 .. Len(ctes)
    <3>1. ctes' = Append(ctes, f)
        BY <2>1, <2>3
    <3> QED BY <3>1, <2>7, <2>10, AppendProperties, LenProperties
  <2>12. Tops(root', ctes') = tops \cup {f}
    BY <2>1, <2>3, <2>10, <2>11 DEF Tops
  <2>13. L = Forest(new, Tops(root', ctes'))
    BY <2>8, <2>12
  <2>14. /\ DOMAIN node' = Node /\ node'[f] = label
         /\ \A n \in Node : n # f => node'[n] = node[n]
    BY <2>1, <2>3, <2>4, <2>7
  <2>15. new \in [Node -> Seq(Node)] /\ tops \cup {f} \in SUBSET Node
    BY <2>9 DEF Hangs
  <2>16. fresh \in Nat \ {0} /\ \A n \in F : n < fresh
    BY <2>3, <2>4 DEF FInv, HeapTypes
  <2>17. HeapTypes'
    <3>1. \A n \in L : n < fresh'
        BY <2>1, <2>3, <2>4, <2>9, <2>16 DEF Node
    <3>2. ch' \in [Node -> Seq(Node)]
        BY <1>2, MoveToCteMoves
    <3> QED BY <3>1, <3>2, <2>1, <2>7, <2>10, <2>11, <2>13, <2>14, <2>16 DEF HeapTypes
  <2>18. IsForest(new, Tops(root', ctes'))
    BY <2>9, <2>12, <2>15, HangsForest
  <2>19. ASSUME NEW n \in L, n # q
         PROVE  IsWhole(node', new, n)
    <3>1. CASE n = f
        BY <3>1, <2>2, <2>9, <2>14 DEF IsWhole, is_full, n_children
    <3>2. CASE n # f
      <4>1. n \in F \cap L /\ n \in Node
        BY <3>2, <2>4, <2>9
      <4>2. IsWhole(node, ch, n)
        BY <4>1, <2>1, <2>3, <2>4 DEF FInv, ForestKept
      <4>3. Len(new[n]) = Len(ch[n]) /\ node'[n] = node[n]
        BY <4>1, <3>2, <2>9, <2>14, <2>19
      <4> QED BY <4>2, <4>3 DEF IsWhole, is_full
    <3> QED BY <3>1, <3>2
  <2>20. ASSUME NEW j, HasSubquery(node, ch, tops, j)
         PROVE  HasSubquery(node', new, Tops(root', ctes'), j)
    <3>1. /\ j \in F /\ node[j].node_case = "JOIN" /\ node[ch[j][2]].node_case = "PROJECTION"
          /\ j \in Node /\ DOMAIN ch[j] = {1, 2} /\ ch[j][2] \in F
        BY <2>3, <2>4, <2>20, SubqueryChild DEF HasSubquery
    <3>2. j # sel /\ j # q /\ j # f /\ ch[j][2] # sel /\ ch[j][2] # f
        BY <3>1, <2>5, <2>6, <2>7
    <3>3. j \in F \cap L
        BY <3>1, <3>2, <2>9
    <3>4. new[j][2] = ch[j][2]
        BY <3>1, <3>2, <3>3, <2>9
    <3>5. node'[j] = node[j] /\ node'[ch[j][2]] = node[ch[j][2]]
        BY <3>1, <3>2, <2>4, <2>14
    <3> QED BY <3>1, <3>3, <3>4, <3>5, <2>13 DEF HasSubquery
  <2>21. node'[q].node_case = "PROJECTION"
    BY <2>6, <2>7, <2>14
  <2>22. ASSUME NEW i \in DOMAIN ctes
         PROVE  /\ node'[ctes[i]] = node[ctes[i]]
                /\ node[ctes[i]].alias[1] = CteName(0)[1] => node[ctes[i]].alias[2] \in 0 .. counter - 1
                /\ node[ctes[i]].alias # CteName(counter)
    <3>1. ctes[i] \in F /\ ctes[i] # f /\ ctes[i] \in Node
        BY <2>4, <2>7, <2>10
    <3>2. counter \in Nat /\ (node[ctes[i]].alias[1] = CteName(0)[1] => node[ctes[i]].alias[2] \in 0 .. counter - 1)
        BY DEF FInv, CteNamesFree
    <3>3. node[ctes[i]].alias # CteName(counter)
        BY <3>2 DEF CteName
    <3> QED BY <3>1, <3>2, <3>3, <2>14
  <2>23. CteNamesDiffer(node', ctes')
    <3> SUFFICES ASSUME NEW i \in DOMAIN ctes', NEW j \in DOMAIN ctes',
                        node'[ctes'[i]].alias = node'[ctes'[j]].alias
                 PROVE  i = j
        BY DEF CteNamesDiffer
    <3>1. CASE i \in DOMAIN ctes /\ j \in DOMAIN ctes
      <4>1. node[ctes[i]].alias = node[ctes[j]].alias
        BY <3>1, <2>11, <2>22
      <4> QED BY <3>1, <4>1 DEF FInv, ForestKept, CteNamesDiffer
    <3>2. CASE i \in DOMAIN ctes /\ j = Len(ctes) + 1
        BY <3>2, <2>2, <2>11, <2>14, <2>22
    <3>3. CASE i = Len(ctes) + 1 /\ j \in DOMAIN ctes
        BY <3>3, <2>2, <2>11, <2>14, <2>22
    <3> QED BY <3>1, <3>2, <3>3, <2>11
  <2>24. CteNamesFree'
    <3>1. counter \in Nat /\ counter' = counter + 1
        BY <2>1 DEF FInv, CteNamesFree
    <3>2. ASSUME NEW i \in DOMAIN ctes', node'[ctes'[i]].alias[1] = CteName(0)[1]
          PROVE  node'[ctes'[i]].alias[2] \in 0 .. counter' - 1
      <4>1. CASE i \in DOMAIN ctes
        <5>1. ctes'[i] = ctes[i] /\ node'[ctes[i]] = node[ctes[i]]
            BY <4>1, <2>11, <2>22
        <5>2. node[ctes[i]].alias[2] \in 0 .. counter - 1
            BY <4>1, <3>2, <5>1, <2>22
        <5> QED BY <5>1, <5>2, <3>1
      <4>2. CASE i = Len(ctes) + 1
        BY <4>2, <3>1, <2>2, <2>11, <2>14 DEF CteName
      <4> QED BY <4>1, <4>2, <2>11
    <3> QED BY <3>1, <3>2 DEF CteNamesFree
  <2>25. ForestKept'
    BY <2>1, <2>7, <2>13, <2>18, <2>19, <2>23 DEF ForestKept
  <2>26. SearchInv'
    <3>1. \A i \in 1 .. mi' : \/ markers_joins'[i].join = 0
                              \/ HasSubquery(node', new, Tops(root', ctes'), markers_joins'[i].join)
        BY <2>1, <2>5, <2>20
    <3>2. mi' \in Nat /\ mi' > 0 /\ join' # 0
        BY <2>1, <2>5 DEF join
    <3> QED BY <3>1, <3>2, <2>1, <2>7, <2>21 DEF SearchInv
  <2> QED BY <2>1, <2>17, <2>24, <2>25, <2>26 DEF FInv, Decorrelating
<1> QED BY <1>1, <1>2

(* The step that replaces what is left of the subquery *)
LEMMA SelectFromCteReplaces ==
    ASSUME FInv, SelectFromCte
    PROVE  /\ Replaces(Owned, Tops(root, ctes), subquery, join, 2, fresh, fresh + 1, fresh + 2, ch')
           /\ mi \in Nat /\ mi > 0 /\ join # 0 /\ Owned' = ch'
<1>1. /\ pc = "select" /\ pc' = "correlation" /\ fresh + 2 \in Node
      /\ ch' = [ch EXCEPT ![subquery] = <<>>, ![join][2] = fresh,
                          ![fresh] = <<fresh + 1>>, ![fresh + 1] = <<fresh + 2>>]
    BY DEF SelectFromCte
<1>2. mi \in Nat /\ mi > 0 /\ join # 0
    BY <1>1 DEF FInv, SearchInv
<1>3. /\ join \in Node /\ DOMAIN Owned[join] = {1, 2} /\ subquery = Owned[join][2]
      /\ subquery \in Forest(Owned, Tops(root, ctes)) /\ subquery \in Node
    BY <1>1, <1>2, CurrentJoin
<1>4. PICK own : own = Owned /\ own = [ch EXCEPT ![subquery] = <<>>]
    BY <1>1 DEF Owned
<1>5. ch \in [Node -> Seq(Node)] /\ fresh \in Nat \ {0} /\ \A n \in Forest(own, Tops(root, ctes)) : n < fresh
    BY <1>4 DEF FInv, HeapTypes
<1>6. own[subquery] = <<>>
    BY <1>3, <1>4, <1>5
<1>7. {fresh, fresh + 1, fresh + 2} \subseteq Node
    BY <1>1, <1>5, MaxNodesAssumption DEF Node
<1>8. {fresh, fresh + 1, fresh + 2} \subseteq Node \ Forest(own, Tops(root, ctes))
    BY <1>5, <1>7
<1>9. ch' = [own EXCEPT ![join][2] = fresh, ![fresh] = <<fresh + 1>>, ![fresh + 1] = <<fresh + 2>>]
    BY <1>1, <1>4
<1>10. Replaces(own, Tops(root, ctes), subquery, join, 2, fresh, fresh + 1, fresh + 2, ch')
  <2>1. fresh # fresh + 1 /\ fresh # fresh + 2 /\ fresh + 1 # fresh + 2
    BY <1>5
  <2> QED BY <1>3, <1>4, <1>6, <1>8, <1>9, <2>1 DEF Replaces
<1> QED BY <1>1, <1>2, <1>4, <1>10 DEF Owned

LEMMA SelectFromCteInv ==
    ASSUME FInv, SelectFromCte
    PROVE  FInv'
<1> DEFINE label == [NewNode("PROJECTION") EXCEPT !.args = node[subquery].args]
           cte   == Relation(CteName(counter - 1), NoName)
<1>1. /\ pc = "select" /\ pc' = "correlation" /\ mi' = mi - 1 /\ fresh' = fresh + 3
      /\ node' = [node EXCEPT ![fresh] = label, ![fresh + 1] = NewNode("SELECTION"),
                              ![fresh + 2] = cte, ![subquery] = Free]
      /\ UNCHANGED <<root, columns, ctes, counter, status, markers_joins, sel, cor>>
    BY DEF SelectFromCte
<1>2. /\ label.node_case = "PROJECTION" /\ NewNode("SELECTION").node_case = "SELECTION"
      /\ cte.node_case = "RELATION"
    BY DEF NewNode, Relation
<1> HIDE DEF label, cte
<1>3. PICK j, q, a, b, c, tops, F, own :
         /\ j = join /\ q = subquery /\ a = fresh /\ b = fresh + 1 /\ c = fresh + 2
         /\ tops = Tops(root, ctes) /\ F = Forest(own, tops) /\ own = Owned
    OBVIOUS
<1>4. /\ own \in [Node -> Seq(Node)] /\ DOMAIN node = Node /\ F \in SUBSET Node
      /\ tops \subseteq F /\ Hangs(own, tops)
      /\ \A n \in Node : n \notin F => own[n] = <<>>
    BY <1>3, Standing
<1>5. Replaces(own, tops, q, j, 2, a, b, c, ch') /\ mi \in Nat /\ mi > 0 /\ j # 0 /\ Owned' = ch'
    BY <1>3, SelectFromCteReplaces
<1>6. /\ q \in F /\ q \in Node /\ node[q].node_case = "PROJECTION" /\ q = own[j][2] /\ q \notin tops
      /\ HasSubquery(node, own, tops, j) /\ DOMAIN own[j] = {1, 2} /\ j \in Node
    BY <1>1, <1>3, <1>5, CurrentJoin
<1>7. /\ a \in Node /\ b \in Node /\ c \in Node /\ a \notin F /\ b \notin F /\ c \notin F
      /\ a # b /\ a # c /\ b # c
    BY <1>3, <1>5 DEF Replaces
<1>8. PICK L : L = Forest(ch', tops)
    OBVIOUS
<1>9. Hangs(ch', tops) /\ L = (F \ {q}) \cup {a, b, c}
    BY <1>3, <1>4, <1>5, <1>8, ReplaceForest
<1>10. AfterReplace(own, j, 2, a, b, c, ch')
    BY <1>4, <1>5, ReplaceAfter
<1>11. /\ ch' \in [Node -> Seq(Node)] /\ ch'[a] = <<b>> /\ ch'[b] = <<c>>
       /\ \A n \in Node : n # a /\ n # b =>
             /\ DOMAIN ch'[n] = DOMAIN own[n] /\ Len(ch'[n]) = Len(own[n])
             /\ \A l \in DOMAIN own[n] : ch'[n][l] = IF n = j /\ l = 2 THEN a ELSE own[n][l]
    BY <1>10 DEF AfterReplace
<1>12. Len(ch'[a]) = 1 /\ Len(ch'[b]) = 1 /\ Len(ch'[c]) = 0
  <2>1. Len(ch'[a]) = 1 /\ Len(ch'[b]) = 1
    BY <1>11
  <2>2. Len(ch'[c]) = Len(own[c]) /\ own[c] = <<>>
    BY <1>4, <1>7, <1>11
  <2> QED BY <2>1, <2>2
<1>13. /\ DOMAIN node' = Node
       /\ node'[a] = label /\ node'[b] = NewNode("SELECTION") /\ node'[c] = cte
       /\ \A n \in F : n # q => node'[n] = node[n]
  <2>1. node' = [node EXCEPT ![a] = label, ![b] = NewNode("SELECTION"), ![c] = cte, ![q] = Free]
    BY <1>1, <1>3
  <2> QED BY <2>1, <1>4, <1>6, <1>7
<1>14. Tops(root', ctes') = tops /\ L = Forest(ch', Tops(root', ctes'))
    BY <1>1, <1>3, <1>8
<1>15. fresh \in Nat \ {0} /\ root \in Node /\ ctes \in Seq(Node) /\ \A n \in F : n < fresh
    BY <1>3 DEF FInv, HeapTypes
<1>16. HeapTypes'
  <2>1. \A n \in L : n < fresh'
    BY <1>1, <1>3, <1>4, <1>9, <1>15 DEF Node
  <2> QED BY <2>1, <1>1, <1>5, <1>11, <1>13, <1>14, <1>15 DEF HeapTypes
<1>17. IsForest(ch', Tops(root', ctes'))
  <2>1. tops \in SUBSET Node
    BY <1>4
  <2> QED BY <2>1, <1>9, <1>11, <1>14, HangsForest
<1>18. ASSUME NEW n \in L
       PROVE  IsWhole(node', ch', n)
  <2>1. CASE n = a \/ n = b \/ n = c
    BY <2>1, <1>2, <1>12, <1>13 DEF IsWhole, is_full, n_children
  <2>2. CASE n # a /\ n # b /\ n # c
    <3>1. n \in F /\ n # q /\ n \in Node
        BY <2>2, <1>4, <1>9
    <3>2. IsWhole(node, own, n)
        BY <3>1, <1>1, <1>3 DEF FInv, ForestKept
    <3>3. Len(ch'[n]) = Len(own[n]) /\ node'[n] = node[n]
        BY <3>1, <2>2, <1>11, <1>13
    <3> QED BY <3>2, <3>3 DEF IsWhole, is_full
  <2> QED BY <2>1, <2>2
<1>19. ASSUME NEW i \in DOMAIN ctes
       PROVE  node'[ctes[i]] = node[ctes[i]]
  <2>1. ctes[i] \in tops
    BY <1>3 DEF Tops
  <2> QED BY <2>1, <1>4, <1>6, <1>13
<1>20. CteNamesDiffer(node', ctes')
  <2>1. CteNamesDiffer(node, ctes)
    BY DEF FInv, ForestKept
  <2> QED BY <2>1, <1>1, <1>19 DEF CteNamesDiffer
<1>21. CteNamesFree'
    BY <1>1, <1>19 DEF FInv, CteNamesFree
<1>22. ASSUME NEW k, HasSubquery(node, own, tops, k)
       PROVE  HasSubquery(node', ch', Tops(root', ctes'), k)
  <2>1. /\ k \in F /\ node[k].node_case = "JOIN" /\ node[own[k][2]].node_case = "PROJECTION"
        /\ k \in Node /\ DOMAIN own[k] = {1, 2} /\ own[k][2] \in F
    BY <1>3, <1>22, SubqueryChild DEF HasSubquery
  <2>2. k # q /\ k # a /\ k # b
    BY <2>1, <1>6, <1>7
  <2>3. ch'[k][2] = IF k = j THEN a ELSE own[k][2]
    BY <2>1, <2>2, <1>11
  <2>4. k # j => own[k][2] # q
    <3>1. \A m, n \in Node : \A h \in DOMAIN own[m], l \in DOMAIN own[n] :
             own[m][h] = own[n][l] => m = n /\ h = l
        BY <1>4 DEF Hangs, ForestSlots
    <3>2. 2 \in DOMAIN own[k] /\ 2 \in DOMAIN own[j]
        BY <2>1, <1>6
    <3> QED BY <3>1, <3>2, <2>1, <1>6
  <2>5. node'[ch'[k][2]].node_case = "PROJECTION"
    BY <2>1, <2>3, <2>4, <1>2, <1>13
  <2>6. node'[k] = node[k] /\ k \in L
    BY <2>1, <2>2, <1>9, <1>13
  <2> QED BY <2>1, <2>5, <2>6, <1>14 DEF HasSubquery
<1>23. ForestKept'
    BY <1>1, <1>5, <1>14, <1>17, <1>18, <1>20 DEF ForestKept
<1>24. SearchInv'
  <2>1. \A i \in 1 .. mi : markers_joins[i].join = 0 \/ HasSubquery(node, own, tops, markers_joins[i].join)
    BY <1>1, <1>3 DEF FInv, SearchInv
  <2>2. mi' \in Nat /\ \A i \in 1 .. mi' : i \in 1 .. mi
    BY <1>1, <1>5
  <2>3. \A i \in 1 .. mi' : \/ markers_joins'[i].join = 0
                            \/ HasSubquery(node', ch', Tops(root', ctes'), markers_joins'[i].join)
    BY <2>1, <2>2, <1>1, <1>22
  <2> QED BY <2>2, <2>3, <1>1, <1>5 DEF SearchInv
<1> QED BY <1>1, <1>16, <1>21, <1>23, <1>24 DEF FInv, Decorrelating

-----------------------------------------------------------------------------
(* The theorems *)

LEMMA DecorrelationInit ==
    ASSUME HandedOver
    PROVE  FInv
<1>1. Decorrelating /\ HeapTypes /\ CteNamesFree /\ SearchInv
    BY DEF HandedOver, Decorrelating, SearchInv
<1>2. ForestKept
    BY DEF HandedOver, ForestKept
<1> QED BY <1>1, <1>2 DEF FInv

LEMMA DecorrelationNext ==
    ASSUME FInv, [DecorrelateExistsIn]_decorrelation
    PROVE  FInv'
<1>1. CASE UNCHANGED decorrelation
    BY <1>1, DiesInv DEF decorrelation
<1> QED BY <1>1, FindMarkersInv, FindCorrelationInv, MoveToCteInv, SelectFromCteInv, DecorrelatedInv
       DEF DecorrelateExistsIn

(***************************************************************************)
(* The inductive invariant: the trees, the names of the CTEs, and what the *)
(* loop knows of the joins and of the selection it found.                  *)
(***************************************************************************)
THEOREM DecorrelationInvariance == DecorrelateSpec => []FInv
<1>1. HandedOver => FInv
    BY DecorrelationInit
<1>2. FInv /\ [DecorrelateExistsIn]_decorrelation => FInv'
    BY DecorrelationNext
<1> QED BY <1>1, <1>2, PTL DEF DecorrelateSpec

(***************************************************************************)
(* decorrelate_all_exists_in_subqueries: for a query of any size with any  *)
(* number of subqueries, nested or side by side, the query and the CTEs    *)
(* are trees that share no node between any two steps, none lacks a child  *)
(* but the projection about to be replaced, and no two CTEs have one name. *)
(***************************************************************************)
THEOREM DecorrelationForest == DecorrelateSpec => []ForestKept
<1>1. FInv => ForestKept
    BY DEF FInv
<1> QED BY <1>1, DecorrelationInvariance, PTL

(***************************************************************************)
(* ... and a step loses no node of the query or of a CTE, but for the      *)
(* selection whose condition all goes and the projection it replaces.      *)
(***************************************************************************)
THEOREM DecorrelationKeepsNodes == DecorrelateSpec => NodesKept
<1>1. ASSUME FInv, DecorrelateExistsIn
      PROVE  LostOnPurpose
  <2>1. CASE UNCHANGED <<Owned, root, ctes>>
    BY <2>1 DEF LostOnPurpose, Lost
  <2>2. CASE MoveToCte /\ ~ \E why : Dies(why)
    <3>1. Owned = ch /\ Moved(Tops(root, ctes), subquery, fresh, sel, Owned')
        BY <1>1, <2>2, MoveToCteMoves
    <3>2. pc = "move" /\ ctes' = Append(ctes, fresh) /\ root' = root
        BY <2>2 DEF MoveToCte
    <3>3. ctes \in Seq(Node) /\ fresh \in Node
        BY <1>1, <2>2, MoveToCteMoves DEF FInv, HeapTypes
    <3>4. Tops(root', ctes') = Tops(root, ctes) \cup {fresh}
      <4>1. /\ DOMAIN ctes' = 1 .. Len(ctes) + 1 /\ ctes'[Len(ctes) + 1] = fresh
            /\ \A i \in 1 .. Len(ctes) : ctes'[i] = ctes[i]
            /\ DOMAIN ctes = 1 .. Len(ctes) /\ Len(ctes) \in Nat
        BY <3>2, <3>3, AppendProperties, LenProperties
      <4> QED BY <3>2, <4>1 DEF Tops
    <3> QED BY <3>1, <3>2, <3>4 DEF LostOnPurpose, Lost, Moved
  <2>3. CASE SelectFromCte
    <3>1. /\ Replaces(Owned, Tops(root, ctes), subquery, join, 2, fresh, fresh + 1, fresh + 2, ch')
          /\ Owned' = ch'
        BY <1>1, <2>3, SelectFromCteReplaces
    <3>2. Hangs(Owned, Tops(root, ctes))
        BY <1>1, Standing
    <3>3. Forest(ch', Tops(root, ctes))
             = (Forest(Owned, Tops(root, ctes)) \ {subquery}) \cup {fresh, fresh + 1, fresh + 2}
        BY <3>1, <3>2, ReplaceForest
    <3>4. pc = "select" /\ UNCHANGED <<root, ctes>>
        BY <2>3 DEF SelectFromCte
    <3> QED BY <3>1, <3>3, <3>4 DEF LostOnPurpose, Lost
  <2>4. CASE \E why : Dies(why)
    <3>1. UNCHANGED <<Owned, root, ctes>>
        BY <2>4 DEF Dies, Owned, subquery, join
    <3> QED BY <2>1, <3>1
  <2>5. CASE FindMarkers \/ Decorrelated \/ (FindCorrelation /\ ~ \E why : Dies(why))
    <3>1. UNCHANGED <<Owned, root, ctes>>
        BY <2>5 DEF FindMarkers, Decorrelated, FindCorrelation, Owned
    <3> QED BY <2>1, <3>1
  <2> QED BY <1>1, <2>2, <2>3, <2>4, <2>5 DEF DecorrelateExistsIn
<1>2. FInv /\ [DecorrelateExistsIn]_decorrelation => [LostOnPurpose]_decorrelation
    BY <1>1
<1>3. DecorrelateSpec => [][LostOnPurpose]_decorrelation
    BY <1>2, DecorrelationInvariance, PTL DEF DecorrelateSpec
<1> QED BY <1>3 DEF NodesKept

=============================================================================
