---------------------------- MODULE UnnestProofs ----------------------------
(***************************************************************************)
(* General unnesting keeps the query and its CTEs trees that share no      *)
(* node, but for what D shares with the original join.  Its edits of the   *)
(* forest: a join with a leaf is inserted above a node (InsertForest) and  *)
(* dropped again (DropForest), and one push does both (SwapForest);        *)
(* selections are cut out one after the other (CutAllForest); the outer    *)
(* query moves below a new top, with a leaf in its place (SplitForest),    *)
(* and D gets a leaf below it (GraftForest).                               *)
(***************************************************************************)
EXTENDS UnnestInv, ExistsInProofs

-----------------------------------------------------------------------------
(* The nodes below a node *)

LEMMA BelowClosed ==
    ASSUME NEW children \in [Node -> Seq(Node)], NEW x \in Node
    PROVE  /\ Below(children, x) \in SUBSET Node /\ x \in Below(children, x)
           /\ Closed(children, Below(children, x))
<1>1. PICK tops \in SUBSET Node : tops = {x}
    OBVIOUS
<1>2. /\ Reached(children, tops) \in SUBSET Node /\ tops \subseteq Reached(children, tops)
      /\ Closed(children, Reached(children, tops))
    BY ReachedClosed
<1> QED BY <1>1, <1>2 DEF Below

LEMMA BelowLeast ==
    ASSUME NEW children \in [Node -> Seq(Node)], NEW x \in Node, NEW S, x \in S, Closed(children, S)
    PROVE  Below(children, x) \subseteq S
<1>1. PICK tops \in SUBSET Node : tops = {x} /\ tops \subseteq S
    OBVIOUS
<1>2. Reached(children, tops) \subseteq S
    BY <1>1, ReachedLeast
<1> QED BY <1>1, <1>2 DEF Below

(* What is below a node is the node or below one of its children *)
LEMMA BelowChildren ==
    ASSUME NEW children \in [Node -> Seq(Node)], NEW x \in Node, NEW n \in Below(children, x), n # x
    PROVE  \E c \in Children(children, x) : n \in Below(children, c)
<1>1. Children(children, x) \subseteq Node
    BY DEF Children
<1>2. PICK S : S = {x} \cup UNION {Below(children, c) : c \in Children(children, x)}
    OBVIOUS
<1>3. ASSUME NEW m \in S
      PROVE  Children(children, m) \subseteq S
  <2>1. CASE m = x
    <3>1. \A c \in Children(children, x) : c \in Below(children, c)
        BY <1>1, BelowClosed
    <3> QED BY <2>1, <3>1, <1>2
  <2>2. CASE m # x
    <3>1. PICK c \in Children(children, x) : m \in Below(children, c)
        BY <1>2, <1>3, <2>2
    <3>2. Children(children, m) \subseteq Below(children, c)
        BY <1>1, <3>1, BelowClosed DEF Closed
    <3> QED BY <1>2, <3>1, <3>2
  <2> QED BY <2>1, <2>2
<1>4. Closed(children, S) /\ x \in S
    BY <1>2, <1>3 DEF Closed
<1>5. Below(children, x) \subseteq S
    BY <1>4, BelowLeast
<1> QED BY <1>2, <1>5

(* No node of a forest is below its own child *)
LEMMA NotBelowChild ==
    ASSUME NEW children, NEW tops, Hangs(children, tops), NEW m \in Node, NEW c \in Children(children, m)
    PROVE  m \notin Below(children, c)
<1>1. children \in [Node -> Seq(Node)] /\ Grounded(Node, Down(children))
    BY HangsGrounded DEF Hangs
<1> DEFINE Q == {p \in Node : \A e \in Children(children, p) : p \notin Below(children, e)}
<1>2. ASSUME NEW p \in Node, Down(children)[p] \subseteq Q
      PROVE  p \in Q
  <2> SUFFICES ASSUME NEW e \in Children(children, p), p \in Below(children, e)
               PROVE  FALSE
    OBVIOUS
  <2>1. e \in Q /\ e \in Node
    BY <1>1, <1>2 DEF Down
  <2>2. p # e
    BY ParentDiffers
  <2>3. PICK g \in Children(children, e) : p \in Below(children, g)
    BY <1>1, <2>1, <2>2, BelowChildren
  <2>4. g \in Node
    BY <1>1, <2>1 DEF Children
  <2>5. e \in Below(children, g)
    BY <1>1, <2>3, <2>4, BelowClosed DEF Closed
  <2> QED BY <2>1, <2>3, <2>5
<1>3. Q = Node
  <2>1. Q \in SUBSET Node
    OBVIOUS
  <2> HIDE DEF Q
  <2> QED BY <1>1, <1>2, <2>1 DEF Grounded
<1> QED BY <1>3

-----------------------------------------------------------------------------
(* A join with a leaf is inserted *)

(* The node x, in slot i of q, hangs below the new a instead, beside the new leaf b *)
Inserts(old, tops, q, i, x, a, b, new) ==
    /\ q \in Node /\ i \in DOMAIN old[q] /\ old[q][i] = x
    /\ {a, b} \subseteq Node \ Forest(old, tops) /\ a # b
    /\ new = [old EXCEPT ![q][i] = a, ![a] = <<b, x>>]

(* The slots afterwards *)
AfterInsert(old, q, i, x, a, b, new) ==
    /\ new \in [Node -> Seq(Node)] /\ new[a] = <<b, x>>
    /\ \A n \in Node : n # a =>
          /\ DOMAIN new[n] = DOMAIN old[n] /\ Len(new[n]) = Len(old[n])
          /\ \A l \in DOMAIN old[n] : new[n][l] = IF n = q /\ l = i THEN a ELSE old[n][l]

LEMMA InsertAfter ==
    ASSUME NEW old, NEW tops, Hangs(old, tops), NEW q, NEW i, NEW x, NEW a, NEW b, NEW new,
           Inserts(old, tops, q, i, x, a, b, new)
    PROVE  /\ AfterInsert(old, q, i, x, a, b, new)
           /\ q # a /\ q # b /\ x \in Node /\ x # a /\ x # b
           /\ DOMAIN old[a] = {} /\ DOMAIN old[b] = {}
<1>1. /\ old \in [Node -> Seq(Node)] /\ ForestSlots(old, tops)
      /\ q \in Node /\ i \in DOMAIN old[q] /\ old[q][i] = x
      /\ a \in Node /\ b \in Node /\ a # b
      /\ a \notin Forest(old, tops) /\ b \notin Forest(old, tops)
      /\ new = [old EXCEPT ![q][i] = a, ![a] = <<b, x>>]
    BY DEF Inserts, Hangs
<1>2. old[a] = <<>> /\ old[b] = <<>>
    BY <1>1 DEF ForestSlots
<1>3. DOMAIN old[a] = {} /\ DOMAIN old[b] = {}
    BY <1>2
<1>4. q # a /\ q # b
    BY <1>1, <1>3
<1>5. x \in Node /\ x \in Forest(old, tops)
  <2>1. x \in Children(old, q)
    BY <1>1 DEF Children
  <2> QED BY <1>1, <2>1 DEF Forest
<1>6. PICK seq : seq = [old[q] EXCEPT ![i] = a] /\ Puts(old, q, i, a, seq)
    BY <1>1, PutInSlot
<1>7. PICK two : two = <<b, x>> /\ two \in Seq(Node)
  <2>1. <<b, x>> \in Seq(Node)
    BY <1>1, <1>5
  <2> QED BY <2>1
<1>8. new = [old EXCEPT ![q] = seq, ![a] = two]
    BY <1>1, <1>6, <1>7
<1>9. /\ new[a] = two /\ new[q] = seq /\ DOMAIN new = Node
      /\ \A n \in Node : n # a /\ n # q => new[n] = old[n]
    BY <1>1, <1>4, <1>8
<1>10. new \in [Node -> Seq(Node)]
  <2>1. \A n \in Node : new[n] \in Seq(Node)
    <3>1. seq \in Seq(Node)
        BY <1>6 DEF Puts
    <3> QED BY <3>1, <1>1, <1>7, <1>9
  <2>2. new = [n \in Node |-> new[n]]
    BY <1>8, <1>9
  <2> QED BY <2>1, <2>2
<1>11. AfterInsert(old, q, i, x, a, b, new)
  <2>1. ASSUME NEW n \in Node, n # a
        PROVE  /\ DOMAIN new[n] = DOMAIN old[n] /\ Len(new[n]) = Len(old[n])
               /\ \A l \in DOMAIN old[n] : new[n][l] = IF n = q /\ l = i THEN a ELSE old[n][l]
    <3>1. CASE n = q
        BY <3>1, <1>6, <1>9 DEF Puts
    <3>2. CASE n # q
        BY <3>2, <2>1, <1>9
    <3> QED BY <3>1, <3>2
  <2> QED BY <2>1, <1>7, <1>9, <1>10 DEF AfterInsert
<1> QED BY <1>1, <1>3, <1>4, <1>5, <1>11

LEMMA InsertChildren ==
    ASSUME NEW old, NEW tops, Hangs(old, tops), NEW q, NEW i, NEW x, NEW a, NEW b, NEW new,
           Inserts(old, tops, q, i, x, a, b, new)
    PROVE  /\ Children(new, a) = {b, x} /\ Children(new, b) = {} /\ Children(old, a) = {}
           /\ a \in Children(new, q) /\ x \in Children(old, q)
           /\ \A n \in Node : n # a => /\ Children(new, n) \subseteq (Children(old, n) \cup {a}) \ {x}
                                       /\ Children(old, n) \subseteq Children(new, n) \cup {x}
           /\ \A n \in Node : n # a /\ n # q => Children(new, n) = Children(old, n)
<1>1. /\ old \in [Node -> Seq(Node)]
      /\ q \in Node /\ i \in DOMAIN old[q] /\ old[q][i] = x /\ a \in Node /\ b \in Node /\ a # b
      /\ \A r, s \in Node : \A m \in DOMAIN old[r], l \in DOMAIN old[s] :
             old[r][m] = old[s][l] => r = s /\ m = l
    BY DEF Inserts, Hangs, ForestSlots
<1>2. /\ AfterInsert(old, q, i, x, a, b, new) /\ q # a /\ q # b /\ x # a /\ x # b
      /\ DOMAIN old[a] = {} /\ DOMAIN old[b] = {}
    BY InsertAfter
<1>3. new[a] = <<b, x>>
    BY <1>2 DEF AfterInsert
<1>4. Children(new, a) = {b, x}
  <2>1. DOMAIN new[a] = {1, 2} /\ new[a][1] = b /\ new[a][2] = x
    BY <1>3
  <2> QED BY <2>1 DEF Children
<1>5. ASSUME NEW n \in Node, n # a
      PROVE  /\ DOMAIN new[n] = DOMAIN old[n]
             /\ \A l \in DOMAIN old[n] : new[n][l] = IF n = q /\ l = i THEN a ELSE old[n][l]
             /\ \A l \in DOMAIN old[n] : old[n][l] = x <=> n = q /\ l = i
  <2>1. \A l \in DOMAIN old[n] : old[n][l] = x <=> n = q /\ l = i
    BY <1>1
  <2> QED BY <2>1, <1>2, <1>5 DEF AfterInsert
<1>6. ASSUME NEW n \in Node, n # a
      PROVE  /\ Children(new, n) \subseteq (Children(old, n) \cup {a}) \ {x}
             /\ Children(old, n) \subseteq Children(new, n) \cup {x}
             /\ n # q => Children(new, n) = Children(old, n)
  <2>1. Children(new, n) \subseteq (Children(old, n) \cup {a}) \ {x}
    BY <1>2, <1>5, <1>6 DEF Children
  <2>2. Children(old, n) \subseteq Children(new, n) \cup {x}
    BY <1>5, <1>6 DEF Children
  <2>3. n # q => Children(new, n) = Children(old, n)
    BY <1>5, <1>6 DEF Children
  <2> QED BY <2>1, <2>2, <2>3
<1>7. a \in Children(new, q) /\ x \in Children(old, q)
  <2>1. i \in DOMAIN new[q] /\ new[q][i] = a
    BY <1>1, <1>2, <1>5
  <2> QED BY <1>1, <2>1 DEF Children
<1>8. Children(new, b) = {} /\ Children(old, a) = {}
    BY <1>1, <1>2, <1>5 DEF Children
<1> QED BY <1>4, <1>6, <1>7, <1>8

LEMMA InsertForest ==
    ASSUME NEW old, NEW tops, Hangs(old, tops), NEW q, NEW i, NEW x, NEW a, NEW b, NEW new,
           Inserts(old, tops, q, i, x, a, b, new)
    PROVE  Hangs(new, tops) /\ Forest(new, tops) = Forest(old, tops) \cup {a, b}
<1>1. /\ old \in [Node -> Seq(Node)] /\ tops \in SUBSET Node
      /\ ForestSlots(old, tops) /\ OnePiece(old, tops)
      /\ q \in Node /\ i \in DOMAIN old[q] /\ old[q][i] = x
      /\ a \in Node /\ b \in Node /\ a # b
    BY DEF Hangs, Inserts
<1>2. /\ AfterInsert(old, q, i, x, a, b, new)
      /\ q # a /\ q # b /\ x \in Node /\ x # a /\ x # b /\ DOMAIN old[a] = {} /\ DOMAIN old[b] = {}
    BY InsertAfter
<1>3. /\ new \in [Node -> Seq(Node)] /\ new[a] = <<b, x>>
      /\ \A n \in Node : n # a =>
          /\ DOMAIN new[n] = DOMAIN old[n] /\ Len(new[n]) = Len(old[n])
          /\ \A l \in DOMAIN old[n] : new[n][l] = IF n = q /\ l = i THEN a ELSE old[n][l]
    BY <1>2 DEF AfterInsert
<1>4. /\ Children(new, a) = {b, x} /\ Children(new, b) = {} /\ Children(old, a) = {}
      /\ a \in Children(new, q) /\ x \in Children(old, q)
      /\ \A n \in Node : n # a => /\ Children(new, n) \subseteq (Children(old, n) \cup {a}) \ {x}
                                  /\ Children(old, n) \subseteq Children(new, n) \cup {x}
    BY InsertChildren
<1>5. PICK F \in SUBSET Node : /\ F = Forest(old, tops) /\ tops \subseteq F
                               /\ \A n \in Node : Children(old, n) \subseteq F
    BY <1>1, ForestClosed
<1>6. a \notin F /\ b \notin F /\ x \in F /\ q \in F
  <2>1. old[q] # <<>>
    BY <1>1
  <2> QED BY <1>1, <1>4, <1>5, <2>1 DEF Inserts, ForestSlots
<1>7. Forest(new, tops) = F \cup {a, b}
  <2>1. ASSUME NEW n \in Forest(new, tops)
        PROVE  n \in F \cup {a, b}
    <3>1. CASE n \in tops
        BY <3>1, <1>5
    <3>2. CASE n \notin tops
      <4>1. PICK m \in Node : n \in Children(new, m)
        BY <3>2 DEF Forest
      <4> QED BY <4>1, <1>4, <1>5, <1>6
    <3> QED BY <3>1, <3>2
  <2>2. ASSUME NEW n \in F
        PROVE  n \in Forest(new, tops)
    <3>1. CASE n \in tops
        BY <3>1 DEF Forest
    <3>2. CASE n \notin tops
      <4>1. PICK m \in Node : n \in Children(old, m)
        BY <1>5, <3>2 DEF Forest
      <4>2. n \in Children(new, m) \/ n \in Children(new, a)
        BY <4>1, <1>4
      <4> QED BY <1>1, <4>2 DEF Forest
    <3> QED BY <3>1, <3>2
  <2>3. {a, b} \subseteq Forest(new, tops)
    BY <1>1, <1>4 DEF Forest
  <2> QED BY <2>1, <2>2, <2>3
<1>8. ForestSlots(new, tops)
  <2>1. ASSUME NEW z \in Node, NEW h \in DOMAIN new[z]
        PROVE  \/ z = a /\ h = 1 /\ new[z][h] = b
               \/ z = a /\ h = 2 /\ new[z][h] = x
               \/ z = q /\ h = i /\ new[z][h] = a
               \/ z # a /\ h \in DOMAIN old[z] /\ new[z][h] = old[z][h] /\ new[z][h] \in F /\ new[z][h] # x
    <3>1. CASE z = a
      <4>1. DOMAIN new[a] = {1, 2} /\ new[a][1] = b /\ new[a][2] = x
        BY <1>3
      <4> QED BY <3>1, <4>1
    <3>2. CASE z # a /\ ~(z = q /\ h = i)
      <4>1. h \in DOMAIN old[z] /\ new[z][h] = old[z][h]
        BY <1>3, <3>2
      <4>2. old[z][h] \in F
        BY <4>1, <1>5 DEF Children
      <4>3. old[z][h] # x
        BY <1>1, <3>2, <4>1 DEF ForestSlots
      <4> QED BY <3>2, <4>1, <4>2, <4>3
    <3>3. CASE z = q /\ h = i
        BY <3>3, <1>1, <1>2, <1>3
    <3> QED BY <3>1, <3>2, <3>3
  <2>2. ASSUME NEW y \in Node, NEW z \in Node, NEW m \in DOMAIN new[y], NEW l \in DOMAIN new[z],
               new[y][m] = new[z][l]
        PROVE  y = z /\ m = l
    <3>1. ASSUME y # a, m \in DOMAIN old[y], new[y][m] = old[y][m],
                 z # a, l \in DOMAIN old[z], new[z][l] = old[z][l]
          PROVE  y = z /\ m = l
      <4>1. old[y][m] = old[z][l]
        BY <2>2, <3>1
      <4> QED BY <4>1, <3>1, <1>1 DEF ForestSlots
    <3>2. /\ \/ y = a /\ m = 1 /\ new[y][m] = b
             \/ y = a /\ m = 2 /\ new[y][m] = x
             \/ y = q /\ m = i /\ new[y][m] = a
             \/ y # a /\ m \in DOMAIN old[y] /\ new[y][m] = old[y][m] /\ new[y][m] \in F /\ new[y][m] # x
          /\ \/ z = a /\ l = 1 /\ new[z][l] = b
             \/ z = a /\ l = 2 /\ new[z][l] = x
             \/ z = q /\ l = i /\ new[z][l] = a
             \/ z # a /\ l \in DOMAIN old[z] /\ new[z][l] = old[z][l] /\ new[z][l] \in F /\ new[z][l] # x
        BY <2>1
    <3> QED BY <2>2, <3>1, <3>2, <1>1, <1>2, <1>6
  <2>3. ASSUME NEW n \in Node
        PROVE  Children(new, n) \cap tops = {}
    <3>1. /\ a \notin tops /\ b \notin tops /\ x \notin tops /\ Children(old, n) \cap tops = {}
        BY <1>1, <1>4, <1>5, <1>6 DEF ForestSlots
    <3> QED BY <3>1, <1>4
  <2>4. ASSUME NEW n \in Node, new[n] # <<>>, n # a
        PROVE  n \in F
    <3>1. Len(new[n]) = Len(old[n]) /\ new[n] \in Seq(Node) /\ old[n] \in Seq(Node)
        BY <1>1, <1>3, <2>4
    <3>2. old[n] # <<>>
        BY <2>4, <3>1, EmptySeq
    <3> QED BY <3>2, <1>1, <1>5 DEF ForestSlots
  <2> QED BY <2>2, <2>3, <2>4, <1>7 DEF ForestSlots
<1>9. OnePiece(new, tops)
  <2>1. ASSUME NEW S \in SUBSET (F \cup {a, b}), tops \subseteq S, Closed(new, S)
        PROVE  S = F \cup {a, b}
    <3>1. PICK R \in SUBSET F : R = S \ {a, b}
        BY <1>6
    <3>2. q \in S => a \in S /\ b \in S /\ x \in S
      <4>1. q \in S => a \in S
        BY <2>1, <1>4 DEF Closed
      <4>2. a \in S => b \in S /\ x \in S
        BY <2>1, <1>4 DEF Closed
      <4> QED BY <4>1, <4>2
    <3>3. ASSUME NEW n \in R
          PROVE  Children(old, n) \subseteq R
      <4>1. n \in S /\ n \in Node /\ n # a
        BY <3>1, <1>5, <1>6
      <4>2. Children(new, n) \subseteq S
        BY <4>1, <2>1 DEF Closed
      <4>3. Children(old, n) \subseteq S
        <5>1. CASE n = q
            BY <5>1, <4>1, <4>2, <3>2, <1>4
        <5>2. CASE n # q
            BY <5>2, <4>1, <4>2, <1>4, InsertChildren
        <5> QED BY <5>1, <5>2
      <4> QED BY <3>1, <4>1, <4>3, <1>5, <1>6
    <3>4. tops \subseteq R
        BY <2>1, <3>1, <1>5, <1>6
    <3>5. R = F
        BY <3>3, <3>4, <1>1, <1>5 DEF OnePiece, Closed
    <3> QED BY <2>1, <3>1, <3>2, <3>5, <1>6
  <2> QED BY <2>1, <1>7 DEF OnePiece
<1> QED BY <1>1, <1>3, <1>5, <1>7, <1>8, <1>9 DEF Hangs

(* Below the new node is the leaf, and what was below x *)
LEMMA InsertBelow ==
    ASSUME NEW old, NEW tops, Hangs(old, tops), NEW q, NEW i, NEW x, NEW a, NEW b, NEW new,
           Inserts(old, tops, q, i, x, a, b, new)
    PROVE  /\ Below(new, a) \subseteq {a, b} \cup Below(old, x)
           /\ q \notin Below(old, x)
<1>1. /\ old \in [Node -> Seq(Node)] /\ new \in [Node -> Seq(Node)]
      /\ a \in Node /\ b \in Node /\ x \in Node /\ q \in Node
  <2>1. AfterInsert(old, q, i, x, a, b, new) /\ x \in Node
    BY InsertAfter
  <2> QED BY <2>1 DEF Hangs, Inserts, AfterInsert
<1>2. /\ Children(new, a) = {b, x} /\ Children(new, b) = {} /\ x \in Children(old, q)
      /\ \A n \in Node : n # a /\ n # q => Children(new, n) = Children(old, n)
    BY InsertChildren
<1>3. q \notin Below(old, x)
    BY <1>1, <1>2, NotBelowChild
<1>4. PICK B \in SUBSET Node : B = Below(old, x) /\ x \in B /\ Closed(old, B)
    BY <1>1, BelowClosed
<1>5. Closed(new, {a, b} \cup B)
    BY <1>1, <1>2, <1>3, <1>4 DEF Closed
<1>6. Below(new, a) \subseteq {a, b} \cup B
    BY <1>1, <1>5, BelowLeast
<1> QED BY <1>3, <1>4, <1>6

-----------------------------------------------------------------------------
(* ... and dropped again *)

(* The node s, in slot i of p, goes with the leaf d; its other child c takes the slot *)
Drops(old, s, p, i, d, c, new) ==
    /\ s \in Node /\ p \in Node /\ i \in DOMAIN old[p] /\ old[p][i] = s
    /\ old[s] = <<d, c>> /\ old[d] = <<>>
    /\ new = [old EXCEPT ![p][i] = c, ![s] = <<>>]

LEMMA DropAfter ==
    ASSUME NEW old, NEW tops, Hangs(old, tops), NEW s, NEW p, NEW i, NEW d, NEW c, NEW new,
           Drops(old, s, p, i, d, c, new)
    PROVE  /\ AfterCut(old, s, p, i, c, new)
           /\ c \in Node /\ d \in Node /\ s # p /\ s # c /\ s # d /\ d # c /\ d # p
           /\ Children(old, s) = {d, c} /\ Children(old, d) = {}
           /\ DOMAIN old[s] = {1, 2} /\ old[s][1] = d /\ old[s][2] = c
<1>1. /\ old \in [Node -> Seq(Node)] /\ s \in Node /\ p \in Node
      /\ i \in DOMAIN old[p] /\ old[p][i] = s /\ old[s] = <<d, c>> /\ old[d] = <<>>
      /\ new = [old EXCEPT ![p][i] = c, ![s] = <<>>]
      /\ \A a, b \in Node : \A k \in DOMAIN old[a], l \in DOMAIN old[b] :
             old[a][k] = old[b][l] => a = b /\ k = l
    BY DEF Drops, Hangs, ForestSlots
<1>2. DOMAIN old[s] = {1, 2} /\ old[s][1] = d /\ old[s][2] = c /\ DOMAIN old[d] = {}
    BY <1>1
<1>3. c \in Node /\ d \in Node
  <2>1. old[s] \in Seq(Node)
    BY <1>1
  <2> QED BY <1>2, <2>1
<1>4. Children(old, s) = {d, c} /\ Children(old, d) = {} /\ s \in Children(old, p)
    BY <1>1, <1>2 DEF Children
<1>5. s # p /\ s # c /\ s # d /\ d # c /\ d # p
  <2>1. s # p /\ s # c /\ s # d
    <3>1. \A n \in Node : n \notin Children(old, n)
        BY ParentDiffers
    <3> QED BY <3>1, <1>1, <1>4
  <2>2. d # c
    <3>1. s \in Node
        BY DEF Drops
    <3>2. \A k, l \in DOMAIN old[s] : old[s][k] = old[s][l] => k = l
        BY <3>1 DEF Hangs, ForestSlots
    <3> QED BY <3>2, <1>2
  <2>3. d # p
    BY <1>4
  <2> QED BY <2>1, <2>2, <2>3
<1>6. PICK seq : seq = [old[p] EXCEPT ![i] = c] /\ Puts(old, p, i, c, seq)
  <2>1. old \in [Node -> Seq(Node)] /\ p \in Node /\ i \in DOMAIN old[p] /\ c \in Node
    BY <1>1, <1>3
  <2> QED BY <2>1, PutInSlot
<1>7. new = [old EXCEPT ![p] = seq, ![s] = <<>>]
    BY <1>1, <1>6
<1>8. /\ new[s] = <<>> /\ new[p] = seq /\ DOMAIN new = Node
      /\ \A n \in Node : n # s /\ n # p => new[n] = old[n]
    BY <1>1, <1>5, <1>7
<1>9. new \in [Node -> Seq(Node)]
  <2>1. \A n \in Node : new[n] \in Seq(Node)
    <3>1. seq \in Seq(Node) /\ <<>> \in Seq(Node)
        BY <1>6 DEF Puts
    <3>2. new[s] \in Seq(Node) /\ new[p] \in Seq(Node)
        BY <3>1, <1>8
    <3> QED BY <3>2, <1>1, <1>8
  <2>2. new = [n \in Node |-> new[n]]
    BY <1>7, <1>8
  <2> QED BY <2>1, <2>2
<1>10. AfterCut(old, s, p, i, c, new)
  <2>1. DOMAIN new[s] = {}
    BY <1>8
  <2>2. ASSUME NEW n \in Node, n # s
        PROVE  /\ DOMAIN new[n] = DOMAIN old[n] /\ Len(new[n]) = Len(old[n])
               /\ \A j \in DOMAIN old[n] : new[n][j] = IF n = p /\ j = i THEN c ELSE old[n][j]
    <3>1. CASE n = p
        BY <3>1, <1>6, <1>8 DEF Puts
    <3>2. CASE n # p
        BY <3>2, <2>2, <1>8
    <3> QED BY <3>1, <3>2
  <2> QED BY <2>1, <2>2, <1>8, <1>9 DEF AfterCut
<1> QED BY <1>2, <1>3, <1>4, <1>5, <1>10

LEMMA DropChildren ==
    ASSUME NEW old, NEW tops, Hangs(old, tops), NEW s, NEW p, NEW i, NEW d, NEW c, NEW new,
           Drops(old, s, p, i, d, c, new)
    PROVE  /\ Children(new, s) = {} /\ c \in Children(new, p) /\ s \in Children(old, p)
           /\ \A n \in Node : n # s => /\ Children(new, n) \subseteq (Children(old, n) \cup {c}) \ {s, d}
                                       /\ Children(old, n) \subseteq Children(new, n) \cup {s}
           /\ \A n \in Node : n # s /\ n # p => Children(new, n) = Children(old, n)
<1>1. /\ old \in [Node -> Seq(Node)] /\ s \in Node /\ p \in Node
      /\ i \in DOMAIN old[p] /\ old[p][i] = s
      /\ \A a, b \in Node : \A k \in DOMAIN old[a], l \in DOMAIN old[b] :
             old[a][k] = old[b][l] => a = b /\ k = l
    BY DEF Drops, Hangs, ForestSlots
<1>2. /\ AfterCut(old, s, p, i, c, new) /\ s # p /\ s # c /\ s # d /\ d # c
      /\ DOMAIN old[s] = {1, 2} /\ old[s][1] = d /\ old[s][2] = c
    BY DropAfter
<1>3. ASSUME NEW n \in Node, n # s
      PROVE  /\ DOMAIN new[n] = DOMAIN old[n]
             /\ \A j \in DOMAIN old[n] : new[n][j] = IF n = p /\ j = i THEN c ELSE old[n][j]
             /\ \A j \in DOMAIN old[n] : old[n][j] = s <=> n = p /\ j = i
             /\ \A j \in DOMAIN old[n] : old[n][j] # d
  <2>1. \A j \in DOMAIN old[n] : old[n][j] = s <=> n = p /\ j = i
    BY <1>1
  <2>2. \A j \in DOMAIN old[n] : old[n][j] # d
    BY <1>1, <1>2, <1>3
  <2> QED BY <2>1, <2>2, <1>2, <1>3 DEF AfterCut
<1>4. Children(new, s) = {}
    BY <1>2 DEF AfterCut, Children
<1>5. c \in Children(new, p) /\ s \in Children(old, p)
  <2>1. i \in DOMAIN new[p] /\ new[p][i] = c
    BY <1>1, <1>2, <1>3
  <2> QED BY <1>1, <2>1 DEF Children
<1>6. ASSUME NEW n \in Node, n # s
      PROVE  /\ Children(new, n) \subseteq (Children(old, n) \cup {c}) \ {s, d}
             /\ Children(old, n) \subseteq Children(new, n) \cup {s}
             /\ n # p => Children(new, n) = Children(old, n)
  <2>1. Children(new, n) \subseteq (Children(old, n) \cup {c}) \ {s, d}
    BY <1>2, <1>3, <1>6 DEF Children
  <2>2. Children(old, n) \subseteq Children(new, n) \cup {s}
    BY <1>3, <1>6 DEF Children
  <2>3. n # p => Children(new, n) = Children(old, n)
    BY <1>3, <1>6 DEF Children
  <2> QED BY <2>1, <2>2, <2>3
<1> QED BY <1>4, <1>5, <1>6

LEMMA DropForest ==
    ASSUME NEW old, NEW tops, Hangs(old, tops), NEW s, NEW p, NEW i, NEW d, NEW c, NEW new,
           Drops(old, s, p, i, d, c, new)
    PROVE  Hangs(new, tops) /\ Forest(new, tops) = Forest(old, tops) \ {s, d}
<1>1. /\ old \in [Node -> Seq(Node)] /\ tops \in SUBSET Node
      /\ ForestSlots(old, tops) /\ OnePiece(old, tops)
      /\ s \in Node /\ p \in Node /\ i \in DOMAIN old[p] /\ old[p][i] = s
      /\ \A a, b \in Node : \A k \in DOMAIN old[a], l \in DOMAIN old[b] :
             old[a][k] = old[b][l] => a = b /\ k = l
    BY DEF Hangs, Drops, ForestSlots
<1>2. /\ AfterCut(old, s, p, i, c, new)
      /\ c \in Node /\ d \in Node /\ s # p /\ s # c /\ s # d /\ d # c /\ d # p
      /\ Children(old, s) = {d, c} /\ Children(old, d) = {}
      /\ DOMAIN old[s] = {1, 2} /\ old[s][1] = d /\ old[s][2] = c
    BY DropAfter
<1>3. /\ new \in [Node -> Seq(Node)] /\ new[s] = <<>> /\ DOMAIN new[s] = {}
      /\ \A n \in Node : n # s =>
          /\ DOMAIN new[n] = DOMAIN old[n] /\ Len(new[n]) = Len(old[n])
          /\ \A j \in DOMAIN old[n] : new[n][j] = IF n = p /\ j = i THEN c ELSE old[n][j]
    BY <1>2 DEF AfterCut
<1>4. /\ Children(new, s) = {} /\ c \in Children(new, p) /\ s \in Children(old, p)
      /\ \A n \in Node : n # s => /\ Children(new, n) \subseteq (Children(old, n) \cup {c}) \ {s, d}
                                  /\ Children(old, n) \subseteq Children(new, n) \cup {s}
    BY DropChildren
<1>5. PICK F \in SUBSET Node : /\ F = Forest(old, tops) /\ tops \subseteq F
                               /\ \A n \in Node : Children(old, n) \subseteq F
    BY <1>1, ForestClosed
<1>6. /\ s \notin tops /\ c \notin tops /\ d \notin tops /\ s \in F /\ c \in F /\ d \in F
    BY <1>1, <1>2, <1>4, <1>5 DEF ForestSlots
<1>7. Forest(new, tops) = F \ {s, d}
  <2>1. Forest(new, tops) \subseteq F \ {s, d}
    <3>1. \A n \in Node : Children(new, n) \subseteq F \ {s, d}
        BY <1>4, <1>5, <1>6
    <3> QED BY <3>1, <1>5, <1>6 DEF Forest
  <2>2. ASSUME NEW n \in F \ {s, d}
        PROVE  n \in Forest(new, tops)
    <3>1. CASE n \in tops
        BY <3>1 DEF Forest
    <3>2. CASE n \notin tops
      <4>1. PICK a \in Node : n \in Children(old, a)
        BY <1>5, <3>2 DEF Forest
      <4>2. n \in Children(new, a) \/ n \in Children(new, p)
        BY <1>2, <1>4, <2>2, <4>1
      <4> QED BY <1>1, <4>1, <4>2 DEF Forest
    <3> QED BY <3>1, <3>2
  <2> QED BY <2>1, <2>2
<1>8. ForestSlots(new, tops)
  <2>1. ASSUME NEW a \in Node, NEW b \in Node, NEW k \in DOMAIN new[a], NEW l \in DOMAIN new[b],
               new[a][k] = new[b][l]
        PROVE  a = b /\ k = l
    <3>1. a # s /\ b # s /\ k \in DOMAIN old[a] /\ l \in DOMAIN old[b]
        BY <1>3
    <3>2. old[a][k] # c /\ old[b][l] # c
      <4>1. 2 \in DOMAIN old[s] /\ old[s][2] = c
          BY <1>2
      <4>2. /\ old[a][k] = old[s][2] => a = s
            /\ old[b][l] = old[s][2] => b = s
          BY <1>1, <3>1, <4>1
      <4> QED BY <3>1, <4>1, <4>2
    <3>3. /\ new[a][k] = IF a = p /\ k = i THEN c ELSE old[a][k]
          /\ new[b][l] = IF b = p /\ l = i THEN c ELSE old[b][l]
        BY <1>3, <3>1
    <3>4. old[a][k] = old[b][l] => a = b /\ k = l
        BY <1>1, <3>1
    <3> QED BY <2>1, <3>2, <3>3, <3>4
  <2>2. ASSUME NEW n \in Node
        PROVE  Children(new, n) \cap tops = {}
    <3>1. Children(old, n) \cap tops = {}
        BY <1>1 DEF ForestSlots
    <3> QED BY <3>1, <1>4, <1>6
  <2>3. ASSUME NEW n \in Node, new[n] # <<>>
        PROVE  n \in F \ {s, d}
    <3>1. n # s /\ Len(new[n]) = Len(old[n]) /\ new[n] \in Seq(Node) /\ old[n] \in Seq(Node)
        BY <1>1, <1>3, <2>3
    <3>2. old[n] # <<>>
        BY <2>3, <3>1, EmptySeq
    <3>3. n # d
        BY <3>2 DEF Drops
    <3> QED BY <3>1, <3>2, <3>3, <1>1, <1>5 DEF ForestSlots
  <2> QED BY <2>1, <2>2, <2>3, <1>7 DEF ForestSlots
<1>9. OnePiece(new, tops)
  <2>1. ASSUME NEW S \in SUBSET (F \ {s, d}), tops \subseteq S, Closed(new, S)
        PROVE  S = F \ {s, d}
    <3>1. CASE p \in S
      <4>1. PICK R \in SUBSET F : R = S \cup {s, d}
        BY <1>6, <2>1
      <4>2. c \in S
        BY <1>4, <2>1, <3>1 DEF Closed
      <4>3. \A n \in S : Children(old, n) \subseteq R
        BY <1>4, <2>1, <4>1 DEF Closed
      <4>4. Closed(old, R)
        BY <1>2, <4>1, <4>2, <4>3 DEF Closed
      <4>5. R = F
        BY <1>1, <1>5, <2>1, <4>1, <4>4 DEF OnePiece
      <4> QED BY <2>1, <4>1, <4>5
    <3>2. CASE p \notin S
      <4>1. \A n \in Node : n # p => s \notin Children(old, n)
        BY <1>1 DEF Children
      <4>2. \A n \in S : Children(old, n) \subseteq S
        BY <1>4, <2>1, <3>2, <4>1 DEF Closed
      <4>3. S = F
        BY <1>1, <1>5, <2>1, <4>2 DEF OnePiece, Closed
      <4> QED BY <1>6, <2>1, <4>3
    <3> QED BY <3>1, <3>2
  <2> QED BY <2>1, <1>7 DEF OnePiece
<1> QED BY <1>1, <1>3, <1>5, <1>7, <1>8, <1>9 DEF Hangs

-----------------------------------------------------------------------------
(* ... and, in one step, dropped and inserted further down *)

(* The node s, with the leaf d, changes places with its other child c: x below c hangs below it *)
Swaps(old, s, p, i, d, c, k, x, new) ==
    /\ s \in Node /\ p \in Node /\ i \in DOMAIN old[p] /\ old[p][i] = s
    /\ old[s] = <<d, c>> /\ old[d] = <<>>
    /\ k \in DOMAIN old[c] /\ old[c][k] = x
    /\ new = [old EXCEPT ![p][i] = c, ![c][k] = s, ![s] = <<d, x>>]

(* The slots afterwards *)
AfterSwap(old, s, p, i, d, c, k, x, new) ==
    /\ new \in [Node -> Seq(Node)] /\ new[s] = <<d, x>>
    /\ \A n \in Node : n # s =>
          /\ DOMAIN new[n] = DOMAIN old[n] /\ Len(new[n]) = Len(old[n])
          /\ \A l \in DOMAIN old[n] : new[n][l] = IF n = p /\ l = i THEN c
                                                   ELSE IF n = c /\ l = k THEN s ELSE old[n][l]

(* What is between the two *)
LEMMA SwapMiddle ==
    ASSUME NEW old, NEW tops, Hangs(old, tops),
           NEW s, NEW p, NEW i, NEW d, NEW c, NEW k, NEW x, NEW new,
           Swaps(old, s, p, i, d, c, k, x, new)
    PROVE  \E mid : Drops(old, s, p, i, d, c, mid) /\ Inserts(mid, tops, c, k, x, s, d, new)
<1>1. /\ old \in [Node -> Seq(Node)] /\ s \in Node /\ p \in Node
      /\ i \in DOMAIN old[p] /\ old[p][i] = s
      /\ k \in DOMAIN old[c] /\ old[c][k] = x
      /\ new = [old EXCEPT ![p][i] = c, ![c][k] = s, ![s] = <<d, x>>]
    BY DEF Swaps, Hangs
<1>2. PICK mid : mid = [old EXCEPT ![p][i] = c, ![s] = <<>>]
    OBVIOUS
<1>3. Drops(old, s, p, i, d, c, mid)
    BY <1>2 DEF Swaps, Drops
<1>4. Hangs(mid, tops) /\ Forest(mid, tops) = Forest(old, tops) \ {s, d}
    BY <1>3, DropForest
<1>5. c \in Node /\ d \in Node /\ s # p /\ s # c /\ s # d /\ d # c /\ d # p
    BY <1>3, DropAfter
<1>6. c \in Children(mid, p)
    BY <1>3, DropChildren
<1>7. c # p
    BY <1>1, <1>4, <1>6, ParentDiffers
<1>8. mid[c] = old[c]
    BY <1>1, <1>2, <1>5, <1>7
<1>9. new = [mid EXCEPT ![c][k] = s, ![s] = <<d, x>>]
    BY <1>1, <1>2, <1>5, <1>7
<1>10. {s, d} \subseteq Node \ Forest(mid, tops)
    BY <1>1, <1>4, <1>5
<1>11. Inserts(mid, tops, c, k, x, s, d, new)
    BY <1>1, <1>5, <1>8, <1>9, <1>10 DEF Inserts
<1> QED BY <1>3, <1>11

LEMMA SwapForest ==
    ASSUME NEW old, NEW tops, Hangs(old, tops),
           NEW s, NEW p, NEW i, NEW d, NEW c, NEW k, NEW x, NEW new,
           Swaps(old, s, p, i, d, c, k, x, new)
    PROVE  /\ Hangs(new, tops) /\ Forest(new, tops) = Forest(old, tops)
           /\ AfterSwap(old, s, p, i, d, c, k, x, new)
           /\ c # p /\ c # s /\ c # d /\ s # p /\ s # d /\ d # p
<1>1. PICK mid : Drops(old, s, p, i, d, c, mid) /\ Inserts(mid, tops, c, k, x, s, d, new)
    BY SwapMiddle
<1>2. Hangs(mid, tops) /\ Forest(mid, tops) = Forest(old, tops) \ {s, d}
    BY <1>1, DropForest
<1>3. Hangs(new, tops) /\ Forest(new, tops) = Forest(mid, tops) \cup {s, d}
    BY <1>1, <1>2, InsertForest
<1>4. /\ AfterCut(old, s, p, i, c, mid)
      /\ c \in Node /\ d \in Node /\ s # p /\ s # c /\ s # d /\ d # c /\ d # p
      /\ Children(old, s) = {d, c}
    BY <1>1, DropAfter
<1>5. AfterInsert(mid, c, k, x, s, d, new)
    BY <1>1, <1>2, InsertAfter
<1>6. c \in Children(mid, p) /\ s \in Children(old, p) /\ p \in Node /\ s \in Node
  <2>1. p \in Node /\ s \in Node
    BY <1>1 DEF Drops
  <2> QED BY <1>1, <2>1, DropChildren
<1>7. c # p
    BY <1>2, <1>6, ParentDiffers
<1>8. {s, d} \subseteq Forest(old, tops)
    BY <1>4, <1>6 DEF Forest
<1>9. AfterSwap(old, s, p, i, d, c, k, x, new)
  <2>1. ASSUME NEW n \in Node, n # s
        PROVE  /\ DOMAIN new[n] = DOMAIN old[n] /\ Len(new[n]) = Len(old[n])
               /\ \A l \in DOMAIN old[n] : new[n][l] = IF n = p /\ l = i THEN c
                                                   ELSE IF n = c /\ l = k THEN s ELSE old[n][l]
    <3>1. /\ DOMAIN mid[n] = DOMAIN old[n] /\ Len(mid[n]) = Len(old[n])
          /\ \A l \in DOMAIN old[n] : mid[n][l] = IF n = p /\ l = i THEN c ELSE old[n][l]
        BY <1>4, <2>1 DEF AfterCut
    <3>2. /\ DOMAIN new[n] = DOMAIN mid[n] /\ Len(new[n]) = Len(mid[n])
          /\ \A l \in DOMAIN mid[n] : new[n][l] = IF n = c /\ l = k THEN s ELSE mid[n][l]
        BY <1>5, <2>1 DEF AfterInsert
    <3> QED BY <3>1, <3>2, <1>7
  <2> QED BY <2>1, <1>5 DEF AfterSwap, AfterInsert
<1> QED BY <1>2, <1>3, <1>4, <1>7, <1>8, <1>9

(* The swap takes c away from what is below s, and adds nothing *)
LEMMA SwapBelow ==
    ASSUME NEW old, NEW tops, Hangs(old, tops),
           NEW s, NEW p, NEW i, NEW d, NEW c, NEW k, NEW x, NEW new,
           Swaps(old, s, p, i, d, c, k, x, new)
    PROVE  /\ Below(new, s) \subseteq Below(old, s) /\ c \notin Below(new, s)
           /\ c \in Below(old, s)
<1>1. PICK mid : Drops(old, s, p, i, d, c, mid) /\ Inserts(mid, tops, c, k, x, s, d, new)
    BY SwapMiddle
<1>2. Hangs(mid, tops)
    BY <1>1, DropForest
<1>3. /\ Below(new, s) \subseteq {s, d} \cup Below(mid, x) /\ c \notin Below(mid, x)
    BY <1>1, <1>2, InsertBelow
<1>4. /\ c \in Node /\ d \in Node /\ s # c /\ d # c /\ Children(old, s) = {d, c}
    BY <1>1, DropAfter
<1>5. /\ old \in [Node -> Seq(Node)] /\ mid \in [Node -> Seq(Node)] /\ s \in Node /\ p \in Node
      /\ k \in DOMAIN old[c] /\ old[c][k] = x
    BY <1>2 DEF Hangs, Swaps
<1>6. PICK B \in SUBSET Node : B = Below(old, s) /\ s \in B /\ Closed(old, B)
    BY <1>5, BelowClosed
<1>7. d \in B /\ c \in B
    BY <1>4, <1>6 DEF Closed
<1>8. x \in B /\ x \in Node
  <2>1. x \in Children(old, c)
    BY <1>5 DEF Children
  <2> QED BY <1>6, <1>7, <2>1 DEF Closed
<1>9. Closed(mid, B)
  <2>1. /\ Children(mid, s) = {}
        /\ \A n \in Node : n # s => Children(mid, n) \subseteq (Children(old, n) \cup {c}) \ {s, d}
    BY <1>1, DropChildren
  <2> QED BY <1>6, <1>7, <2>1 DEF Closed
<1>10. Below(mid, x) \subseteq B
    BY <1>5, <1>8, <1>9, BelowLeast
<1> QED BY <1>3, <1>4, <1>6, <1>7, <1>10

-----------------------------------------------------------------------------
(* Selections are cut out, one after the other *)

(* What is left of the forest without the members of C, which had one child each *)
AfterCutAll(old, tops, C, new) ==
    /\ Hangs(new, tops) /\ Forest(new, tops) = Forest(old, tops) \ C
    /\ \A n \in C : new[n] = <<>>
    /\ \A n \in Node \ C :
          /\ DOMAIN new[n] = DOMAIN old[n] /\ Len(new[n]) = Len(old[n])
          /\ \A l \in DOMAIN old[n] : old[n][l] \notin C => new[n][l] = old[n][l]

LEMMA CutOneMore ==
    ASSUME NEW old, NEW tops, NEW C, C \subseteq Node, NEW mid, AfterCutAll(old, tops, C, mid),
           NEW s, s \in Forest(old, tops) \ tops, s \notin C, s \in Node, Len(old[s]) = 1
    PROVE  AfterCutAll(old, tops, C \cup {s}, CutSelection(mid, s))
<1>1. /\ Hangs(mid, tops) /\ Forest(mid, tops) = Forest(old, tops) \ C
      /\ \A n \in C : mid[n] = <<>>
      /\ \A n \in Node \ C :
            /\ DOMAIN mid[n] = DOMAIN old[n] /\ Len(mid[n]) = Len(old[n])
            /\ \A l \in DOMAIN old[n] : old[n][l] \notin C => mid[n][l] = old[n][l]
    BY DEF AfterCutAll
<1>2. mid \in [Node -> Seq(Node)]
    BY <1>1 DEF Hangs
<1>3. PICK p \in Node : s \in Children(mid, p)
  <2>1. s \in Forest(mid, tops) \ tops
    BY <1>1
  <2> QED BY <2>1 DEF Forest
<1>4. PICK q, i : /\ get_node_parent(mid, s)[1] = q /\ get_node_parent(mid, s)[2] = i
                  /\ q \in Node /\ i \in DOMAIN mid[q] /\ mid[q][i] = s
    BY <1>3, SlotFound
<1>5. PICK c : c = mid[s][1]
    OBVIOUS
<1>6. mid[s] = <<c>>
  <2>1. Len(mid[s]) = 1
    BY <1>1
  <2> QED BY <2>1, <1>2, <1>5, OneChild
<1>7. PICK new : new = CutSelection(mid, s)
    OBVIOUS
<1>8. new = [mid EXCEPT ![q][i] = c, ![s] = <<>>]
    BY <1>4, <1>5, <1>7 DEF CutSelection
<1>9. Cuts(mid, s, q, i, c, new)
    BY <1>4, <1>6, <1>8 DEF Cuts
<1>10. Hangs(new, tops) /\ Forest(new, tops) = Forest(mid, tops) \ {s}
    BY <1>1, <1>9, CutForest
<1>11. AfterCut(mid, s, q, i, c, new)
    BY <1>1, <1>9, CutAfter
<1>12. /\ new \in [Node -> Seq(Node)] /\ new[s] = <<>>
       /\ \A n \in Node : n # s =>
             /\ DOMAIN new[n] = DOMAIN mid[n] /\ Len(new[n]) = Len(mid[n])
             /\ \A l \in DOMAIN mid[n] : new[n][l] = IF n = q /\ l = i THEN c ELSE mid[n][l]
    BY <1>11 DEF AfterCut
<1>13. ASSUME NEW n \in C
       PROVE  new[n] = <<>>
  <2>1. n \in Node /\ n # s /\ mid[n] = <<>>
    BY <1>1
  <2>2. Len(new[n]) = 0 /\ new[n] \in Seq(Node)
    BY <2>1, <1>12
  <2> QED BY <2>2, EmptySeq
<1>14. ASSUME NEW n \in Node, n \notin C, n # s
       PROVE  /\ DOMAIN new[n] = DOMAIN old[n] /\ Len(new[n]) = Len(old[n])
              /\ \A l \in DOMAIN old[n] : old[n][l] \notin C /\ old[n][l] # s => new[n][l] = old[n][l]
  <2>1. /\ DOMAIN mid[n] = DOMAIN old[n] /\ Len(mid[n]) = Len(old[n])
        /\ \A l \in DOMAIN old[n] : old[n][l] \notin C => mid[n][l] = old[n][l]
    BY <1>1, <1>14
  <2>2. /\ DOMAIN new[n] = DOMAIN mid[n] /\ Len(new[n]) = Len(mid[n])
        /\ \A l \in DOMAIN mid[n] : new[n][l] = IF n = q /\ l = i THEN c ELSE mid[n][l]
    BY <1>12, <1>14
  <2> QED BY <2>1, <2>2, <1>4
<1>15. Forest(new, tops) = Forest(old, tops) \ (C \cup {s})
    BY <1>1, <1>10
<1> QED BY <1>7, <1>10, <1>12, <1>13, <1>14, <1>15 DEF AfterCutAll

(* The selections ns hang in the forest and have one child each *)
MayCut(old, tops, ns) ==
    /\ ns \in Seq(Node) /\ \A i, k \in DOMAIN ns : ns[i] = ns[k] => i = k
    /\ \A i \in DOMAIN ns : ns[i] \in Forest(old, tops) \ tops /\ Len(old[ns[i]]) = 1

LEMMA CutCounted ==
    ASSUME NEW old, NEW tops, Hangs(old, tops), NEW ns, MayCut(old, tops, ns), NEW cut,
           cut[0] = old,
           \A i \in 1 .. Len(ns) :
               CutSelection(cut[i - 1], ns[i]) \in [Node -> Seq(Node)] =>
                   cut[i] = CutSelection(cut[i - 1], ns[i])
    PROVE  \A i \in 0 .. Len(ns) : AfterCutAll(old, tops, {ns[k] : k \in 1 .. i}, cut[i])
<1>1. ns \in Seq(Node) /\ Len(ns) \in Nat /\ DOMAIN ns = 1 .. Len(ns)
    BY LenProperties DEF MayCut
<1> DEFINE I == 0 .. Len(ns)
           C(i) == {ns[k] : k \in 1 .. i}
           Q == {i \in I : AfterCutAll(old, tops, C(i), cut[i])}
<1>2. ASSUME NEW i \in I, Before(Len(ns))[i] \subseteq Q
      PROVE  i \in Q
  <2>1. CASE i = 0
    <3>1. C(0) = {}
        OBVIOUS
    <3>2. AfterCutAll(old, tops, {}, old)
        BY DEF AfterCutAll
    <3> QED BY <2>1, <3>1, <3>2
  <2>2. CASE i # 0
    <3>1. i - 1 \in Q /\ i \in 1 .. Len(ns) /\ i \in Nat
        BY <1>1, <1>2, <2>2 DEF Before
    <3>2. AfterCutAll(old, tops, C(i - 1), cut[i - 1])
        BY <3>1
    <3>3. C(i) = C(i - 1) \cup {ns[i]}
      <4>1. 1 .. i = (1 .. i - 1) \cup {i}
        BY <3>1
      <4> QED BY <4>1
    <3>4. ns[i] \in Node /\ C(i - 1) \subseteq Node /\ ns[i] \notin C(i - 1)
      <4>1. \A k \in 1 .. i - 1 : k \in DOMAIN ns /\ k # i
        BY <1>1, <3>1
      <4>2. i \in DOMAIN ns /\ \A k \in DOMAIN ns : ns[k] \in Node
        BY <1>1, <3>1
      <4>3. \A k \in DOMAIN ns : ns[i] = ns[k] => i = k
        BY <4>2 DEF MayCut
      <4> QED BY <4>1, <4>2, <4>3
    <3>5. ns[i] \in Forest(old, tops) \ tops /\ Len(old[ns[i]]) = 1
        BY <1>1, <3>1 DEF MayCut
    <3> HIDE DEF C
    <3>6. PICK s, Cut, mid : s = ns[i] /\ Cut = C(i - 1) /\ mid = cut[i - 1]
        OBVIOUS
    <3>7. AfterCutAll(old, tops, Cut \cup {s}, CutSelection(mid, s))
        BY <3>2, <3>4, <3>5, <3>6, CutOneMore
    <3>8. CutSelection(mid, s) \in [Node -> Seq(Node)]
        BY <3>7 DEF AfterCutAll, Hangs
    <3>9. cut[i] = CutSelection(mid, s)
        BY <3>1, <3>6, <3>8
    <3> QED BY <3>3, <3>6, <3>7, <3>9
  <2> QED BY <2>1, <2>2
<1>3. Q = I
  <2>1. Q \in SUBSET I
    OBVIOUS
  <2> HIDE DEF Q
  <2> QED BY <1>1, <1>2, <2>1, CountGrounded DEF Grounded
<1> QED BY <1>3

LEMMA CutAllForest ==
    ASSUME NEW old, NEW tops, Hangs(old, tops), NEW ns, MayCut(old, tops, ns)
    PROVE  AfterCutAll(old, tops, {ns[k] : k \in DOMAIN ns}, CutAll(old, ns))
<1>1. ns \in Seq(Node) /\ Len(ns) \in Nat /\ DOMAIN ns = 1 .. Len(ns) /\ old \in [Node -> Seq(Node)]
    BY LenProperties DEF MayCut, Hangs
<1> DEFINE I == 0 .. Len(ns)
           W == [Node -> Seq(Node)]
           Step(f, i) == CutUpTo(old, ns, f, i)
           Typed(f, i) == IF Step(f, i) \in W THEN Step(f, i) ELSE old
           G == [i \in I |-> [f \in [I -> W] |-> Typed(f, i)]]
           cut == CHOOSE f : f = [i \in I |-> Step(f, i)]
<1>2. ASSUME NEW i \in I, NEW f, NEW g, \A k \in Before(Len(ns))[i] : f[k] = g[k]
      PROVE  Step(f, i) = Step(g, i)
  <2>1. i # 0 => f[i - 1] = g[i - 1]
    BY <1>1, <1>2 DEF Before
  <2> QED BY <2>1 DEF CutUpTo
<1>3. /\ \A f : Step(f, 0) = old
      /\ \A i \in 1 .. Len(ns) : \A f : Step(f, i) = CutSelection(f[i - 1], ns[i])
    BY <1>1 DEF CutUpTo
<1> HIDE DEF Step
<1>4. old \in W /\ Local(I, Before(Len(ns)), W, G)
  <2>1. \A i \in I : \A f \in [I -> W] : Typed(f, i) \in W
    BY <1>1
  <2>2. ASSUME NEW i \in I, NEW f \in [I -> W], NEW g \in [I -> W],
               \A k \in Before(Len(ns))[i] : f[k] = g[k]
        PROVE  Typed(f, i) = Typed(g, i)
    BY <1>2, <2>2
  <2> HIDE DEF Typed
  <2> QED BY <1>1, <2>1, <2>2 DEF Local
<1>5. Before(Len(ns)) \in [I -> SUBSET I] /\ Grounded(I, Before(Len(ns)))
    BY <1>1, CountGrounded
<1>6. PICK walk : Solves(I, Before(Len(ns)), W, G, I, walk)
  <2> HIDE DEF I, W, G
  <2> QED BY <1>4, <1>5, WalkExists
<1>7. walk \in [I -> W] /\ \A i \in I : walk[i] = Typed(walk, i)
    BY <1>6 DEF Solves
<1>8. \A i \in I : AfterCutAll(old, tops, {ns[k] : k \in 1 .. i}, walk[i])
  <2>1. walk[0] = old
    BY <1>1, <1>3, <1>7
  <2>2. \A i \in 1 .. Len(ns) :
           CutSelection(walk[i - 1], ns[i]) \in W => walk[i] = CutSelection(walk[i - 1], ns[i])
    <3> SUFFICES ASSUME NEW i \in 1 .. Len(ns), CutSelection(walk[i - 1], ns[i]) \in W
                 PROVE  walk[i] = CutSelection(walk[i - 1], ns[i])
        OBVIOUS
    <3>1. i \in I /\ Step(walk, i) = CutSelection(walk[i - 1], ns[i])
        BY <1>1, <1>3
    <3> QED BY <3>1, <1>7
  <2> QED BY <2>1, <2>2, CutCounted
<1>9. \A i \in I : Step(walk, i) \in W
  <2> SUFFICES ASSUME NEW i \in I
               PROVE  Step(walk, i) \in W
    OBVIOUS
  <2>1. CASE i = 0
    BY <2>1, <1>1, <1>3
  <2>2. CASE i # 0
    <3>1. i \in 1 .. Len(ns) /\ i - 1 \in I /\ i \in Nat
        BY <1>1, <2>2
    <3>2. PICK s, C, mid : s = ns[i] /\ C = {ns[k] : k \in 1 .. i - 1} /\ mid = walk[i - 1]
        OBVIOUS
    <3>3. AfterCutAll(old, tops, C, mid)
        BY <1>8, <3>1, <3>2
    <3>4. /\ \A k \in DOMAIN ns : ns[k] \in Node
          /\ \A k \in 1 .. i - 1 : k \in DOMAIN ns /\ k # i
          /\ i \in DOMAIN ns
        BY <1>1, <3>1
    <3>5. \A k \in DOMAIN ns : ns[i] = ns[k] => i = k
        BY <3>4 DEF MayCut
    <3>6. s \in Node /\ C \subseteq Node /\ s \notin C
        BY <3>2, <3>4, <3>5
    <3>7. s \in Forest(old, tops) \ tops /\ Len(old[s]) = 1
        BY <3>2, <3>4 DEF MayCut
    <3>8. AfterCutAll(old, tops, C \cup {s}, CutSelection(mid, s))
        BY <3>3, <3>6, <3>7, CutOneMore
    <3>9. CutSelection(mid, s) \in W
        BY <3>8 DEF AfterCutAll, Hangs
    <3> QED BY <3>1, <3>2, <3>9, <1>3
  <2> QED BY <2>1, <2>2
<1>10. walk = [i \in I |-> Step(walk, i)]
    BY <1>7, <1>9
<1>11. cut = [i \in I |-> Step(cut, i)]
    BY <1>10
<1>12. CutAll(old, ns) = cut[Len(ns)]
    BY DEF CutAll, Step
<1> HIDE DEF cut
<1>13. \A i \in I : cut[i] = Step(cut, i)
    BY <1>11
<1>14. \A i \in I : AfterCutAll(old, tops, {ns[k] : k \in 1 .. i}, cut[i])
  <2>1. cut[0] = old
    BY <1>1, <1>3, <1>13
  <2>2. \A i \in 1 .. Len(ns) :
           CutSelection(cut[i - 1], ns[i]) \in W => cut[i] = CutSelection(cut[i - 1], ns[i])
    BY <1>1, <1>3, <1>13
  <2> QED BY <2>1, <2>2, CutCounted
<1>15. AfterCutAll(old, tops, {ns[k] : k \in 1 .. Len(ns)}, cut[Len(ns)])
  <2>1. Len(ns) \in I
    BY <1>1
  <2> QED BY <2>1, <1>14, Zenon
<1> QED BY <1>1, <1>12, <1>15

(* SetToSeq lists the members of a set of nodes *)
LEMMA NodesListed ==
    ASSUME NEW S \in SUBSET Node
    PROVE  /\ SetToSeq(S) \in Seq(Node)
           /\ \A i, k \in DOMAIN SetToSeq(S) : SetToSeq(S)[i] = SetToSeq(S)[k] => i = k
           /\ {SetToSeq(S)[k] : k \in DOMAIN SetToSeq(S)} = S
<1>1. IsFiniteSet(S)
  <2>1. MaxNodes \in Nat
    BY MaxNodesAssumption
  <2>2. IsFiniteSet(Node)
    BY <2>1, FS_Interval DEF Node
  <2> QED BY <2>2, FS_Subset
<1>2. PICK N \in Nat : N = Cardinality(S) /\ ExistsBijection(1 .. N, S)
    BY <1>1, FS_CardinalityType
<1>3. PICK g \in Bijection(1 .. N, S) : TRUE
    BY <1>2 DEF ExistsBijection
<1>4. g \in [1 .. N -> S] /\ IsInjective(g)
    BY <1>3 DEF Bijection, Injection, IsInjective
<1>5. PICK f : f = SetToSeq(S) /\ f \in [1 .. N -> S] /\ IsInjective(f)
    BY <1>2, <1>4 DEF SetToSeq
<1>6. f \in Seq(Node)
    BY <1>5
<1>7. \A i, k \in DOMAIN f : f[i] = f[k] => i = k
    BY <1>5 DEF IsInjective
<1>8. {f[k] : k \in DOMAIN f} = S
  <2>1. f \in Injection(1 .. N, S)
    BY <1>5 DEF Injection
  <2>2. Cardinality(1 .. N) = Cardinality(S)
    BY <1>2, FS_Interval
  <2>3. f \in Surjection(1 .. N, S)
    BY <1>1, <2>1, <2>2, FS_Injection
  <2> QED BY <1>5, <2>3 DEF Surjection
<1> QED BY <1>5, <1>6, <1>7, <1>8

-----------------------------------------------------------------------------
(* A subtree moves below a new top *)

(* The node x, in slot i of j, moves below the new top f; the new leaf e takes the slot *)
Splits(old, tops, j, i, x, f, e, new) ==
    /\ j \in Node /\ i \in DOMAIN old[j] /\ old[j][i] = x
    /\ {f, e} \subseteq Node \ Forest(old, tops) /\ f # e
    /\ new = [old EXCEPT ![f] = <<x>>, ![j][i] = e]

(* The slots afterwards *)
AfterSplit(old, j, i, x, f, e, new) ==
    /\ new \in [Node -> Seq(Node)] /\ new[f] = <<x>>
    /\ \A n \in Node : n # f =>
          /\ DOMAIN new[n] = DOMAIN old[n] /\ Len(new[n]) = Len(old[n])
          /\ \A l \in DOMAIN old[n] : new[n][l] = IF n = j /\ l = i THEN e ELSE old[n][l]

LEMMA SplitAfter ==
    ASSUME NEW old, NEW tops, Hangs(old, tops), NEW j, NEW i, NEW x, NEW f, NEW e, NEW new,
           Splits(old, tops, j, i, x, f, e, new)
    PROVE  /\ AfterSplit(old, j, i, x, f, e, new)
           /\ j # f /\ j # e /\ x \in Node /\ x # f /\ x # e
           /\ DOMAIN old[f] = {} /\ DOMAIN old[e] = {}
<1>1. /\ old \in [Node -> Seq(Node)] /\ ForestSlots(old, tops)
      /\ j \in Node /\ i \in DOMAIN old[j] /\ old[j][i] = x
      /\ f \in Node /\ e \in Node /\ f # e
      /\ f \notin Forest(old, tops) /\ e \notin Forest(old, tops)
      /\ new = [old EXCEPT ![f] = <<x>>, ![j][i] = e]
    BY DEF Splits, Hangs
<1>2. old[f] = <<>> /\ old[e] = <<>>
    BY <1>1 DEF ForestSlots
<1>3. DOMAIN old[f] = {} /\ DOMAIN old[e] = {}
    BY <1>2
<1>4. j # f /\ j # e
    BY <1>1, <1>3
<1>5. x \in Node /\ x \in Forest(old, tops)
  <2>1. x \in Children(old, j)
    BY <1>1 DEF Children
  <2> QED BY <1>1, <2>1 DEF Forest
<1>6. PICK seq : seq = [old[j] EXCEPT ![i] = e] /\ Puts(old, j, i, e, seq)
    BY <1>1, PutInSlot
<1>7. PICK one : one = <<x>> /\ one \in Seq(Node)
  <2>1. <<x>> \in Seq(Node)
    BY <1>5
  <2> QED BY <2>1
<1>8. new = [old EXCEPT ![f] = one, ![j] = seq]
    BY <1>1, <1>4, <1>6, <1>7
<1>9. /\ new[f] = one /\ new[j] = seq /\ DOMAIN new = Node
      /\ \A n \in Node : n # f /\ n # j => new[n] = old[n]
    BY <1>1, <1>4, <1>8
<1>10. new \in [Node -> Seq(Node)]
  <2>1. \A n \in Node : new[n] \in Seq(Node)
    <3>1. seq \in Seq(Node)
        BY <1>6 DEF Puts
    <3> QED BY <3>1, <1>1, <1>7, <1>9
  <2>2. new = [n \in Node |-> new[n]]
    BY <1>8, <1>9
  <2> QED BY <2>1, <2>2
<1>11. AfterSplit(old, j, i, x, f, e, new)
  <2>1. ASSUME NEW n \in Node, n # f
        PROVE  /\ DOMAIN new[n] = DOMAIN old[n] /\ Len(new[n]) = Len(old[n])
               /\ \A l \in DOMAIN old[n] : new[n][l] = IF n = j /\ l = i THEN e ELSE old[n][l]
    <3>1. CASE n = j
        BY <3>1, <1>6, <1>9 DEF Puts
    <3>2. CASE n # j
        BY <3>2, <2>1, <1>9
    <3> QED BY <3>1, <3>2
  <2> QED BY <2>1, <1>7, <1>9, <1>10 DEF AfterSplit
<1> QED BY <1>1, <1>3, <1>4, <1>5, <1>11

LEMMA SplitForest ==
    ASSUME NEW old, NEW tops, Hangs(old, tops), NEW j, NEW i, NEW x, NEW f, NEW e, NEW new,
           Splits(old, tops, j, i, x, f, e, new)
    PROVE  /\ Hangs(new, tops \cup {f})
           /\ Forest(new, tops \cup {f}) = Forest(old, tops) \cup {f, e}
<1>1. /\ old \in [Node -> Seq(Node)] /\ tops \in SUBSET Node
      /\ ForestSlots(old, tops) /\ OnePiece(old, tops)
      /\ j \in Node /\ i \in DOMAIN old[j] /\ old[j][i] = x
      /\ f \in Node /\ e \in Node /\ f # e
    BY DEF Hangs, Splits
<1>2. /\ AfterSplit(old, j, i, x, f, e, new)
      /\ j # f /\ j # e /\ x \in Node /\ x # f /\ x # e /\ DOMAIN old[f] = {} /\ DOMAIN old[e] = {}
    BY SplitAfter
<1>3. /\ new \in [Node -> Seq(Node)] /\ new[f] = <<x>>
      /\ \A n \in Node : n # f =>
          /\ DOMAIN new[n] = DOMAIN old[n] /\ Len(new[n]) = Len(old[n])
          /\ \A l \in DOMAIN old[n] : new[n][l] = IF n = j /\ l = i THEN e ELSE old[n][l]
    BY <1>2 DEF AfterSplit
<1>4. \A a, b \in Node : \A k \in DOMAIN old[a], l \in DOMAIN old[b] :
             old[a][k] = old[b][l] => a = b /\ k = l
    BY <1>1 DEF ForestSlots
<1>5. DOMAIN new[f] = {1} /\ new[f][1] = x
    BY <1>3
<1>6. ASSUME NEW n \in Node, n # f
      PROVE  /\ Children(new, n) \subseteq (Children(old, n) \cup {e}) \ {x}
             /\ Children(old, n) \subseteq Children(new, n) \cup {x}
  <2>1. /\ DOMAIN new[n] = DOMAIN old[n]
        /\ \A l \in DOMAIN old[n] : new[n][l] = IF n = j /\ l = i THEN e ELSE old[n][l]
    BY <1>3, <1>6
  <2>2. \A l \in DOMAIN old[n] : old[n][l] = x <=> n = j /\ l = i
    BY <1>1, <1>4
  <2>3. Children(new, n) \subseteq (Children(old, n) \cup {e}) \ {x}
    BY <1>2, <2>1, <2>2 DEF Children
  <2>4. Children(old, n) \subseteq Children(new, n) \cup {x}
    BY <2>1, <2>2 DEF Children
  <2> QED BY <2>3, <2>4
<1>7. /\ Children(new, f) = {x} /\ e \in Children(new, j) /\ x \in Children(old, j)
      /\ Children(old, f) = {}
  <2>1. i \in DOMAIN new[j] /\ new[j][i] = e
    BY <1>1, <1>2, <1>3
  <2> QED BY <1>1, <1>2, <1>5, <2>1 DEF Children
<1>8. PICK F \in SUBSET Node : /\ F = Forest(old, tops) /\ tops \subseteq F
                               /\ \A n \in Node : Children(old, n) \subseteq F
    BY <1>1, ForestClosed
<1>9. f \notin F /\ e \notin F /\ x \in F /\ j \in F /\ x \notin tops
  <2>1. old[j] # <<>>
    BY <1>1
  <2> QED BY <1>1, <1>7, <1>8, <2>1 DEF Splits, ForestSlots
<1>10. PICK both \in SUBSET Node : both = tops \cup {f}
    BY <1>1
<1>11. Forest(new, both) = F \cup {f, e}
  <2>1. \A n \in Node : Children(new, n) \subseteq F \cup {e}
    BY <1>6, <1>7, <1>8, <1>9
  <2>2. ASSUME NEW n \in F
        PROVE  n \in Forest(new, both)
    <3>1. CASE n \in tops
        BY <3>1, <1>10 DEF Forest
    <3>2. CASE n \notin tops
      <4>1. PICK m \in Node : n \in Children(old, m)
        BY <1>8, <3>2 DEF Forest
      <4>2. n \in Children(new, m) \/ n \in Children(new, f)
        BY <4>1, <1>6, <1>7
      <4> QED BY <1>1, <4>2 DEF Forest
    <3> QED BY <3>1, <3>2
  <2>3. e \in Forest(new, both) /\ f \in Forest(new, both)
    BY <1>1, <1>7, <1>10 DEF Forest
  <2>4. Forest(new, both) \subseteq F \cup {f, e}
    BY <2>1, <1>8, <1>10 DEF Forest
  <2> QED BY <2>2, <2>3, <2>4
<1>12. ForestSlots(new, both)
  <2>1. ASSUME NEW z \in Node, NEW h \in DOMAIN new[z]
        PROVE  \/ z = f /\ h = 1 /\ new[z][h] = x
               \/ z = j /\ h = i /\ new[z][h] = e
               \/ z # f /\ h \in DOMAIN old[z] /\ new[z][h] = old[z][h] /\ new[z][h] \in F /\ new[z][h] # x
    <3>1. CASE z = f
        BY <3>1, <1>5
    <3>2. CASE z # f /\ ~(z = j /\ h = i)
      <4>1. h \in DOMAIN old[z] /\ new[z][h] = old[z][h]
        BY <1>3, <3>2
      <4>2. old[z][h] \in F
        BY <4>1, <1>8 DEF Children
      <4>3. old[z][h] # x
        BY <1>1, <1>4, <3>2, <4>1
      <4> QED BY <3>2, <4>1, <4>2, <4>3
    <3>3. CASE z = j /\ h = i
        BY <3>3, <1>1, <1>2, <1>3
    <3> QED BY <3>1, <3>2, <3>3
  <2>2. ASSUME NEW y \in Node, NEW z \in Node, NEW m \in DOMAIN new[y], NEW l \in DOMAIN new[z],
               new[y][m] = new[z][l]
        PROVE  y = z /\ m = l
    <3>1. ASSUME y # f, m \in DOMAIN old[y], new[y][m] = old[y][m],
                 z # f, l \in DOMAIN old[z], new[z][l] = old[z][l]
          PROVE  y = z /\ m = l
      <4>1. old[y][m] = old[z][l]
        BY <2>2, <3>1
      <4> QED BY <4>1, <3>1, <1>4
    <3>2. /\ \/ y = f /\ m = 1 /\ new[y][m] = x
             \/ y = j /\ m = i /\ new[y][m] = e
             \/ y # f /\ m \in DOMAIN old[y] /\ new[y][m] = old[y][m] /\ new[y][m] \in F /\ new[y][m] # x
          /\ \/ z = f /\ l = 1 /\ new[z][l] = x
             \/ z = j /\ l = i /\ new[z][l] = e
             \/ z # f /\ l \in DOMAIN old[z] /\ new[z][l] = old[z][l] /\ new[z][l] \in F /\ new[z][l] # x
        BY <2>1
    <3> QED BY <2>2, <3>1, <3>2, <1>1, <1>2, <1>9
  <2>3. ASSUME NEW n \in Node
        PROVE  Children(new, n) \cap both = {}
    <3>1. Children(old, n) \cap tops = {} /\ f \notin Children(old, n) /\ e \notin tops
      <4>1. Children(old, n) \cap tops = {}
        BY <1>1 DEF ForestSlots
      <4>2. Children(old, n) \subseteq F /\ tops \subseteq F /\ f \notin F /\ e \notin F
        BY <1>8, <1>9
      <4> QED BY <4>1, <4>2
    <3>2. CASE n = f
      <4>1. Children(new, n) = {x} /\ x \notin tops /\ x # f
        BY <3>2, <1>2, <1>7, <1>9
      <4> QED BY <4>1, <1>10
    <3>3. CASE n # f
      <4>1. Children(new, n) \subseteq (Children(old, n) \cup {e}) \ {x} /\ e # f
        BY <3>3, <1>1, <1>6
      <4> QED BY <4>1, <3>1, <1>10
    <3> QED BY <3>2, <3>3
  <2>4. ASSUME NEW n \in Node, new[n] # <<>>, n # f
        PROVE  n \in F
    <3>1. Len(new[n]) = Len(old[n]) /\ new[n] \in Seq(Node) /\ old[n] \in Seq(Node)
        BY <1>1, <1>3, <2>4
    <3>2. old[n] # <<>>
        BY <2>4, <3>1, EmptySeq
    <3> QED BY <3>2, <1>1, <1>8 DEF ForestSlots
  <2> QED BY <2>2, <2>3, <2>4, <1>11 DEF ForestSlots
<1>13. OnePiece(new, both)
  <2>1. ASSUME NEW S \in SUBSET (F \cup {f, e}), both \subseteq S, Closed(new, S)
        PROVE  S = F \cup {f, e}
    <3>1. PICK R \in SUBSET F : R = S \ {f, e}
        BY <1>9
    <3>2. x \in S /\ (j \in S => e \in S)
        BY <2>1, <1>7, <1>10 DEF Closed
    <3>3. ASSUME NEW n \in R
          PROVE  Children(old, n) \subseteq R
      <4>1. n \in S /\ n \in Node /\ n # f
        BY <3>1, <1>8, <1>9
      <4>2. Children(new, n) \subseteq S
        BY <4>1, <2>1 DEF Closed
      <4> QED BY <3>1, <3>2, <4>1, <4>2, <1>6, <1>8, <1>9
    <3>4. tops \subseteq R
        BY <2>1, <3>1, <1>8, <1>9, <1>10
    <3>5. R = F
        BY <3>3, <3>4, <1>1, <1>8 DEF OnePiece, Closed
    <3> QED BY <2>1, <3>1, <3>2, <3>5, <1>9, <1>10
  <2> QED BY <2>1, <1>11 DEF OnePiece
<1> QED BY <1>3, <1>8, <1>10, <1>11, <1>12, <1>13 DEF Hangs

-----------------------------------------------------------------------------
(* A leaf gets a child *)

(* The childless q gets the new leaf e *)
Grafts(old, tops, q, e, new) ==
    /\ q \in Forest(old, tops) /\ old[q] = <<>>
    /\ e \in Node \ Forest(old, tops)
    /\ new = [old EXCEPT ![q] = <<e>>]

LEMMA GraftForest ==
    ASSUME NEW old, NEW tops, Hangs(old, tops), NEW q, NEW e, NEW new, Grafts(old, tops, q, e, new)
    PROVE  /\ Hangs(new, tops) /\ Forest(new, tops) = Forest(old, tops) \cup {e}
           /\ new \in [Node -> Seq(Node)] /\ new[q] = <<e>>
           /\ \A n \in Node : n # q => new[n] = old[n]
<1>1. /\ old \in [Node -> Seq(Node)] /\ tops \in SUBSET Node
      /\ ForestSlots(old, tops) /\ OnePiece(old, tops)
      /\ new = [old EXCEPT ![q] = <<e>>] /\ old[q] = <<>> /\ e \in Node
    BY DEF Hangs, Grafts
<1>2. PICK F \in SUBSET Node : /\ F = Forest(old, tops) /\ tops \subseteq F
                               /\ \A n \in Node : Children(old, n) \subseteq F
    BY <1>1, ForestClosed
<1>3. q \in F /\ q \in Node /\ e \notin F /\ q # e
    BY <1>2 DEF Grafts
<1>4. new[q] = <<e>> /\ \A n \in Node : n # q => new[n] = old[n]
    BY <1>1, <1>3
<1>5. new \in [Node -> Seq(Node)]
  <2>1. <<e>> \in Seq(Node)
    BY <1>1
  <2>2. \A n \in Node : new[n] \in Seq(Node)
    BY <1>1, <1>4, <2>1
  <2>3. new = [n \in Node |-> new[n]]
    BY <1>1
  <2> QED BY <2>2, <2>3
<1>6. DOMAIN new[q] = {1} /\ new[q][1] = e /\ DOMAIN old[q] = {} /\ old[e] = <<>>
  <2>1. old[e] = <<>>
    BY <1>1, <1>2, <1>3 DEF ForestSlots
  <2> QED BY <2>1, <1>1, <1>4
<1>7. /\ Children(new, q) = {e} /\ Children(old, q) = {}
      /\ \A n \in Node : n # q => Children(new, n) = Children(old, n)
    BY <1>4, <1>6 DEF Children
<1>8. Forest(new, tops) = F \cup {e}
  <2>1. ASSUME NEW n \in Node
        PROVE  Children(new, n) \subseteq F \cup {e}
    <3>1. CASE n = q
        BY <3>1, <1>7
    <3>2. CASE n # q
        BY <3>2, <1>2, <1>7
    <3> QED BY <3>1, <3>2
  <2>2. ASSUME NEW n \in F
        PROVE  n \in Forest(new, tops)
    <3>1. CASE n \in tops
        BY <3>1 DEF Forest
    <3>2. CASE n \notin tops
      <4>1. PICK m \in Node : n \in Children(old, m)
        BY <1>2, <3>2 DEF Forest
      <4>2. n \in Children(new, m)
        BY <4>1, <1>7
      <4> QED BY <4>2 DEF Forest
    <3> QED BY <3>1, <3>2
  <2>3. e \in Forest(new, tops)
    BY <1>3, <1>7 DEF Forest
  <2>4. Forest(new, tops) \subseteq F \cup {e}
    BY <2>1, <1>2 DEF Forest
  <2> QED BY <2>2, <2>3, <2>4
<1>9. ForestSlots(new, tops)
  <2>1. ASSUME NEW y \in Node, NEW z \in Node, NEW m \in DOMAIN new[y], NEW l \in DOMAIN new[z],
               new[y][m] = new[z][l]
        PROVE  y = z /\ m = l
    <3>1. ASSUME NEW n \in Node, NEW k \in DOMAIN new[n], n # q
          PROVE  k \in DOMAIN old[n] /\ new[n][k] = old[n][k] /\ new[n][k] # e
      <4>1. k \in DOMAIN old[n] /\ new[n][k] = old[n][k]
        BY <1>4, <3>1
      <4>2. old[n][k] \in F
        BY <4>1, <1>2 DEF Children
      <4> QED BY <4>1, <4>2, <1>3
    <3>2. CASE y = q /\ z = q
        BY <3>2, <1>6
    <3>3. CASE y # q /\ z # q
      <4>1. m \in DOMAIN old[y] /\ l \in DOMAIN old[z] /\ old[y][m] = old[z][l]
        BY <2>1, <3>1, <3>3
      <4> QED BY <4>1, <1>1 DEF ForestSlots
    <3>4. CASE (y = q) # (z = q)
        BY <2>1, <3>1, <3>4, <1>6
    <3> QED BY <3>2, <3>3, <3>4
  <2>2. ASSUME NEW n \in Node
        PROVE  Children(new, n) \cap tops = {}
    <3>1. Children(old, n) \cap tops = {}
        BY <1>1 DEF ForestSlots
    <3> QED BY <3>1, <1>2, <1>3, <1>7
  <2>3. ASSUME NEW n \in Node, new[n] # <<>>
        PROVE  n \in F
    BY <1>1, <1>2, <1>3, <1>4, <2>3 DEF ForestSlots
  <2> QED BY <2>1, <2>2, <2>3, <1>8 DEF ForestSlots
<1>10. OnePiece(new, tops)
  <2>1. ASSUME NEW S \in SUBSET (F \cup {e}), tops \subseteq S, Closed(new, S)
        PROVE  S = F \cup {e}
    <3>1. PICK R \in SUBSET F : R = S \ {e}
        BY <1>3
    <3>2. ASSUME NEW n \in R
          PROVE  Children(old, n) \subseteq R
      <4>1. Children(new, n) \subseteq S /\ n \in Node
        BY <3>1, <2>1, <1>2 DEF Closed
      <4> QED BY <3>1, <4>1, <1>2, <1>3, <1>7
    <3>3. tops \subseteq R
        BY <2>1, <3>1, <1>2, <1>3
    <3>4. R = F
        BY <3>2, <3>3, <1>1, <1>2 DEF OnePiece, Closed
    <3>5. e \in S
        BY <2>1, <3>1, <3>4, <1>3, <1>7 DEF Closed
    <3> QED BY <2>1, <3>1, <3>4, <3>5
  <2> QED BY <2>1, <1>8 DEF OnePiece
<1> QED BY <1>1, <1>2, <1>4, <1>5, <1>8, <1>9, <1>10 DEF Hangs

-----------------------------------------------------------------------------
(* The way up *)

(* The nodes that hang in a slot *)
Hung(children) == UNION {Children(children, p) : p \in Node}

(* PathUp, for any children and any node that hangs *)
UpFrom(children, x) ==
    LET up[n \in UNION {Children(children, p) : p \in Node}] == PathStep(children, up, n)
    IN  up[x]

(* The parent, if it hangs *)
Above(children) == [n \in Hung(children) |-> {p \in Hung(children) : n \in Children(children, p)}]

LEMMA AboveGrounded ==
    ASSUME NEW children, NEW tops, Hangs(children, tops)
    PROVE  /\ Above(children) \in [Hung(children) -> SUBSET Hung(children)]
           /\ Grounded(Hung(children), Above(children))
<1>1. PICK H : H = Hung(children)
    OBVIOUS
<1>2. Above(children) = [n \in H |-> {p \in H : n \in Children(children, p)}]
    BY <1>1 DEF Above
<1>3. /\ Forest(children, tops) = tops \cup H /\ H \cap tops = {}
      /\ \A p \in Node : Children(children, p) \subseteq H
    BY <1>1 DEF Hangs, ForestSlots, Forest, Hung
<1>4. tops \subseteq Node /\ H \subseteq Node
  <2>1. children \in [Node -> Seq(Node)] /\ tops \in SUBSET Node
    BY DEF Hangs
  <2> QED BY <2>1, <1>1 DEF Hung, Children
<1>5. ASSUME NEW S \in SUBSET H, \A n \in H : Above(children)[n] \subseteq S => n \in S
      PROVE  S = H
  <2>1. ASSUME NEW n \in S \cup tops, NEW c \in Children(children, n)
        PROVE  c \in S
    <3>1. n \in Node /\ c \in H
        BY <1>3, <1>4
    <3>2. \A p \in Node : c \in Children(children, p) => p = n
        BY <3>1 DEF Hangs, ForestSlots, Children
    <3>3. Above(children)[c] \subseteq S
        BY <1>2, <1>3, <1>4, <3>1, <3>2
    <3> QED BY <3>1, <3>3, <1>5
  <2>2. PICK R : R = S \cup tops /\ R \in SUBSET Forest(children, tops)
    BY <1>3
  <2>3. Closed(children, R)
    BY <2>1, <2>2 DEF Closed
  <2>4. R = Forest(children, tops)
    BY <2>2, <2>3 DEF Hangs, OnePiece
  <2> QED BY <1>3, <2>2, <2>4
<1>6. Grounded(H, Above(children))
    BY <1>5 DEF Grounded
<1> QED BY <1>1, <1>2, <1>6

(* The way up ends at a projection with children, since the tops are projections *)
LEMMA UpFromIn ==
    ASSUME NEW children, NEW tops, Hangs(children, tops),
           \A n \in tops : node[n].node_case = "PROJECTION", NEW x \in Hung(children)
    PROVE  \E top \in Node : /\ Last(UpFrom(children, x)) = top /\ top \in Forest(children, tops)
                             /\ node[top].node_case = "PROJECTION" /\ Children(children, top) # {}
<1>1. PICK H \in SUBSET Node : H = Hung(children)
  <2>1. children \in [Node -> Seq(Node)]
    BY DEF Hangs
  <2>2. Hung(children) \subseteq Node
    BY <2>1 DEF Hung, Children
  <2> QED BY <2>2
<1>2. PICK above : /\ above = Above(children) /\ above \in [H -> SUBSET H] /\ Grounded(H, above)
    BY <1>1, AboveGrounded
<1>3. PICK F \in SUBSET Node : /\ F = Forest(children, tops) /\ F = tops \cup H /\ H \cap tops = {}
                               /\ \A p \in Node : Children(children, p) \subseteq H
                               /\ \A p \in Node : Children(children, p) # {} => p \in F
  <2>1. /\ Forest(children, tops) = tops \cup H /\ H \cap tops = {}
        /\ \A p \in Node : Children(children, p) \subseteq H
    BY <1>1 DEF Hangs, ForestSlots, Forest, Hung
  <2>2. ASSUME NEW p \in Node, Children(children, p) # {}
        PROVE  p \in Forest(children, tops)
    <3>1. children[p] # <<>>
        BY <2>2 DEF Children
    <3> QED BY <3>1 DEF Hangs, ForestSlots
  <2>3. Forest(children, tops) \subseteq Node
    BY ForestClosed DEF Hangs
  <2> QED BY <2>1, <2>2, <2>3
<1> DEFINE P == {p \in F : node[p].node_case = "PROJECTION" /\ Children(children, p) # {}}
           W == {q \in Seq(F) : q # <<>> /\ q[Len(q)] \in P}
           Step(u, n) == PathStep(children, u, n)
           G == [n \in H |-> [u \in [H -> W] |-> Step(u, n)]]
           up == CHOOSE u : u = [n \in H |-> Step(u, n)]
<1>4. ASSUME NEW n \in H
      PROVE  \E p \in F : /\ get_node_parent(children, n)[1] = p /\ n \in Children(children, p)
                          /\ node[p].node_case = "PROJECTION" => p \in P
                          /\ node[p].node_case # "PROJECTION" => p \in above[n]
  <2>1. PICK q \in Node : n \in Children(children, q)
    BY <1>1 DEF Hung
  <2>2. PICK p, i : /\ get_node_parent(children, n)[1] = p
                    /\ p \in Node /\ i \in DOMAIN children[p] /\ children[p][i] = n
    BY <2>1, SlotFound
  <2>3. n \in Children(children, p)
    BY <2>2 DEF Children
  <2>4. p \in F
    BY <1>3, <2>2, <2>3
  <2>5. node[p].node_case # "PROJECTION" => p \in above[n]
    BY <1>1, <1>2, <1>3, <2>3, <2>4 DEF Above
  <2> QED BY <2>2, <2>3, <2>4, <2>5
<1>5. ASSUME NEW n \in H, NEW u, \A m \in above[n] : u[m] \in W
      PROVE  Step(u, n) \in W
  <2>1. PICK p \in F : /\ get_node_parent(children, n)[1] = p
                       /\ node[p].node_case = "PROJECTION" => p \in P
                       /\ node[p].node_case # "PROJECTION" => p \in above[n]
    BY <1>4
  <2>2. <<p>> \in Seq(F) /\ <<p>> # <<>> /\ Len(<<p>>) = 1 /\ <<p>>[1] = p
    OBVIOUS
  <2>3. CASE node[p].node_case = "PROJECTION"
    <3>1. Step(u, n) = <<p>>
        BY <2>1, <2>3 DEF PathStep
    <3>2. <<p>> \in W
        BY <2>1, <2>2, <2>3
    <3> QED BY <3>1, <3>2
  <2>4. CASE node[p].node_case # "PROJECTION"
    <3>1. Step(u, n) = <<p>> \o u[p]
        BY <2>1, <2>4 DEF PathStep
    <3>2. PICK q \in Seq(F) : q = u[p] /\ q # <<>> /\ q[Len(q)] \in P
        BY <1>5, <2>1, <2>4
    <3>3. PICK one \in Seq(F) : one = <<p>> /\ Len(one) = 1
        BY <2>2
    <3>4. /\ one \o q \in Seq(F) /\ Len(one \o q) = Len(one) + Len(q)
          /\ \A i \in 1 .. Len(one) + Len(q) : (one \o q)[i] = IF i <= Len(one) THEN one[i] ELSE q[i - Len(one)]
        BY ConcatProperties
    <3>5. Len(q) \in Nat \ {0}
        BY <3>2, EmptySeq, LenProperties
    <3>6. (one \o q)[Len(q) + 1] = q[Len(q)] /\ Len(one \o q) = Len(q) + 1
        BY <3>3, <3>4, <3>5
    <3>7. one \o q # <<>>
        BY <3>4, <3>5, <3>6
    <3>8. one \o q \in W
        BY <3>2, <3>4, <3>6, <3>7
    <3> QED BY <3>1, <3>2, <3>3, <3>8
  <2> QED BY <2>3, <2>4
<1>6. ASSUME NEW n \in H, NEW u, NEW v, \A m \in above[n] : u[m] = v[m]
      PROVE  Step(u, n) = Step(v, n)
  <2>1. PICK p \in F : /\ get_node_parent(children, n)[1] = p
                       /\ node[p].node_case # "PROJECTION" => p \in above[n]
    BY <1>4
  <2> QED BY <1>6, <2>1 DEF PathStep
<1>7. W # {}
  <2>1. PICK t \in tops : Children(children, t) # {}
    <3> SUFFICES ASSUME \A t \in tops : Children(children, t) = {}
                 PROVE  FALSE
        OBVIOUS
    <3>1. Closed(children, tops) /\ tops \in SUBSET Forest(children, tops)
        BY <1>3 DEF Closed
    <3>2. tops = Forest(children, tops)
        BY <3>1 DEF Hangs, OnePiece
    <3> QED BY <1>1, <1>3, <3>2
  <2>2. t \in P
    BY <1>3, <2>1
  <2>3. <<t>> \in Seq(F) /\ <<t>> # <<>> /\ Len(<<t>>) = 1 /\ <<t>>[1] = t
    BY <2>2
  <2> QED BY <2>2, <2>3
<1> HIDE DEF W, P, Step
<1>8. Local(H, above, W, G)
  <2>1. \A n \in H : \A u \in [H -> W] : Step(u, n) \in W
    BY <1>2, <1>5
  <2>2. ASSUME NEW n \in H, NEW u \in [H -> W], NEW v \in [H -> W], \A m \in above[n] : u[m] = v[m]
        PROVE  Step(u, n) = Step(v, n)
    BY <1>6, <2>2
  <2> QED BY <2>1, <2>2 DEF Local
<1>9. PICK default : default \in W
    BY <1>7
<1>10. PICK walk : Solves(H, above, W, G, H, walk)
  <2> HIDE DEF G
  <2> QED BY <1>2, <1>8, <1>9, WalkExists
<1>11. \A n \in H : walk[n] = Step(walk, n)
    BY <1>10 DEF Solves
<1>12. walk = [n \in H |-> Step(walk, n)]
    BY <1>10, <1>11 DEF Solves
<1>13. up = [n \in H |-> Step(up, n)]
    BY <1>12
<1>14. UpFrom(children, x) = up[x]
    BY <1>1 DEF UpFrom, Step, Hung
<1> HIDE DEF up
<1> DEFINE Q == {n \in H : up[n] \in W}
<1>15. ASSUME NEW n \in H, above[n] \subseteq Q
       PROVE  n \in Q
  <2>1. up[n] = Step(up, n)
    BY <1>13
  <2>2. Step(up, n) \in W
    BY <1>5, <1>15
  <2> QED BY <2>1, <2>2
<1>16. Q = H
  <2>1. Q \in SUBSET H
    OBVIOUS
  <2> HIDE DEF Q
  <2> QED BY <1>2, <1>15, <2>1 DEF Grounded
<1>17. up[x] \in W
    BY <1>1, <1>16
<1>18. up[x][Len(up[x])] \in P
    BY <1>17 DEF W
<1> QED BY <1>3, <1>14, <1>18 DEF P, Last

-----------------------------------------------------------------------------
(* What the invariant says *)

LEMMA KidsTypes ==
    ASSUME ch \in [Node -> Seq(Node)]
    PROVE  /\ Apart \in [Node -> Seq(Node)] /\ Kids \in [Node -> Seq(Node)]
           /\ \A n \in Node : Apart[n] = IF n = d_projection THEN <<>> ELSE ch[n]
<1>1. PICK own : own = Apart /\ own = [ch EXCEPT ![d_projection] = <<>>]
    BY DEF Apart
<1>2. \A n \in Node : own[n] = IF n = d_projection THEN <<>> ELSE ch[n]
    BY <1>1
<1>3. <<>> \in Seq(Node)
    BY EmptySeq
<1>4. \A n \in Node : own[n] \in Seq(Node)
    BY <1>2, <1>3
<1>5. own = [n \in Node |-> own[n]]
    BY <1>1
<1>6. Apart \in [Node -> Seq(Node)]
    BY <1>1, <1>4, <1>5
<1>7. Kids \in [Node -> Seq(Node)]
    BY <1>6 DEF Kids
<1> QED BY <1>1, <1>2, <1>6, <1>7

(* The forest that is kept *)
LEMMA Grown ==
    ASSUME UInv
    PROVE  \E own, tops, F :
              /\ own = Kids /\ tops = AllTops /\ F = Forest(own, tops)
              /\ Hangs(own, tops) /\ own \in [Node -> Seq(Node)] /\ tops \in SUBSET Node
              /\ tops \subseteq F /\ F \in SUBSET Node
              /\ \A n \in Node : Children(own, n) \subseteq F /\ Children(own, n) \cap tops = {}
              /\ \A n \in Node : n \notin F => own[n] = <<>>
              /\ \A n \in tops : node[n].node_case = "PROJECTION"
              /\ \A n \in F : n < fresh /\ (IsWhole(node, own, n) \/ (Shared /\ n = d_projection))
<1>1. /\ TreeTypes /\ IsForest(Kids, AllTops)
      /\ \A n \in Forest(Kids, AllTops) : IsWhole(node, Kids, n) \/ (Shared /\ n = d_projection)
    BY DEF UInv, TreesKept
<1>2. /\ ch \in [Node -> Seq(Node)] /\ root \in Node /\ ctes \in Seq(Node)
      /\ \A n \in Forest(Kids, AllTops) : n < fresh
      /\ \A n \in AllTops : node[n].node_case = "PROJECTION"
    BY <1>1 DEF TreeTypes
<1>3. PICK own \in [Node -> Seq(Node)] : own = Kids
    BY <1>2, KidsTypes
<1>4. PICK tops \in SUBSET Node : tops = AllTops
  <2>1. AllTops \subseteq Node
    BY <1>2 DEF Tops, AllTops
  <2> QED BY <2>1
<1>5. Hangs(own, tops)
    BY <1>1, <1>3, <1>4, HangsForest
<1>6. /\ \A n \in Node : Children(own, n) \cap tops = {}
      /\ \A n \in Node : n \notin Forest(own, tops) => own[n] = <<>>
    BY <1>5 DEF Hangs, ForestSlots
<1>7. /\ tops \subseteq Forest(own, tops) /\ Forest(own, tops) \in SUBSET Node
      /\ \A n \in Node : Children(own, n) \subseteq Forest(own, tops)
    BY ForestClosed
<1> QED BY <1>1, <1>2, <1>3, <1>4, <1>5, <1>6, <1>7

(* The subquery of a join is one of its two children *)
LEMMA SubqueryBelow ==
    ASSUME UInv, NEW j, HasSubquery(node, Kids, AllTops, j)
    PROVE  /\ j \in Node /\ DOMAIN Kids[j] = {1, 2} /\ Len(Kids[j]) = 2
           /\ Kids[j] = ch[j] /\ (Shared => j # d_projection)
           /\ Kids[j][2] \in Children(Kids, j)
           /\ Kids[j][2] \in Forest(Kids, AllTops) /\ Kids[j][2] \in Node
           /\ Kids[j][2] \notin AllTops
<1>1. PICK own, tops, F :
              /\ own = Kids /\ tops = AllTops /\ F = Forest(own, tops)
              /\ own \in [Node -> Seq(Node)] /\ F \in SUBSET Node
              /\ \A n \in Node : Children(own, n) \subseteq F /\ Children(own, n) \cap tops = {}
              /\ \A n \in F : IsWhole(node, own, n) \/ (Shared /\ n = d_projection)
    BY Grown
<1>2. j \in F /\ node[j].node_case = "JOIN" /\ node[own[j][2]].node_case = "PROJECTION"
    BY <1>1 DEF HasSubquery
<1>3. Shared => j # d_projection
    BY <1>2 DEF UInv, DInv
<1>4. IsWhole(node, own, j)
    BY <1>1, <1>2, <1>3
<1>5. Len(own[j]) = 2
    BY <1>2, <1>4 DEF IsWhole, is_full, n_children
<1>6. DOMAIN own[j] = 1 .. 2
    BY <1>1, <1>2, <1>5, LenProperties
<1>7. DOMAIN own[j] = {1, 2}
    BY <1>6
<1>8. own[j][2] \in Children(own, j)
    BY <1>7 DEF Children
<1>9. own[j] = ch[j]
  <2>1. ch \in [Node -> Seq(Node)]
    BY DEF UInv, TreeTypes
  <2>2. j \in Node
    BY <1>1, <1>2
  <2> QED BY <2>1, <2>2, <1>1, <1>3, KidsTypes DEF Kids
<1>10. own[j][2] \in F /\ own[j][2] \in Node /\ own[j][2] \notin tops /\ j \in Node
    BY <1>1, <1>2, <1>8
<1> QED BY <1>1, <1>3, <1>5, <1>7, <1>8, <1>9, <1>10

(* Where the dependent join and D hang, and what the original join has to do with them *)
Dependents(own, dep, d, x, p, i, oj) ==
    /\ dep \in Node /\ d \in Node /\ x \in Node /\ oj \in Node
    /\ own[dep] = <<d, x>> /\ own[d] = <<>>
    /\ p \in Node /\ i \in DOMAIN own[p] /\ own[p][i] = dep
    /\ p # x /\ p # dep /\ p # d /\ x # dep /\ x # d /\ d # dep
    /\ oj # p /\ oj # dep /\ oj # x /\ oj # d
    /\ DOMAIN own[oj] = {1, 2}
    /\ \A n \in Node : n # d => ch[n] = own[n]
    /\ ch[d] = <<own[oj][1]>>

LEMMA SharedFacts ==
    ASSUME UInv, Shared
    PROVE  \E p, i : /\ Dependents(Kids, dep_join, d_projection, below_join, p, i, original_join)
                     /\ get_node_parent(ch, dep_join)[1] = p /\ get_node_parent(ch, dep_join)[2] = i
<1>1. PICK own, tops, F :
              /\ own = Kids /\ tops = AllTops /\ F = Forest(own, tops)
              /\ Hangs(own, tops) /\ own \in [Node -> Seq(Node)]
              /\ F \in SUBSET Node
              /\ \A n \in Node : Children(own, n) \subseteq F
              /\ \A n \in tops : node[n].node_case = "PROJECTION"
              /\ \A n \in F : IsWhole(node, own, n) \/ (Shared /\ n = d_projection)
    BY Grown
<1>2. PICK dep, d, x, oj : dep = dep_join /\ d = d_projection /\ x = below_join /\ oj = original_join
    OBVIOUS
<1>3. /\ HasSubquery(node, own, tops, oj) /\ dep \in F
      /\ node[dep].node_case = "JOIN" /\ node[d].node_case = "PROJECTION"
      /\ oj \notin Below(own, dep) /\ dep \notin Children(own, oj)
    BY <1>1, <1>2 DEF UInv, DInv
<1>4. /\ dep \in Node /\ dep # d /\ dep \notin tops /\ Len(own[dep]) = 2
  <2>1. IsWhole(node, own, dep)
    BY <1>1, <1>2, <1>3
  <2> QED BY <1>1, <1>3, <2>1 DEF IsWhole, is_full, n_children
<1>5. \A n \in Node : own[n] = IF n = d THEN <<>> ELSE ch[n]
  <2>1. ch \in [Node -> Seq(Node)]
    BY DEF UInv, TreeTypes
  <2> QED BY <2>1, <1>1, <1>2, KidsTypes DEF Kids
<1>6. own[dep] = <<d, x>> /\ DOMAIN own[dep] = {1, 2} /\ own[dep][1] = d /\ own[dep][2] = x
  <2>1. own[dep] = ch[dep] /\ own[dep] \in Seq(Node)
    BY <1>1, <1>4, <1>5
  <2>2. own[dep][1] = d /\ own[dep][2] = x
    BY <1>2, <2>1 DEF d_projection, below_join
  <2>3. DOMAIN own[dep] = 1 .. 2
    BY <2>1, <1>4, LenProperties
  <2>4. own[dep] = <<own[dep][1], own[dep][2]>>
    BY <2>1, <2>3, <1>4
  <2> QED BY <2>2, <2>3, <2>4
<1>7. /\ d \in Children(own, dep) /\ x \in Children(own, dep) /\ d \in Node /\ x \in Node
      /\ d # x /\ own[d] = <<>>
  <2>1. d \in Children(own, dep) /\ x \in Children(own, dep)
    BY <1>6 DEF Children
  <2>2. \A k, l \in DOMAIN own[dep] : own[dep][k] = own[dep][l] => k = l
    BY <1>1, <1>4 DEF Hangs, ForestSlots
  <2>3. d # x
    BY <1>6, <2>2
  <2> QED BY <1>1, <1>4, <1>5, <2>1, <2>3
<1>8. x # dep
    BY <1>1, <1>4, <1>7, ParentDiffers
<1>9. /\ oj \in Node /\ DOMAIN own[oj] = {1, 2} /\ oj # d
    BY <1>1, <1>2, <1>3, SubqueryBelow
<1>10. dep \in Below(own, dep) /\ x \in Below(own, dep)
    BY <1>1, <1>4, <1>7, BelowClosed DEF Closed
<1>11. oj # dep /\ oj # x
    BY <1>3, <1>10
<1>12. ch[d] = <<own[oj][1]>>
  <2>1. ch[d_projection] = <<ch[original_join][1]>>
    BY DEF UInv, TreesKept
  <2>2. own[oj] = ch[oj]
    BY <1>5, <1>9
  <2> QED BY <1>2, <2>1, <2>2
<1>13. PICK p, i : /\ get_node_parent(ch, dep)[1] = p /\ get_node_parent(ch, dep)[2] = i
                   /\ p \in Node /\ i \in DOMAIN ch[p] /\ ch[p][i] = dep
  <2>1. PICK q \in Node : dep \in Children(own, q)
    BY <1>1, <1>3, <1>4 DEF Forest
  <2>2. q # d
    BY <2>1, <1>7 DEF Children
  <2>3. dep \in Children(ch, q)
    BY <2>1, <2>2, <1>5 DEF Children
  <2> QED BY <2>1, <2>3, SlotFound
<1>14. p # d
  <2>1. ASSUME p = d
        PROVE  FALSE
    <3>1. i = 1 /\ dep = own[oj][1]
        BY <2>1, <1>12, <1>13
    <3>2. dep \in Children(own, oj)
        BY <3>1, <1>9 DEF Children
    <3> QED BY <3>2, <1>3
  <2> QED BY <2>1
<1>15. i \in DOMAIN own[p] /\ own[p][i] = dep /\ dep \in Children(own, p)
  <2>1. own[p] = ch[p]
    BY <1>5, <1>13, <1>14
  <2> QED BY <2>1, <1>13 DEF Children
<1>16. p # dep /\ p # x /\ p # oj
  <2>1. p \notin Below(own, dep)
    BY <1>1, <1>13, <1>15, NotBelowChild
  <2> QED BY <2>1, <1>3, <1>10, <1>15
<1>17. Dependents(own, dep, d, x, p, i, oj)
    BY <1>4, <1>5, <1>6, <1>7, <1>8, <1>9, <1>11, <1>12, <1>13, <1>14, <1>15, <1>16 DEF Dependents
<1> QED BY <1>1, <1>2, <1>13, <1>17

-----------------------------------------------------------------------------
(* The steps of the pass *)

LEMMA NothingChanges ==
    ASSUME UInv, UNCHANGED <<node, ch, pred, term, root, fresh, ctes, counter, pc,
                             markers_joins, mi, dep_join>>
    PROVE  UInv' /\ Kids' = Kids /\ AllTops' = AllTops
<1>1. /\ Kids' = Kids /\ AllTops' = AllTops /\ Shared' = Shared /\ ToDo' = ToDo
      /\ d_projection' = d_projection /\ original_join' = original_join
    BY DEF Kids, Shared, Apart, AllTops, ToDo, d_projection, original_join
<1>2. Unnesting' /\ TreeTypes' /\ CteNamesFree'
    BY <1>1 DEF UInv, Unnesting, TreeTypes, CteNamesFree
<1>3. TreesKept'
    BY <1>1 DEF UInv, TreesKept, Unnesting
<1>4. MarkersInv'
  <2>1. ScalarMarkers' = ScalarMarkers
    BY DEF ScalarMarkers
  <2> QED BY <1>1, <2>1 DEF UInv, MarkersInv, TermsOK
<1>5. JoinsInv'
    BY <1>1 DEF UInv, JoinsInv
<1>6. DInv'
    BY <1>1 DEF UInv, DInv
<1> QED BY <1>1, <1>2, <1>3, <1>4, <1>5, <1>6 DEF UInv

LEMMA StopsInv ==
    ASSUME UInv, NEW why, Stops(why)
    PROVE  UInv' /\ Kids' = Kids /\ AllTops' = AllTops
BY NothingChanges DEF Stops

LEMMA FindScalarMarkersInv ==
    ASSUME UInv, FindScalarMarkers
    PROVE  UInv' /\ Kids' = Kids /\ AllTops' = AllTops
<1>1. PICK markers : markers = ScalarMarkers
    OBVIOUS
<1>2. /\ pc = "unnest" /\ pc' = "introduce"
      /\ UNCHANGED <<node, ch, pred, term, root, fresh, columns, ctes, counter, status, dep_join>>
      /\ mi' = Len(markers)
      /\ markers_joins' = [i \in DOMAIN markers |->
             [marker |-> markers[i], join |-> find_join_by_marker(node, ch, root, term[markers[i]].id)]]
    BY <1>1 DEF FindScalarMarkers, At, ScalarMarkers
<1>3. Kids = ch /\ Kids' = Kids /\ AllTops' = AllTops /\ ~Shared /\ ~Shared'
    BY <1>2 DEF Kids, Shared, AllTops
<1>4. /\ TermsOK
      /\ \A i \in DOMAIN markers : \A j \in Forest(ch, AllTops) :
              node[j].node_case = "JOIN" /\ node[j].marker = term[markers[i]].id =>
                  HoldsSubquery(node, ch, AllTops, j)
      /\ \A i, k \in DOMAIN markers : term[markers[i]].id = term[markers[k]].id => i = k
    BY <1>1, <1>2 DEF UInv, MarkersInv
<1>5. PICK tops, F : /\ tops = AllTops /\ F = Forest(ch, tops)
                     /\ Hangs(ch, tops) /\ ch \in [Node -> Seq(Node)]
                     /\ tops \subseteq F /\ F \in SUBSET Node
                     /\ \A n \in Node : Children(ch, n) \subseteq F
    BY <1>3, Grown
<1>6. root \in F /\ root \in Node /\ Closed(ch, F)
  <2>1. root \in tops
    BY <1>5 DEF AllTops, Tops
  <2> QED BY <2>1, <1>5 DEF Closed
<1>7. Grounded(Node, Down(ch))
    BY <1>5, HangsGrounded
<1>8. Preorder(ch, root) \in Seq(F)
    BY <1>5, <1>6, <1>7, PreorderIn
<1>9. Preorder(ch, root) \in Seq(Node)
  <2>1. Closed(ch, Node)
    BY <1>5 DEF Closed, Children
  <2> QED BY <1>5, <1>6, <1>7, <2>1, PreorderIn
<1>10. Len(markers) \in Nat /\ DOMAIN markers = 1 .. Len(markers)
  <2>1. PICK W : W = {t \in DOMAIN term : term[t].op = "marker"}
    OBVIOUS
  <2>2. markers \in Seq(W)
    BY <1>1, <1>4, <1>9, <2>1, MarkersFound DEF TermsOK, find_subquery_markers, ScalarMarkers
  <2> QED BY <2>2, LenProperties
<1>11. ASSUME NEW i \in 1 .. Len(markers), markers_joins'[i].join # 0
       PROVE  LET j == markers_joins'[i].join
              IN  HoldsSubquery(node, ch, tops, j) /\ node[j].marker = term[markers[i]].id
  <2>1. PICK id : id = term[markers[i]].id
    OBVIOUS
  <2>2. markers_joins'[i].join = find_join_by_marker(node, ch, root, id)
    BY <1>2, <1>10, <2>1
  <2>3. PICK A : A = {n \in Node : node[n].node_case = "JOIN" /\ node[n].marker = id}
    OBVIOUS
  <2>4. markers_joins'[i].join = FirstNode(Preorder(ch, root), A)
    BY <2>2, <2>3 DEF find_join_by_marker
  <2>5. markers_joins'[i].join \in F \cap A
    BY <1>8, <1>11, <2>4, FirstNodeIn
  <2>6. i \in DOMAIN markers
    BY <1>10
  <2>7. PICK j \in F : j = markers_joins'[i].join /\ node[j].node_case = "JOIN" /\ node[j].marker = id
    BY <2>3, <2>5
  <2>8. HoldsSubquery(node, ch, tops, j)
    BY <1>4, <1>5, <2>1, <2>6, <2>7
  <2> QED BY <2>1, <2>7, <2>8
<1>12. JoinsInv'
  <2>1. ASSUME NEW i \in 1 .. Len(markers), NEW k \in 1 .. Len(markers), i # k
        PROVE  markers_joins'[i].join = 0 \/ markers_joins'[i].join # markers_joins'[k].join
    BY <1>4, <1>10, <1>11, <2>1
  <2>2. ToDo' = 1 .. mi'
    BY <1>3 DEF ToDo
  <2>3. \A i \in 1 .. Len(markers) : \/ markers_joins'[i].join = 0
                                     \/ HoldsSubquery(node', Kids', AllTops', markers_joins'[i].join)
    BY <1>2, <1>3, <1>5, <1>11
  <2> QED BY <1>2, <1>10, <2>1, <2>2, <2>3 DEF JoinsInv
<1>13. TreeTypes' /\ CteNamesFree' /\ Unnesting'
    BY <1>2, <1>3 DEF UInv, TreeTypes, CteNamesFree, Unnesting
<1>14. TreesKept'
    BY <1>2, <1>3 DEF UInv, TreesKept, Unnesting
<1>15. MarkersInv' /\ DInv'
    BY <1>2, <1>3 DEF MarkersInv, DInv
<1> QED BY <1>3, <1>12, <1>13, <1>14, <1>15 DEF UInv

LEMMA UnnestedInv ==
    ASSUME UInv, Unnested
    PROVE  UInv' /\ Kids' = Kids /\ AllTops' = AllTops
<1>1. /\ pc = "introduce" /\ pc' = "again"
      /\ UNCHANGED <<node, ch, pred, term, root, fresh, ctes, counter, markers_joins, mi, dep_join>>
    BY DEF Unnested, At
<1>2. Kids = ch /\ Kids' = Kids /\ AllTops' = AllTops /\ ~Shared /\ ~Shared'
    BY <1>1 DEF Kids, Shared, AllTops
<1>3. TreeTypes' /\ CteNamesFree' /\ Unnesting'
    BY <1>1, <1>2 DEF UInv, TreeTypes, CteNamesFree, Unnesting
<1>4. TreesKept'
    BY <1>1, <1>2 DEF UInv, TreesKept, Unnesting
<1>5. MarkersInv' /\ DInv' /\ JoinsInv'
    BY <1>1, <1>2 DEF MarkersInv, DInv, JoinsInv
<1> QED BY <1>2, <1>3, <1>4, <1>5 DEF UInv

(* A join keeps its subquery as long as its label and its right child stay *)
LEMMA HoldsKept ==
    ASSUME NEW labels, NEW children, NEW tops, NEW j, HoldsSubquery(labels, children, tops, j),
           NEW labels2, NEW new, NEW tops2,
           j \in Forest(new, tops2), new[j][2] = children[j][2], labels2[j] = labels[j],
           labels2[children[j][2]].node_case = "PROJECTION"
    PROVE  HoldsSubquery(labels2, new, tops2, j)
BY DEF HoldsSubquery, HasSubquery

(* What one push changes: the step is a swap *)
LEMMA SwapWithSwaps ==
    ASSUME UInv, pc = "push_down", pc' = "push_down", dep_join' = dep_join,
           NEW k, k \in DOMAIN Kids[below_join], SwapWith(k)
    PROVE  \E p, i : /\ Dependents(Kids, dep_join, d_projection, below_join, p, i, original_join)
                     /\ Swaps(Kids, dep_join, p, i, d_projection, below_join, k, Kids[below_join][k], Kids')
                     /\ ch' \in [Node -> Seq(Node)] /\ ch'[d_projection] = ch[d_projection]
                     /\ ch'[original_join] = ch[original_join] /\ d_projection' = d_projection
<1>1. Shared /\ Shared'
    BY DEF Shared
<1>2. PICK own, tops : own = Kids /\ Hangs(own, tops) /\ own \in [Node -> Seq(Node)]
    BY Grown
<1>3. PICK dep, d, x, oj, p, i :
          /\ dep = dep_join /\ d = d_projection /\ x = below_join /\ oj = original_join
          /\ Dependents(own, dep, d, x, p, i, oj)
          /\ get_node_parent(ch, dep)[1] = p /\ get_node_parent(ch, dep)[2] = i
    BY <1>1, <1>2, SharedFacts
<1>4. /\ dep \in Node /\ d \in Node /\ x \in Node /\ oj \in Node /\ p \in Node
      /\ own[dep] = <<d, x>> /\ own[d] = <<>> /\ i \in DOMAIN own[p] /\ own[p][i] = dep
      /\ p # x /\ p # dep /\ p # d /\ x # dep /\ x # d /\ d # dep
      /\ oj # p /\ oj # dep /\ oj # x /\ oj # d
      /\ \A n \in Node : n # d => ch[n] = own[n]
    BY <1>3 DEF Dependents
<1>5. PICK y : y = own[x][k] /\ y = ch[x][k]
    BY <1>4
<1>6. ch \in [Node -> Seq(Node)] /\ DOMAIN ch = Node /\ DOMAIN own = Node
    BY <1>2 DEF UInv, TreeTypes
<1>7. ch' = [ch EXCEPT ![p][i] = x, ![x][k] = dep, ![dep][2] = y]
    BY <1>3, <1>5 DEF SwapWith
<1>8. /\ DOMAIN ch' = Node
      /\ ch'[p] = [own[p] EXCEPT ![i] = x] /\ ch'[x] = [own[x] EXCEPT ![k] = dep]
      /\ ch'[dep] = [own[dep] EXCEPT ![2] = y]
      /\ \A n \in Node : n # p /\ n # x /\ n # dep => ch'[n] = ch[n]
    BY <1>4, <1>6, <1>7
<1>9. [own[dep] EXCEPT ![2] = y] = <<d, y>>
    BY <1>4
<1>10. d_projection' = d
  <2>1. ch'[dep][1] = d
    BY <1>8, <1>9
  <2> QED BY <1>3, <2>1 DEF d_projection
<1>11. PICK new : new = Kids' /\ new = [ch' EXCEPT ![d] = <<>>]
    BY <1>1, <1>10 DEF Kids, Apart
<1>12. /\ DOMAIN new = Node
       /\ new[p] = [own[p] EXCEPT ![i] = x] /\ new[x] = [own[x] EXCEPT ![k] = dep]
       /\ new[dep] = <<d, y>> /\ new[d] = <<>>
       /\ \A n \in Node : n # p /\ n # x /\ n # dep /\ n # d => new[n] = ch[n]
    BY <1>4, <1>8, <1>9, <1>11
<1>13. new = [own EXCEPT ![p][i] = x, ![x][k] = dep, ![dep] = <<d, y>>]
  <2>1. PICK res : res = [own EXCEPT ![p][i] = x, ![x][k] = dep, ![dep] = <<d, y>>]
    OBVIOUS
  <2>2. /\ DOMAIN res = Node /\ res = [n \in Node |-> res[n]]
        /\ res[p] = [own[p] EXCEPT ![i] = x] /\ res[x] = [own[x] EXCEPT ![k] = dep]
        /\ res[dep] = <<d, y>>
        /\ \A n \in Node : n # p /\ n # x /\ n # dep => res[n] = own[n]
    BY <2>1, <1>4, <1>6
  <2>3. new = [n \in Node |-> new[n]]
    BY <1>11, <1>8
  <2>4. \A n \in Node : new[n] = res[n]
    BY <2>2, <1>4, <1>12
  <2> QED BY <2>1, <2>2, <2>3, <2>4
<1>14. Swaps(own, dep, p, i, d, x, k, y, new)
    BY <1>2, <1>3, <1>4, <1>5, <1>13 DEF Swaps
<1>15. new \in [Node -> Seq(Node)]
    BY <1>2, <1>14, SwapForest DEF Hangs
<1>16. ch'[d] = ch[d] /\ ch'[oj] = ch[oj]
    BY <1>4, <1>8
<1>17. ch' \in [Node -> Seq(Node)]
  <2>1. ASSUME NEW n \in Node
        PROVE  ch'[n] \in Seq(Node)
    <3>1. CASE n = d
        BY <3>1, <1>6, <1>16
    <3>2. CASE n # d
      <4>1. ch'[n] = new[n]
        BY <3>2, <1>6, <1>8, <1>11
      <4> QED BY <4>1, <1>15
    <3> QED BY <3>1, <3>2
  <2>2. ch' = [n \in Node |-> ch'[n]]
    BY <1>6, <1>7
  <2> QED BY <2>1, <2>2
<1> QED BY <1>2, <1>3, <1>5, <1>10, <1>11, <1>14, <1>16, <1>17

(* A swap passes no join of a subquery on the right, and leaves all labels but the one passed *)
LEMMA SwapInv ==
    ASSUME UInv, pc = "push_down", pc' = "push_down",
           NEW k, k \in DOMAIN Kids[below_join], SwapWith(k),
           k = 2 => node[below_join].type \in {"CROSS_PRODUCT", "INNER"},
           DOMAIN node' = Node, \A n \in Node : n # below_join => node'[n] = node[n],
           node'[below_join].node_case = node[below_join].node_case,
           node[below_join].node_case = "JOIN" => node'[below_join] = node[below_join],
           UNCHANGED <<root, fresh, ctes, counter, markers_joins, mi, dep_join>>
    PROVE  /\ UInv' /\ Forest(Kids', AllTops') = Forest(Kids, AllTops) /\ AllTops' = AllTops
           /\ Below(Kids', dep_join') \subseteq Below(Kids, dep_join)
           /\ below_join \notin Below(Kids', dep_join')
<1>1. Shared /\ Shared' /\ AllTops' = AllTops /\ original_join' = original_join
    BY DEF Shared, AllTops, original_join
<1>2. PICK own, tops, F :
              /\ own = Kids /\ tops = AllTops /\ F = Forest(own, tops)
              /\ Hangs(own, tops) /\ own \in [Node -> Seq(Node)] /\ tops \in SUBSET Node
              /\ tops \subseteq F /\ F \in SUBSET Node
              /\ \A n \in Node : Children(own, n) \subseteq F /\ Children(own, n) \cap tops = {}
              /\ \A n \in tops : node[n].node_case = "PROJECTION"
              /\ \A n \in F : n < fresh /\ (IsWhole(node, own, n) \/ (Shared /\ n = d_projection))
    BY Grown
<1>3. PICK dep, d, x, oj, p, i, y, new :
          /\ dep = dep_join /\ d = d_projection /\ x = below_join /\ oj = original_join
          /\ y = own[x][k] /\ new = Kids'
          /\ Dependents(own, dep, d, x, p, i, oj) /\ Swaps(own, dep, p, i, d, x, k, y, new)
          /\ ch' \in [Node -> Seq(Node)] /\ ch'[d] = ch[d] /\ ch'[oj] = ch[oj] /\ d_projection' = d
    BY <1>2, SwapWithSwaps
<1>4. /\ dep \in Node /\ d \in Node /\ x \in Node /\ oj \in Node /\ p \in Node
      /\ own[dep] = <<d, x>> /\ i \in DOMAIN own[p] /\ own[p][i] = dep
      /\ x # dep /\ x # d /\ d # dep /\ oj # p /\ oj # dep /\ oj # x /\ oj # d
      /\ DOMAIN own[oj] = {1, 2}
    BY <1>3 DEF Dependents
<1>5. /\ Hangs(new, tops) /\ Forest(new, tops) = F /\ AfterSwap(own, dep, p, i, d, x, k, y, new)
    BY <1>2, <1>3, SwapForest
<1>6. /\ Below(new, dep) \subseteq Below(own, dep) /\ x \notin Below(new, dep)
    BY <1>2, <1>3, SwapBelow
<1>7. /\ new \in [Node -> Seq(Node)] /\ new[dep] = <<d, y>>
      /\ \A n \in Node : n # dep =>
          /\ DOMAIN new[n] = DOMAIN own[n] /\ Len(new[n]) = Len(own[n])
          /\ \A l \in DOMAIN own[n] : new[n][l] = IF n = p /\ l = i THEN x
                                                   ELSE IF n = x /\ l = k THEN dep ELSE own[n][l]
    BY <1>5 DEF AfterSwap
<1>8. /\ mi > 0 /\ HasSubquery(node, own, tops, oj) /\ dep \in F
      /\ node[dep].node_case = "JOIN" /\ node[dep].marker = 0 /\ node[d].node_case = "PROJECTION"
      /\ oj \notin Below(own, dep) /\ dep \notin Children(own, oj)
    BY <1>1, <1>2, <1>3 DEF UInv, DInv
<1>9. /\ mi \in Nat
      /\ \A m \in 1 .. mi - 1 : \/ markers_joins[m].join = 0
                                 \/ HoldsSubquery(node, own, tops, markers_joins[m].join)
      /\ \A m, l \in 1 .. mi : m # l =>
              markers_joins[m].join = 0 \/ markers_joins[m].join # markers_joins[l].join
    BY <1>1, <1>2 DEF UInv, JoinsInv, ToDo
<1>10. x \notin tops /\ x \in F
  <2>1. x \in Children(own, dep)
    BY <1>4 DEF Children
  <2> QED BY <2>1, <1>2, <1>4
<1>11. /\ DOMAIN node' = Node /\ \A n \in Node : node'[n].node_case = node[n].node_case
       /\ \A n \in Node : n # x \/ node[n].node_case = "JOIN" => node'[n] = node[n]
    BY <1>3
<1>12. TreeTypes'
  <2>1. /\ root \in Node /\ ctes \in Seq(Node) /\ fresh \in Nat \ {0}
    BY DEF UInv, TreeTypes
  <2>2. \A n \in tops : node'[n].node_case = "PROJECTION"
    BY <1>2, <1>11
  <2> QED BY <2>1, <2>2, <1>1, <1>2, <1>3, <1>5, <1>11 DEF TreeTypes
<1>13. ASSUME NEW n \in F
       PROVE  IsWhole(node', new, n) \/ n = d
  <2>1. CASE n = dep
    <3>1. Len(new[dep]) = 2
        BY <1>7
    <3>2. node'[dep].node_case = "JOIN"
        BY <1>4, <1>8, <1>11
    <3> QED BY <2>1, <3>1, <3>2 DEF IsWhole, is_full, n_children
  <2>2. CASE n # dep /\ n # d
    <3>1. IsWhole(node, own, n) /\ n \in Node
        BY <2>2, <1>2, <1>3
    <3>2. Len(new[n]) = Len(own[n]) /\ node'[n].node_case = node[n].node_case
        BY <2>2, <3>1, <1>7, <1>11
    <3> QED BY <3>1, <3>2 DEF IsWhole, is_full
  <2> QED BY <2>1, <2>2
<1>14. \A m \in DOMAIN ctes : node'[ctes[m]] = node[ctes[m]]
  <2>1. \A m \in DOMAIN ctes : ctes[m] \in tops
    BY <1>2 DEF AllTops, Tops
  <2> QED BY <2>1, <1>2, <1>10, <1>11
<1>15. TreesKept'
  <2>1. IsForest(new, tops)
    BY <1>2, <1>5, <1>7, HangsForest
  <2>2. ch'[d] = <<ch'[oj][1]>>
    <3>1. ch[d_projection] = <<ch[original_join][1]>>
        BY <1>1 DEF UInv, TreesKept
    <3> QED BY <3>1, <1>3
  <2>3. CteNamesDiffer(node', ctes)
    BY <1>14 DEF UInv, TreesKept, CteNamesDiffer
  <2> QED BY <2>1, <2>2, <2>3, <1>1, <1>2, <1>3, <1>5, <1>13 DEF TreesKept
<1>16. CteNamesFree'
    BY <1>14 DEF UInv, CteNamesFree
<1>17. ASSUME NEW j, HasSubquery(node, own, tops, j), j # dep, k = 2 => j # x
       PROVE  /\ j \in Node /\ j \in F /\ new[j][2] = own[j][2] /\ node'[j] = node[j]
              /\ node'[own[j][2]].node_case = "PROJECTION"
  <2>1. /\ j \in F /\ node[j].node_case = "JOIN" /\ node[own[j][2]].node_case = "PROJECTION"
        /\ j \in Node /\ DOMAIN own[j] = {1, 2} /\ own[j][2] \in Node
    <3>1. /\ j \in Node /\ DOMAIN own[j] = {1, 2} /\ own[j][2] \in Node
        BY <1>2, <1>17, SubqueryBelow
    <3> QED BY <3>1, <1>2, <1>17 DEF HasSubquery
  <2>2. own[j][2] # dep
    BY <2>1, <1>8
  <2>3. ~(j = p /\ i = 2)
    BY <2>2, <1>4
  <2>4. 2 \in DOMAIN own[j] /\ ~(j = x /\ k = 2)
    BY <2>1, <1>17
  <2>5. new[j][2] = own[j][2]
    BY <2>1, <2>3, <2>4, <1>7, <1>17
  <2> QED BY <2>1, <2>5, <1>11
<1>18. JoinsInv'
  <2>1. ASSUME NEW j, HoldsSubquery(node, own, tops, j)
        PROVE  HoldsSubquery(node', new, tops, j)
    <3>1. HasSubquery(node, own, tops, j) /\ j # dep /\ (k = 2 => j # x)
        BY <2>1, <1>3, <1>8 DEF HoldsSubquery
    <3>2. /\ j \in F /\ new[j][2] = own[j][2] /\ node'[j] = node[j]
          /\ node'[own[j][2]].node_case = "PROJECTION"
        BY <3>1, <1>17
    <3> QED BY <2>1, <3>2, <1>5, HoldsKept
  <2>2. \A m \in 1 .. mi - 1 : \/ markers_joins[m].join = 0
                                \/ HoldsSubquery(node', new, tops, markers_joins[m].join)
    BY <2>1, <1>9
  <2>3. ToDo' = 1 .. mi - 1
    BY <1>1 DEF ToDo
  <2> QED BY <2>2, <2>3, <1>1, <1>2, <1>3, <1>9 DEF JoinsInv
<1>19. DInv'
  <2>1. /\ new[oj][2] = own[oj][2] /\ oj \in F /\ node'[oj] = node[oj]
        /\ node'[own[oj][2]].node_case = "PROJECTION"
    BY <1>4, <1>8, <1>17
  <2>2. HasSubquery(node', new, tops, oj)
    BY <2>1, <1>5, <1>8 DEF HasSubquery
  <2>3. /\ node'[dep].node_case = "JOIN" /\ node'[dep].marker = 0 /\ node'[d].node_case = "PROJECTION"
    BY <1>4, <1>8, <1>11
  <2>4. oj \notin Below(new, dep)
    BY <1>6, <1>8
  <2>5. dep \notin Children(new, oj)
    <3>1. DOMAIN new[oj] = DOMAIN own[oj] /\ \A l \in DOMAIN own[oj] : new[oj][l] = own[oj][l]
        BY <1>4, <1>7
    <3> QED BY <3>1, <1>8 DEF Children
  <2> QED BY <2>2, <2>3, <2>4, <2>5, <1>1, <1>2, <1>3, <1>5, <1>8 DEF DInv
<1>20. Unnesting' /\ MarkersInv'
    BY DEF Unnesting, MarkersInv
<1> QED BY <1>1, <1>2, <1>3, <1>5, <1>6, <1>12, <1>15, <1>16, <1>18, <1>19, <1>20 DEF UInv

(* The node below the dependent join has all its children *)
LEMMA BelowJoinWhole ==
    ASSUME UInv, Shared
    PROVE  /\ IsWhole(node, Kids, below_join) /\ below_join \in Node /\ Kids[below_join] \in Seq(Node)
           /\ DOMAIN node = Node
<1>1. PICK own, F : /\ own = Kids /\ F \in SUBSET Node /\ own \in [Node -> Seq(Node)]
                    /\ \A n \in Node : Children(own, n) \subseteq F
                    /\ \A n \in F : IsWhole(node, own, n) \/ (Shared /\ n = d_projection)
    BY Grown
<1>2. PICK dep, d, x, p, i, oj : /\ x = below_join /\ d = d_projection
                                 /\ Dependents(own, dep, d, x, p, i, oj)
    BY <1>1, SharedFacts
<1>3. x \in Node /\ x # d /\ dep \in Node /\ x \in Children(own, dep)
  <2>1. own[dep] = <<d, x>> /\ x \in Node /\ x # d /\ dep \in Node
    BY <1>2 DEF Dependents
  <2> QED BY <2>1 DEF Children
<1>4. IsWhole(node, own, x)
    BY <1>1, <1>2, <1>3
<1>5. DOMAIN node = Node
    BY DEF UInv, TreeTypes
<1> QED BY <1>1, <1>2, <1>3, <1>4, <1>5

LEMMA PushThroughNodeInv ==
    ASSUME UInv, PushThroughNode
    PROVE  /\ UInv' /\ Forest(Kids', AllTops') = Forest(Kids, AllTops) /\ GetsLower
<1>1. /\ pc = "push_down" /\ pc' = "push_down" /\ SwapWith(1)
      /\ node[below_join].node_case \in {"PROJECTION", "SELECTION", "GROUP_BY"}
      /\ UNCHANGED <<root, fresh, ctes, counter, markers_joins, mi, dep_join>>
    BY DEF PushThroughNode, At, Passable
<1>2. Shared
    BY <1>1 DEF Shared
<1>3. PICK x : x = below_join
    OBVIOUS
<1>4. IsWhole(node, Kids, x) /\ x \in Node /\ Kids[x] \in Seq(Node) /\ DOMAIN node = Node
    BY <1>2, <1>3, BelowJoinWhole
<1>5. 1 \in DOMAIN Kids[x]
  <2>1. Len(Kids[x]) = 1
    BY <1>1, <1>3, <1>4 DEF IsWhole, is_full, n_children
  <2> QED BY <2>1, <1>4, LenProperties
<1>6. /\ DOMAIN node' = Node /\ \A n \in Node : n # x => node'[n] = node[n]
      /\ node'[x].node_case = node[x].node_case
  <2>1. CASE node' = node
    BY <2>1, <1>4
  <2>2. CASE node' # node
    <3>1. PICK more : node' = [node EXCEPT ![x].implicit = FALSE, ![x].args = @ \o more]
        BY <1>3, <2>2 DEF PushThroughNode
    <3> QED BY <3>1, <1>4
  <2> QED BY <2>1, <2>2
<1>7. /\ UInv' /\ Forest(Kids', AllTops') = Forest(Kids, AllTops)
      /\ Below(Kids', dep_join') \subseteq Below(Kids, dep_join)
      /\ below_join \notin Below(Kids', dep_join')
    BY <1>1, <1>3, <1>5, <1>6, SwapInv
<1> QED BY <1>7 DEF GetsLower

LEMMA PushThroughJoinInv ==
    ASSUME UInv, PushThroughJoin
    PROVE  /\ UInv' /\ Forest(Kids', AllTops') = Forest(Kids, AllTops) /\ GetsLower
<1>1. PICK k : k = Side
    OBVIOUS
<1>2. /\ pc = "push_down" /\ pc' = "push_down" /\ SwapWith(k) /\ k # 0
      /\ node[below_join].node_case = "JOIN" /\ node' = node
      /\ UNCHANGED <<root, fresh, ctes, counter, markers_joins, mi, dep_join>>
    BY <1>1 DEF PushThroughJoin, At
<1>3. Shared
    BY <1>2 DEF Shared
<1>4. k \in {1, 2} /\ (k = 2 => node[below_join].type \in {"CROSS_PRODUCT", "INNER"})
    BY <1>1, <1>2 DEF Side
<1>5. PICK x : x = below_join
    OBVIOUS
<1>6. IsWhole(node, Kids, x) /\ x \in Node /\ Kids[x] \in Seq(Node) /\ DOMAIN node = Node
    BY <1>3, <1>5, BelowJoinWhole
<1>7. k \in DOMAIN Kids[x]
  <2>1. Len(Kids[x]) = 2
    BY <1>2, <1>5, <1>6 DEF IsWhole, is_full, n_children
  <2> QED BY <2>1, <1>4, <1>6, LenProperties
<1>8. /\ UInv' /\ Forest(Kids', AllTops') = Forest(Kids, AllTops)
      /\ Below(Kids', dep_join') \subseteq Below(Kids, dep_join)
      /\ below_join \notin Below(Kids', dep_join')
    BY <1>2, <1>4, <1>5, <1>6, <1>7, SwapInv
<1> QED BY <1>8 DEF GetsLower

LEMMA PushNowhereInv ==
    ASSUME UInv, UNCHANGED unnesting
    PROVE  UInv' /\ Kids' = Kids /\ AllTops' = AllTops
BY NothingChanges DEF unnesting

LEMMA PushedDownInv ==
    ASSUME UInv, PushedDown
    PROVE  UInv' /\ Kids' = Kids /\ AllTops' = AllTops
<1>1. CASE \E why : Stops(why)
    BY <1>1, StopsInv
<1>2. CASE ~ \E why : Stops(why)
  <2>1. /\ pc = "push_down" /\ pc' \in {"decouple", "outer"}
        /\ node' = [node EXCEPT ![dep_join].type = "CROSS_PRODUCT"]
        /\ UNCHANGED <<ch, root, fresh, ctes, counter, status, markers_joins, mi, dep_join>>
    BY <1>2 DEF PushedDown, At
  <2>2. /\ Shared /\ Shared' /\ AllTops' = AllTops /\ original_join' = original_join
        /\ d_projection' = d_projection /\ Kids' = Kids
    BY <2>1 DEF Shared, AllTops, original_join, d_projection, Kids, Apart
  <2>3. PICK own, tops, F :
              /\ own = Kids /\ tops = AllTops /\ F = Forest(own, tops)
              /\ own \in [Node -> Seq(Node)] /\ tops \subseteq F /\ F \in SUBSET Node
              /\ \A n \in tops : node[n].node_case = "PROJECTION"
              /\ \A n \in F : n < fresh /\ (IsWhole(node, own, n) \/ (Shared /\ n = d_projection))
    BY Grown
  <2>4. PICK dep, d, oj : dep = dep_join /\ d = d_projection /\ oj = original_join /\ dep \in Node /\ oj # dep
    BY <2>2, SharedFacts DEF Dependents
  <2>5. /\ mi > 0 /\ HasSubquery(node, own, tops, oj) /\ dep \in F
        /\ node[dep].node_case = "JOIN" /\ node[dep].marker = 0 /\ node[d].node_case = "PROJECTION"
        /\ oj \notin Below(own, dep) /\ dep \notin Children(own, oj)
    BY <2>2, <2>3, <2>4 DEF UInv, DInv
  <2>6. DOMAIN node = Node
    BY DEF UInv, TreeTypes
  <2>7. /\ DOMAIN node' = Node /\ \A n \in Node : n # dep => node'[n] = node[n]
        /\ node'[dep].node_case = "JOIN" /\ node'[dep].marker = 0
    BY <2>1, <2>4, <2>5, <2>6
  <2>8. \A n \in Node : node'[n].node_case = node[n].node_case
    BY <2>5, <2>7
  <2>9. TreeTypes'
    <3>1. /\ root \in Node /\ ctes \in Seq(Node) /\ fresh \in Nat \ {0} /\ ch \in [Node -> Seq(Node)]
        BY DEF UInv, TreeTypes
    <3>2. \A n \in tops : node'[n].node_case = "PROJECTION"
        BY <2>3, <2>8
    <3> QED BY <3>1, <3>2, <2>1, <2>2, <2>3, <2>7 DEF TreeTypes
  <2>10. \A m \in DOMAIN ctes : node'[ctes[m]] = node[ctes[m]]
    <3>1. \A m \in DOMAIN ctes : ctes[m] \in tops
        BY <2>3 DEF AllTops, Tops
    <3> QED BY <3>1, <2>3, <2>5, <2>7
  <2>11. TreesKept'
    <3>1. \A n \in F : IsWhole(node', own, n) \/ n = d
        BY <2>3, <2>4, <2>8 DEF IsWhole, is_full
    <3>2. CteNamesDiffer(node', ctes)
        BY <2>10 DEF UInv, TreesKept, CteNamesDiffer
    <3>3. IsForest(own, tops) /\ ch[d] = <<ch[oj][1]>>
        BY <2>2, <2>3, <2>4 DEF UInv, TreesKept
    <3> QED BY <3>1, <3>2, <3>3, <2>1, <2>2, <2>3, <2>4 DEF TreesKept
  <2>12. CteNamesFree'
    BY <2>1, <2>10 DEF UInv, CteNamesFree
  <2>13. ASSUME NEW j, HasSubquery(node, own, tops, j), j # dep
         PROVE  /\ j \in F /\ j \in Node /\ node'[j] = node[j] /\ node'[own[j][2]].node_case = "PROJECTION"
    <3>1. j \in Node /\ own[j][2] \in Node
        BY <2>3, <2>13, SubqueryBelow
    <3> QED BY <3>1, <2>3, <2>7, <2>8, <2>13 DEF HasSubquery
  <2>14. JoinsInv'
    <3>1. /\ mi \in Nat
          /\ \A m \in 1 .. mi - 1 : \/ markers_joins[m].join = 0
                                     \/ HoldsSubquery(node, own, tops, markers_joins[m].join)
          /\ \A m, l \in 1 .. mi : m # l =>
              markers_joins[m].join = 0 \/ markers_joins[m].join # markers_joins[l].join
        BY <2>1, <2>2, <2>3 DEF UInv, JoinsInv, ToDo
    <3>2. ASSUME NEW j, HoldsSubquery(node, own, tops, j)
          PROVE  HoldsSubquery(node', own, tops, j)
      <4>1. HasSubquery(node, own, tops, j) /\ j # dep
        BY <3>2, <2>5 DEF HoldsSubquery
      <4>2. j \in F /\ node'[j] = node[j] /\ node'[own[j][2]].node_case = "PROJECTION"
        BY <4>1, <2>13
      <4> QED BY <3>2, <4>2, <2>3, HoldsKept
    <3>3. ToDo' = 1 .. mi - 1
        BY <2>1, <2>2 DEF ToDo
    <3> QED BY <3>1, <3>2, <3>3, <2>1, <2>2, <2>3 DEF JoinsInv
  <2>15. DInv'
    <3>1. HasSubquery(node', own, tops, oj)
      <4>1. node'[oj] = node[oj] /\ node'[own[oj][2]].node_case = "PROJECTION"
        BY <2>4, <2>5, <2>13
      <4> QED BY <4>1, <2>5 DEF HasSubquery
    <3>2. node'[d].node_case = "PROJECTION"
      <4>1. d # dep
        BY <2>5
      <4>2. d \in Node
        BY <2>2, <2>4, SharedFacts DEF Dependents
      <4> QED BY <4>1, <4>2, <2>5, <2>7
    <3> QED BY <3>1, <3>2, <2>1, <2>2, <2>3, <2>4, <2>5, <2>7 DEF DInv
  <2>16. Unnesting' /\ MarkersInv'
    BY <2>1 DEF Unnesting, MarkersInv
  <2> QED BY <2>2, <2>9, <2>11, <2>12, <2>14, <2>15, <2>16 DEF UInv
<1> QED BY <1>1, <1>2

(* The step that introduces D inserts the dependent join, but for the children D shares *)
LEMMA IntroduceDInserts ==
    ASSUME UInv, IntroduceD, ~ \E why : Stops(why)
    PROVE  /\ Kids = ch /\ ch' \in [Node -> Seq(Node)]
           /\ HoldsSubquery(node, ch, AllTops, original_join) /\ original_join # right_projection
           /\ right_projection \in Node /\ right_projection \notin AllTops
           /\ node[right_projection].node_case = "PROJECTION"
           /\ fresh \in Node /\ fresh + 1 \in Node
           /\ Inserts(ch, AllTops, right_projection, 1, ch[right_projection][1], fresh, fresh + 1, Kids')
           /\ d_projection' = fresh + 1 /\ ch'[fresh + 1] = <<ch[original_join][1]>>
           /\ ch'[original_join] = ch[original_join]
<1>1. /\ pc = "introduce" /\ pc' = "push_down" /\ mi > 0 /\ fresh + 1 \in Node /\ original_join # 0
      /\ ch' = [ch EXCEPT ![right_projection] = <<fresh>>,
                          ![fresh] = <<fresh + 1, ch[right_projection][1]>>,
                          ![fresh + 1] = <<ch[original_join][1]>>]
      /\ dep_join' = fresh
    BY DEF IntroduceD, At
<1>2. ~Shared /\ Shared' /\ Kids = ch
    BY <1>1 DEF Shared, Kids
<1>3. PICK tops, F :
              /\ tops = AllTops /\ F = Forest(ch, tops)
              /\ Hangs(ch, tops) /\ ch \in [Node -> Seq(Node)] /\ F \in SUBSET Node
              /\ \A n \in Node : n \notin F => ch[n] = <<>>
              /\ \A n \in F : n < fresh /\ IsWhole(node, ch, n)
    BY <1>2, Grown
<1>4. PICK oj, rp, body, dep, d :
          /\ oj = original_join /\ rp = right_projection /\ body = ch[rp][1] /\ dep = fresh /\ d = fresh + 1
    OBVIOUS
<1>5. HoldsSubquery(node, ch, tops, oj)
  <2>1. mi \in ToDo
    BY <1>1, <1>2 DEF UInv, JoinsInv, ToDo
  <2> QED BY <2>1, <1>1, <1>2, <1>3, <1>4 DEF UInv, JoinsInv, original_join
<1>6. /\ oj \in Node /\ DOMAIN ch[oj] = {1, 2} /\ rp \in F /\ rp \in Node /\ rp \notin tops
      /\ rp = ch[oj][2]
  <2>1. HasSubquery(node, ch, tops, oj)
    BY <1>5 DEF HoldsSubquery
  <2>2. rp = ch[oj][2]
    BY <1>4 DEF right_projection
  <2> QED BY <2>1, <2>2, <1>2, <1>3, SubqueryBelow
<1>7. node[rp].node_case = "PROJECTION" /\ node[oj].node_case = "JOIN" /\ oj \in F /\ oj # rp
    BY <1>3, <1>5, <1>6 DEF HoldsSubquery, HasSubquery
<1>8. ch[rp] = <<body>> /\ DOMAIN ch[rp] = {1}
  <2>1. Len(ch[rp]) = 1
    BY <1>3, <1>6, <1>7 DEF IsWhole, is_full, n_children
  <2> QED BY <2>1, <1>3, <1>4, <1>6, OneChild
<1>9. dep \in Node /\ d \in Node /\ dep # d /\ dep \notin F /\ d \notin F
  <2>1. fresh \in Nat \ {0} /\ MaxNodes \in Nat
    BY MaxNodesAssumption DEF UInv, TreeTypes
  <2>2. dep \in Node /\ d \in Node /\ dep # d
    BY <2>1, <1>1, <1>4 DEF Node
  <2>3. \A n \in F : n < fresh /\ n \in Nat
    BY <1>3 DEF Node
  <2> QED BY <2>1, <2>2, <2>3, <1>4
<1>10. rp # dep /\ rp # d /\ oj # dep /\ oj # d /\ ch[d] = <<>>
    BY <1>3, <1>6, <1>7, <1>9
<1>11. ch' = [ch EXCEPT ![rp] = <<dep>>, ![dep] = <<d, body>>, ![d] = <<ch[oj][1]>>]
    BY <1>1, <1>4
<1>12. /\ DOMAIN ch' = Node /\ ch'[rp] = <<dep>> /\ ch'[dep] = <<d, body>> /\ ch'[d] = <<ch[oj][1]>>
       /\ \A n \in Node : n # rp /\ n # dep /\ n # d => ch'[n] = ch[n]
    BY <1>3, <1>6, <1>9, <1>10, <1>11
<1>13. d_projection' = d
  <2>1. ch'[dep] = <<d, body>> /\ <<d, body>>[1] = d
    BY <1>12
  <2>2. dep_join' = dep
    BY <1>1, <1>4
  <2> QED BY <2>1, <2>2 DEF d_projection
<1>14. PICK new : new = Kids' /\ new = [ch' EXCEPT ![d] = <<>>]
    BY <1>2, <1>13 DEF Kids, Apart
<1>15. new = [ch EXCEPT ![rp][1] = dep, ![dep] = <<d, body>>]
  <2>1. PICK res : res = [ch EXCEPT ![rp][1] = dep, ![dep] = <<d, body>>]
    OBVIOUS
  <2>2. [ch[rp] EXCEPT ![1] = dep] = <<dep>>
    BY <1>8
  <2>3. /\ res = [n \in Node |-> res[n]] /\ res[rp] = <<dep>> /\ res[dep] = <<d, body>>
        /\ \A n \in Node : n # rp /\ n # dep => res[n] = ch[n]
    BY <2>1, <2>2, <1>3, <1>6, <1>9, <1>10
  <2>4. new = [n \in Node |-> new[n]]
    BY <1>12, <1>14
  <2>5. \A n \in Node : new[n] = res[n]
    BY <2>3, <1>9, <1>10, <1>12, <1>14
  <2> QED BY <2>1, <2>3, <2>4, <2>5
<1>16. Inserts(ch, tops, rp, 1, body, dep, d, new)
  <2>1. {dep, d} \subseteq Node \ Forest(ch, tops)
    BY <1>3, <1>9
  <2>2. 1 \in DOMAIN ch[rp] /\ ch[rp][1] = body
    BY <1>4, <1>8
  <2> QED BY <2>1, <2>2, <1>6, <1>9, <1>15 DEF Inserts
<1>17. ch' \in [Node -> Seq(Node)]
  <2>1. ch[oj][1] \in Node /\ body \in Node
    <3>1. ch[oj] \in Seq(Node) /\ ch[rp] \in Seq(Node)
        BY <1>3, <1>6
    <3> QED BY <3>1, <1>4, <1>6, <1>8
  <2>2. <<dep>> \in Seq(Node) /\ <<d, body>> \in Seq(Node) /\ <<ch[oj][1]>> \in Seq(Node)
    BY <2>1, <1>9
  <2>3. \A n \in Node : ch'[n] \in Seq(Node)
    BY <2>2, <1>3, <1>12
  <2>4. ch' = [n \in Node |-> ch'[n]]
    BY <1>3, <1>11
  <2> QED BY <2>3, <2>4
<1>18. ch'[oj] = ch[oj]
    BY <1>6, <1>7, <1>10, <1>12
<1> QED BY <1>2, <1>3, <1>4, <1>5, <1>6, <1>7, <1>9, <1>12, <1>13, <1>14, <1>16, <1>17, <1>18

LEMMA IntroduceDInv ==
    ASSUME UInv, IntroduceD
    PROVE  UInv' /\ AllTops' = AllTops /\ Forest(Kids, AllTops) \subseteq Forest(Kids', AllTops')
<1>1. CASE \E why : Stops(why)
    BY <1>1, StopsInv
<1>2. CASE ~ \E why : Stops(why)
  <2>1. /\ pc = "introduce" /\ pc' = "push_down" /\ mi > 0
        /\ counter' = counter + 1 /\ fresh' = fresh + 2 /\ dep_join' = fresh
        /\ UNCHANGED <<root, ctes, markers_joins, mi>>
    BY <1>2 DEF IntroduceD, At
  <2>2. ~Shared /\ Shared' /\ AllTops' = AllTops /\ original_join' = original_join
    BY <2>1 DEF Shared, AllTops, original_join
  <2>3. PICK oj, rp, body, dep, d, tops, new :
           /\ oj = original_join /\ rp = right_projection /\ body = ch[rp][1]
           /\ dep = fresh /\ d = fresh + 1 /\ tops = AllTops /\ new = Kids'
           /\ Kids = ch /\ ch' \in [Node -> Seq(Node)]
           /\ HoldsSubquery(node, ch, tops, oj) /\ oj # rp
           /\ rp \in Node /\ rp \notin tops /\ node[rp].node_case = "PROJECTION"
           /\ dep \in Node /\ d \in Node
           /\ Inserts(ch, tops, rp, 1, body, dep, d, new)
           /\ d_projection' = d /\ ch'[d] = <<ch[oj][1]>> /\ ch'[oj] = ch[oj]
    BY <1>2, IntroduceDInserts
  <2>4. PICK F :
              /\ F = Forest(ch, tops)
              /\ Hangs(ch, tops) /\ ch \in [Node -> Seq(Node)] /\ tops \in SUBSET Node
              /\ tops \subseteq F /\ F \in SUBSET Node
              /\ \A n \in Node : Children(ch, n) \subseteq F
              /\ \A n \in tops : node[n].node_case = "PROJECTION"
              /\ \A n \in F : n < fresh /\ IsWhole(node, ch, n)
    BY <2>2, <2>3, Grown, SMTT(30)
  <2>5. /\ Hangs(new, tops) /\ Forest(new, tops) = F \cup {dep, d}
    BY <2>3, <2>4, InsertForest
  <2>6. /\ AfterInsert(ch, rp, 1, body, dep, d, new) /\ body \in Node
    BY <2>3, <2>4, InsertAfter
  <2>7. /\ new \in [Node -> Seq(Node)] /\ new[dep] = <<d, body>>
        /\ \A n \in Node : n # dep =>
          /\ DOMAIN new[n] = DOMAIN ch[n] /\ Len(new[n]) = Len(ch[n])
          /\ \A l \in DOMAIN ch[n] : new[n][l] = IF n = rp /\ l = 1 THEN dep ELSE ch[n][l]
    BY <2>6 DEF AfterInsert
  <2>8. dep \notin F /\ d \notin F /\ dep # d
    BY <2>3, <2>4 DEF Inserts
  <2>9. /\ HasSubquery(node, ch, tops, oj) /\ oj \in F /\ node[oj].node_case = "JOIN"
    BY <2>3, <2>4 DEF HoldsSubquery, HasSubquery
  <2>10. oj \in Node /\ DOMAIN ch[oj] = {1, 2} /\ rp \in Children(ch, oj) /\ rp = ch[oj][2]
    <3>1. rp = ch[oj][2]
        BY <2>3 DEF right_projection
    <3> QED BY <3>1, <2>3, <2>9, SubqueryBelow
  <2>11. DOMAIN node = Node /\ fresh \in Nat \ {0} /\ root \in Node /\ ctes \in Seq(Node)
    BY DEF UInv, TreeTypes
  <2>12. PICK more, targets, alias :
            node' = [node EXCEPT
                   ![oj] = AsProduct(@), ![rp] = AsTable(@, alias, more),
                   ![dep] = Join("DEPENDENT_INNER_LEFT", 0),
                   ![d] = [NewNode("PROJECTION") EXCEPT !.alias = D, !.args = targets]]
    <3>1. PICK keys :
            node' = [node EXCEPT
                   ![original_join] = AsProduct(@),
                   ![right_projection] = AsTable(@, T(counter), [i \in DOMAIN keys |-> Len(term) + 5 * i - 3]),
                   ![fresh] = Join("DEPENDENT_INNER_LEFT", 0),
                   ![fresh + 1] = [NewNode("PROJECTION") EXCEPT !.alias = D,
                              !.args = [i \in DOMAIN keys |-> Len(term) + 5 * i - 2]]]
        BY <1>2 DEF IntroduceD
    <3>2. PICK more, targets, alias :
             /\ more = [i \in DOMAIN keys |-> Len(term) + 5 * i - 3]
             /\ targets = [i \in DOMAIN keys |-> Len(term) + 5 * i - 2] /\ alias = T(counter)
        OBVIOUS
    <3> QED BY <3>1, <3>2, <2>3
  <2>13. /\ DOMAIN node' = Node /\ node'[dep].node_case = "JOIN" /\ node'[dep].marker = 0
         /\ node'[d].node_case = "PROJECTION"
         /\ \A n \in Node : n # dep /\ n # d => node'[n].node_case = node[n].node_case
         /\ \A n \in Node : n # oj /\ n # rp /\ n # dep /\ n # d => node'[n] = node[n]
    <3>1. oj # rp /\ oj # dep /\ oj # d /\ rp # dep /\ rp # d /\ dep # d
        BY <2>3, <2>4, <2>8, <2>9, <2>10
    <3>2. /\ DOMAIN node' = Node
          /\ node'[oj] = AsProduct(node[oj])
          /\ node'[rp] = AsTable(node[rp], alias, more)
          /\ node'[dep] = Join("DEPENDENT_INNER_LEFT", 0)
          /\ node'[d] = [NewNode("PROJECTION") EXCEPT !.alias = D, !.args = targets]
          /\ \A n \in Node : n # oj /\ n # rp /\ n # dep /\ n # d => node'[n] = node[n]
      <4>1. oj \in Node /\ rp \in Node /\ dep \in Node /\ d \in Node /\ DOMAIN node = Node
        BY <2>3, <2>10, <2>11
      <4>2. DOMAIN node' = Node
        BY <4>1, <2>12
      <4>3. node'[oj] = AsProduct(node[oj])
        BY <4>1, <3>1, <2>12
      <4>4. node'[rp] = AsTable(node[rp], alias, more)
        BY <4>1, <3>1, <2>12
      <4>5. node'[dep] = Join("DEPENDENT_INNER_LEFT", 0)
        BY <4>1, <3>1, <2>12
      <4>6. node'[d] = [NewNode("PROJECTION") EXCEPT !.alias = D, !.args = targets]
        BY <4>1, <3>1, <2>12
      <4>7. \A n \in Node : n # oj /\ n # rp /\ n # dep /\ n # d => node'[n] = node[n]
        BY <4>1, <3>1, <2>12
      <4> QED BY <4>2, <4>3, <4>4, <4>5, <4>6, <4>7
    <3>3. node'[oj].node_case = node[oj].node_case /\ node'[rp].node_case = node[rp].node_case
        BY <3>2 DEF AsProduct, AsTable
    <3>4. node'[dep].node_case = "JOIN" /\ node'[dep].marker = 0
        BY <3>2 DEF Join, NewNode
    <3>5. node'[d].node_case = "PROJECTION"
        BY <3>2 DEF NewNode
    <3> QED BY <3>2, <3>3, <3>4, <3>5
  <2>14. TreeTypes'
    <3>1. \A n \in F \cup {dep, d} : n < fresh'
      <4>1. \A n \in F : n < fresh /\ n \in Nat
        BY <2>4 DEF Node
      <4> QED BY <4>1, <2>1, <2>3, <2>11
    <3>2. \A n \in tops : node'[n].node_case = "PROJECTION"
        BY <2>4, <2>8, <2>13
    <3>3. fresh' \in Nat \ {0}
        BY <2>1, <2>11
    <3> QED BY <3>1, <3>2, <3>3, <2>1, <2>2, <2>3, <2>5, <2>11, <2>13 DEF TreeTypes
  <2>15. ASSUME NEW n \in F \cup {dep, d}
         PROVE  IsWhole(node', new, n) \/ n = d
    <3>1. CASE n = dep
      <4>1. Len(new[dep]) = 2
        BY <2>7
      <4> QED BY <3>1, <4>1, <2>13 DEF IsWhole, is_full, n_children
    <3>2. CASE n # dep /\ n # d
      <4>1. IsWhole(node, ch, n) /\ n \in Node
        BY <3>2, <2>4, <2>15
      <4>2. Len(new[n]) = Len(ch[n]) /\ node'[n].node_case = node[n].node_case
        BY <3>2, <4>1, <2>7, <2>13
      <4> QED BY <4>1, <4>2 DEF IsWhole, is_full
    <3> QED BY <3>1, <3>2
  <2>16. \A m \in DOMAIN ctes : node'[ctes[m]] = node[ctes[m]]
    <3>1. \A m \in DOMAIN ctes : ctes[m] \in tops
        BY <2>3 DEF AllTops, Tops
    <3>2. \A n \in tops : n # oj /\ n # rp /\ n # dep /\ n # d /\ n \in Node
        BY <2>3, <2>4, <2>8, <2>9
    <3> QED BY <3>1, <3>2, <2>13
  <2>17. TreesKept'
    <3>1. IsForest(new, tops)
        BY <2>4, <2>5, <2>7, HangsForest
    <3>2. ch'[d] = <<ch'[oj][1]>>
        BY <2>3
    <3>3. CteNamesDiffer(node', ctes)
        BY <2>16 DEF UInv, TreesKept, CteNamesDiffer
    <3> QED BY <3>1, <3>2, <3>3, <2>1, <2>2, <2>3, <2>5, <2>15 DEF TreesKept
  <2>18. CteNamesFree'
    <3>1. counter \in Nat /\ \A m \in DOMAIN ctes :
              node[ctes[m]].alias[1] = CteName(0)[1] => node[ctes[m]].alias[2] \in 0 .. counter - 1
        BY DEF UInv, CteNamesFree
    <3>2. 0 .. counter - 1 \subseteq 0 .. counter' - 1 /\ counter' \in Nat
        BY <3>1, <2>1
    <3> QED BY <3>1, <3>2, <2>1, <2>16 DEF CteNamesFree
  <2>19. ASSUME NEW j, HasSubquery(node, ch, tops, j)
         PROVE  /\ j \in Node /\ j \in F /\ new[j][2] = ch[j][2] /\ node[j].node_case = "JOIN"
                /\ node'[ch[j][2]].node_case = "PROJECTION"
    <3>1. /\ j \in F /\ node[j].node_case = "JOIN" /\ node[ch[j][2]].node_case = "PROJECTION"
        BY <2>4, <2>19 DEF HasSubquery
    <3>2. j \in Node /\ DOMAIN ch[j] = {1, 2} /\ ch[j][2] \in F
        BY <2>3, <2>4, <2>19, SubqueryBelow
    <3>3. j # rp /\ j # dep
        BY <3>1, <2>3, <2>8
    <3>4. new[j][2] = ch[j][2]
        BY <3>2, <3>3, <2>7
    <3>5. node'[ch[j][2]].node_case = "PROJECTION"
        BY <3>1, <3>2, <2>4, <2>8, <2>13
    <3> QED BY <3>1, <3>2, <3>4, <3>5
  <2>20. JoinsInv'
    <3>1. /\ mi \in Nat
          /\ \A m \in 1 .. mi : \/ markers_joins[m].join = 0
                                 \/ HoldsSubquery(node, ch, tops, markers_joins[m].join)
          /\ \A m, l \in 1 .. mi : m # l =>
              markers_joins[m].join = 0 \/ markers_joins[m].join # markers_joins[l].join
        BY <2>1, <2>2, <2>3 DEF UInv, JoinsInv, ToDo
    <3>2. ASSUME NEW j, HoldsSubquery(node, ch, tops, j), j # oj
          PROVE  HoldsSubquery(node', new, tops, j)
      <4>1. HasSubquery(node, ch, tops, j)
        BY <3>2 DEF HoldsSubquery
      <4>2. /\ j \in Node /\ j \in F /\ new[j][2] = ch[j][2] /\ node[j].node_case = "JOIN"
            /\ node'[ch[j][2]].node_case = "PROJECTION"
        BY <4>1, <2>19
      <4>3. node'[j] = node[j]
        BY <3>2, <4>2, <2>3, <2>8, <2>13
      <4> QED BY <3>2, <4>2, <4>3, <2>5, HoldsKept
    <3>3. ToDo' = 1 .. mi - 1
        BY <2>1, <2>2 DEF ToDo
    <3>4. ASSUME NEW m \in 1 .. mi - 1
          PROVE  \/ markers_joins[m].join = 0
                 \/ HoldsSubquery(node', new, tops, markers_joins[m].join)
      <4>1. m \in 1 .. mi /\ mi \in 1 .. mi /\ m # mi
        BY <3>1, <2>1
      <4>2. markers_joins[m].join = 0 \/ markers_joins[m].join # oj
        BY <4>1, <3>1, <2>3 DEF original_join
      <4> QED BY <4>1, <4>2, <3>1, <3>2
    <3> QED BY <3>1, <3>3, <3>4, <2>1, <2>2, <2>3 DEF JoinsInv
  <2>21. DInv'
    <3>1. HasSubquery(node', new, tops, oj)
      <4>1. node'[oj].node_case = "JOIN"
        BY <2>8, <2>9, <2>10, <2>13
      <4> QED BY <4>1, <2>5, <2>9, <2>19 DEF HasSubquery
    <3>2. oj \notin Below(new, dep)
      <4>1. Below(new, dep) \subseteq {dep, d} \cup Below(ch, body)
        BY <2>3, <2>4, InsertBelow
      <4>2. oj \notin Below(ch, rp)
        BY <2>4, <2>10, NotBelowChild
      <4>3. body \in Children(ch, rp)
        <5>1. 1 \in DOMAIN ch[rp]
            BY <2>3 DEF Inserts
        <5> QED BY <5>1, <2>3 DEF Children
      <4>4. rp \in Below(ch, rp) /\ Closed(ch, Below(ch, rp))
        BY <2>3, <2>4, BelowClosed
      <4>5. body \in Below(ch, rp)
        BY <4>3, <4>4 DEF Closed
      <4>6. Below(ch, body) \subseteq Below(ch, rp)
        BY <4>4, <4>5, <2>4, <2>6, BelowLeast
      <4> QED BY <4>1, <4>2, <4>6, <2>8, <2>9
    <3>3. dep \notin Children(new, oj)
      <4>1. oj # dep /\ oj # rp /\ dep \notin Children(ch, oj)
        BY <2>3, <2>4, <2>8, <2>9, <2>10
      <4>2. DOMAIN new[oj] = DOMAIN ch[oj] /\ \A l \in DOMAIN ch[oj] : new[oj][l] = ch[oj][l]
        BY <4>1, <2>7, <2>10
      <4> QED BY <4>1, <4>2 DEF Children
    <3> QED BY <3>1, <3>2, <3>3, <2>1, <2>2, <2>3, <2>5, <2>13 DEF DInv
  <2>22. Unnesting' /\ MarkersInv'
    BY <2>1 DEF Unnesting, MarkersInv
  <2>23. F \subseteq Forest(Kids', AllTops') /\ F = Forest(Kids, AllTops)
    BY <2>2, <2>3, <2>4, <2>5
  <2> QED BY <2>2, <2>14, <2>17, <2>18, <2>20, <2>21, <2>22, <2>23 DEF UInv
<1> QED BY <1>1, <1>2

(* The nodes from whose predicates decoupling takes conjuncts *)
LEMMA KeptIn ==
    ASSUME NEW children, NEW tops, Hangs(children, tops), NEW top \in Forest(children, tops), NEW tm
    PROVE  /\ DOMAIN Kept(tm, children, top) \subseteq Forest(children, tops)
           /\ \A n \in DOMAIN Kept(tm, children, top) : node[n].node_case = "SELECTION"
<1>1. PICK F \in SUBSET Node : /\ F = Forest(children, tops) /\ \A n \in Node : Children(children, n) \subseteq F
    BY ForestClosed DEF Hangs
<1>2. children \in [Node -> Seq(Node)] /\ Grounded(Node, Down(children))
    BY HangsGrounded DEF Hangs
<1>3. Closed(children, F)
    BY <1>1 DEF Closed
<1>4. PICK list \in Seq(F) : list = Preorder(children, top)
    BY <1>1, <1>2, <1>3, PreorderIn
<1>5. ToSet(list) \subseteq F
  <2>1. \A i \in DOMAIN list : list[i] \in F
    BY <1>4
  <2> QED BY <2>1 DEF ToSet
<1>6. DOMAIN Kept(tm, children, top) = {m \in ToSet(list) : node[m].node_case = "SELECTION"}
    BY <1>4 DEF Kept
<1> QED BY <1>1, <1>5, <1>6

(* The step that decouples: the dependent join goes with D, then the selections C *)
LEMMA DecoupleDrops ==
    ASSUME UInv, Decouple
    PROVE  \E p, i, cut, C :
              /\ Dependents(Kids, dep_join, d_projection, below_join, p, i, original_join)
              /\ Drops(Kids, dep_join, p, i, d_projection, below_join, cut)
              /\ C \subseteq Forest(cut, AllTops) /\ C \in SUBSET Node
              /\ \A n \in C : node[n].node_case = "SELECTION" /\ pred'[n] = <<>>
              /\ AfterCutAll(cut, AllTops, C, ch')
<1>1. pc = "decouple" /\ Shared
    BY DEF Decouple, At, Shared
<1>2. PICK own, tops, F :
              /\ own = Kids /\ own = Apart /\ tops = AllTops /\ F = Forest(own, tops)
              /\ Hangs(own, tops) /\ own \in [Node -> Seq(Node)] /\ F \in SUBSET Node
              /\ tops \subseteq F
              /\ \A n \in tops : node[n].node_case = "PROJECTION"
              /\ \A n \in F : IsWhole(node, own, n) \/ (Shared /\ n = d_projection)
    BY <1>1, Grown DEF Kids
<1>3. PICK dep, d, x, oj, p, i :
          /\ dep = dep_join /\ d = d_projection /\ x = below_join /\ oj = original_join
          /\ Dependents(own, dep, d, x, p, i, oj)
          /\ get_node_parent(ch, dep)[1] = p /\ get_node_parent(ch, dep)[2] = i
    BY <1>1, <1>2, SharedFacts
<1>4. /\ dep \in Node /\ d \in Node /\ x \in Node /\ p \in Node
      /\ own[dep] = <<d, x>> /\ own[d] = <<>> /\ i \in DOMAIN own[p] /\ own[p][i] = dep
      /\ p # x /\ p # dep /\ p # d /\ x # dep /\ x # d /\ d # dep
      /\ \A n \in Node : n # d => ch[n] = own[n]
    BY <1>3 DEF Dependents
<1>5. node[dep].node_case = "JOIN" /\ node[d].node_case = "PROJECTION"
    BY <1>1, <1>3 DEF UInv, DInv
<1> DEFINE Clean(tm, cut, kept) ==
               /\ term' = KeptTerms(tm, DOMAIN kept)
               /\ pred' = [n \in Node |-> IF n \in DOMAIN kept THEN kept[n] ELSE pred[n]]
               /\ ch' = CutAll(cut, SetToSeq({n \in DOMAIN kept : kept[n] = <<>>}))
               /\ node' = [n \in Node |-> IF ch[n] # <<>> /\ ch'[n] = <<>> THEN Free ELSE node[n]]
<1>6. PICK top, cut : /\ top = Last(PathUp) /\ cut = WithoutD
                      /\ \E tm : \E kept \in {Kept(tm, cut, top)} : Clean(tm, cut, kept)
  <2>1. PICK top \in {Last(PathUp)}, cut \in {WithoutD} :
            \E tm \in {DecoupledTerms(Renamable(cut, top), rename_d_attributes)} :
                \E kept \in {Kept(tm, cut, top)} : Clean(tm, cut, kept)
    BY Zenon DEF Decouple
  <2> HIDE DEF Clean
  <2> QED BY <2>1
<1>7. PICK tm, kept : kept = Kept(tm, cut, top) /\ Clean(tm, cut, kept)
  <2> HIDE DEF Clean
  <2> QED BY <1>6
<1>8. /\ top = Last(PathUp) /\ cut = WithoutD /\ kept = Kept(tm, cut, top)
      /\ pred' = [n \in Node |-> IF n \in DOMAIN kept THEN kept[n] ELSE pred[n]]
      /\ ch' = CutAll(cut, SetToSeq({n \in DOMAIN kept : kept[n] = <<>>}))
    BY <1>6, <1>7
<1> HIDE DEF Clean
<1>9. cut = [own EXCEPT ![p][i] = x, ![dep] = <<>>]
  <2>1. cut = [ch EXCEPT ![p][i] = x, ![dep] = <<>>, ![d] = <<>>]
    BY <1>3, <1>8 DEF WithoutD
  <2>2. DOMAIN ch = Node /\ DOMAIN own = Node
    BY <1>2 DEF UInv, TreeTypes
  <2>3. PICK res : res = [own EXCEPT ![p][i] = x, ![dep] = <<>>]
    OBVIOUS
  <2>4. /\ res = [n \in Node |-> res[n]] /\ res[p] = [own[p] EXCEPT ![i] = x] /\ res[dep] = <<>>
        /\ \A n \in Node : n # p /\ n # dep => res[n] = own[n]
    BY <2>2, <2>3, <1>4
  <2>5. /\ cut = [n \in Node |-> cut[n]] /\ cut[p] = [own[p] EXCEPT ![i] = x] /\ cut[dep] = <<>>
        /\ cut[d] = <<>> /\ \A n \in Node : n # p /\ n # dep /\ n # d => cut[n] = own[n]
    BY <2>1, <2>2, <1>4
  <2>6. \A n \in Node : cut[n] = res[n]
    BY <2>4, <2>5, <1>4
  <2> QED BY <2>3, <2>4, <2>5, <2>6
<1>10. Drops(own, dep, p, i, d, x, cut)
    BY <1>4, <1>9 DEF Drops
<1>11. Hangs(cut, tops) /\ Forest(cut, tops) = F \ {dep, d}
    BY <1>2, <1>10, DropForest
<1>12. AfterCut(own, dep, p, i, x, cut)
    BY <1>2, <1>10, DropAfter
<1>13. top \in Forest(cut, tops)
  <2>1. dep \in Hung(own)
    <3>1. dep \in Children(own, p)
        BY <1>4 DEF Children
    <3> QED BY <3>1, <1>4 DEF Hung
  <2>2. top = Last(UpFrom(own, dep))
    BY <1>2, <1>3, <1>8 DEF PathUp, UpFrom
  <2>3. top \in F /\ node[top].node_case = "PROJECTION" /\ Children(own, top) # {}
    BY <2>1, <2>2, <1>2, UpFromIn
  <2>4. Children(own, d) = {}
    BY <1>4 DEF Children
  <2> QED BY <2>3, <2>4, <1>5, <1>11
<1>14. /\ DOMAIN kept \subseteq Forest(cut, tops)
       /\ \A n \in DOMAIN kept : node[n].node_case = "SELECTION"
    BY <1>8, <1>11, <1>13, KeptIn
<1>15. PICK C : C = {n \in DOMAIN kept : kept[n] = <<>>}
    OBVIOUS
<1>16. /\ C \in SUBSET Node /\ C \subseteq Forest(cut, tops)
       /\ \A n \in C : node[n].node_case = "SELECTION" /\ n \notin tops /\ n # dep /\ n # d /\ n \in F
    BY <1>2, <1>5, <1>11, <1>14, <1>15
<1>17. ASSUME NEW n \in C
       PROVE  Len(cut[n]) = 1
  <2>1. IsWhole(node, own, n) /\ n \in Node
    BY <1>2, <1>3, <1>16
  <2>2. Len(own[n]) = 1
    BY <2>1, <1>16 DEF IsWhole, is_full, n_children
  <2> QED BY <2>1, <2>2, <1>12, <1>16 DEF AfterCut
<1>18. PICK ns : ns = SetToSeq(C)
    OBVIOUS
<1>19. /\ ns \in Seq(Node) /\ \A k, l \in DOMAIN ns : ns[k] = ns[l] => k = l
       /\ {ns[k] : k \in DOMAIN ns} = C
    BY <1>16, <1>18, NodesListed
<1>20. MayCut(cut, tops, ns)
  <2>1. \A k \in DOMAIN ns : ns[k] \in C
    BY <1>19
  <2> QED BY <2>1, <1>16, <1>17, <1>19 DEF MayCut
<1>21. AfterCutAll(cut, tops, C, ch')
  <2>1. AfterCutAll(cut, tops, {ns[k] : k \in DOMAIN ns}, CutAll(cut, ns))
    BY <1>11, <1>20, CutAllForest
  <2>2. ch' = CutAll(cut, ns)
    BY <1>8, <1>15, <1>18
  <2> QED BY <2>1, <2>2, <1>19
<1>22. \A n \in C : pred'[n] = <<>>
    BY <1>8, <1>15, <1>16
<1> QED BY <1>2, <1>3, <1>10, <1>16, <1>21, <1>22

LEMMA DecoupleInv ==
    ASSUME UInv, Decouple
    PROVE  UInv' /\ TakenOnPurpose
<1>1. /\ pc = "decouple" /\ pc' = "introduce" /\ mi' = mi - 1
      /\ node' = [n \in Node |-> IF ch[n] # <<>> /\ ch'[n] = <<>> THEN Free ELSE node[n]]
      /\ UNCHANGED <<root, fresh, ctes, counter, markers_joins>>
    BY DEF Decouple, At, NextMarker
<1>2. Shared /\ ~Shared' /\ AllTops' = AllTops /\ Kids' = ch'
    BY <1>1 DEF Shared, AllTops, Kids
<1>3. PICK own, tops, F :
              /\ own = Kids /\ tops = AllTops /\ F = Forest(own, tops)
              /\ Hangs(own, tops) /\ own \in [Node -> Seq(Node)] /\ tops \in SUBSET Node
              /\ tops \subseteq F /\ F \in SUBSET Node
              /\ \A n \in Node : Children(own, n) \subseteq F
              /\ \A n \in tops : node[n].node_case = "PROJECTION"
              /\ \A n \in F : n < fresh /\ (IsWhole(node, own, n) \/ (Shared /\ n = d_projection))
    BY Grown
<1>4. PICK dep, d, x, oj, p, i, cut, C, new :
          /\ dep = dep_join /\ d = d_projection /\ x = below_join /\ oj = original_join /\ new = ch'
          /\ Dependents(own, dep, d, x, p, i, oj) /\ Drops(own, dep, p, i, d, x, cut)
          /\ C \subseteq Forest(cut, tops) /\ C \in SUBSET Node
          /\ \A n \in C : node[n].node_case = "SELECTION" /\ pred'[n] = <<>>
          /\ AfterCutAll(cut, tops, C, new)
    BY <1>3, DecoupleDrops
<1>5. Forest(cut, tops) = F \ {dep, d}
    BY <1>3, <1>4, DropForest
<1>6. /\ AfterCut(own, dep, p, i, x, cut) /\ Children(own, dep) = {d, x}
    BY <1>3, <1>4, DropAfter
<1>7. /\ \A n \in Node : n # dep =>
          /\ DOMAIN cut[n] = DOMAIN own[n] /\ Len(cut[n]) = Len(own[n])
          /\ \A l \in DOMAIN own[n] : cut[n][l] = IF n = p /\ l = i THEN x ELSE own[n][l]
    BY <1>6 DEF AfterCut
<1>8. /\ Hangs(new, tops) /\ Forest(new, tops) = (F \ {dep, d}) \ C
      /\ \A n \in Node \ C :
          /\ DOMAIN new[n] = DOMAIN cut[n] /\ Len(new[n]) = Len(cut[n])
          /\ \A l \in DOMAIN cut[n] : cut[n][l] \notin C => new[n][l] = cut[n][l]
    BY <1>4, <1>5 DEF AfterCutAll
<1>9. PICK L \in SUBSET Node : L = Forest(new, tops) /\ L = (F \ {dep, d}) \ C /\ tops \subseteq L
  <2>1. tops \subseteq Forest(new, tops)
    BY DEF Forest
  <2> QED BY <2>1, <1>3, <1>8
<1>10. /\ dep \in Node /\ d \in Node /\ p \in Node /\ own[p][i] = dep
       /\ \A n \in Node : n # d => ch[n] = own[n]
    BY <1>4 DEF Dependents
<1>11. /\ mi > 0 /\ node[dep].node_case = "JOIN" /\ node[dep].marker = 0 /\ dep \in F
    BY <1>2, <1>3, <1>4 DEF UInv, DInv
<1>12. new \in [Node -> Seq(Node)]
    BY <1>8 DEF Hangs
<1>13. ASSUME NEW n \in L
       PROVE  n \in Node /\ Len(new[n]) = Len(own[n]) /\ node'[n] = node[n] /\ IsWhole(node', new, n)
  <2>1. n \in Node /\ n \in F /\ n # dep /\ n # d /\ n \notin C
    BY <1>3, <1>9
  <2>2. Len(new[n]) = Len(own[n])
    BY <2>1, <1>7, <1>8
  <2>3. node'[n] = node[n]
    <3>1. node'[n] = IF ch[n] # <<>> /\ new[n] = <<>> THEN Free ELSE node[n]
        BY <2>1, <1>1, <1>4
    <3>2. ch[n] = own[n] /\ own[n] \in Seq(Node) /\ new[n] \in Seq(Node)
        BY <2>1, <1>3, <1>10, <1>12
    <3>3. new[n] = <<>> => own[n] = <<>>
        BY <2>2, <3>2, EmptySeq
    <3> QED BY <3>1, <3>2, <3>3
  <2>4. IsWhole(node, own, n)
    BY <2>1, <1>3, <1>4
  <2> QED BY <2>1, <2>2, <2>3, <2>4 DEF IsWhole, is_full
<1>14. DOMAIN node' = Node
    BY <1>1
<1>15. TreeTypes'
  <2>1. root \in Node /\ ctes \in Seq(Node) /\ fresh \in Nat \ {0}
    BY DEF UInv, TreeTypes
  <2>2. \A n \in tops : node'[n].node_case = "PROJECTION"
    BY <1>3, <1>9, <1>13
  <2>3. \A n \in L : n < fresh
    BY <1>3, <1>9
  <2> QED BY <2>1, <2>2, <2>3, <1>1, <1>2, <1>3, <1>4, <1>9, <1>12, <1>14 DEF TreeTypes
<1>16. \A m \in DOMAIN ctes : node'[ctes[m]] = node[ctes[m]]
  <2>1. \A m \in DOMAIN ctes : ctes[m] \in tops
    BY <1>3 DEF AllTops, Tops
  <2> QED BY <2>1, <1>9, <1>13
<1>17. TreesKept'
  <2>1. IsForest(new, tops)
    BY <1>3, <1>8, <1>12, HangsForest
  <2>2. CteNamesDiffer(node', ctes)
    BY <1>16 DEF UInv, TreesKept, CteNamesDiffer
  <2> QED BY <2>1, <2>2, <1>1, <1>2, <1>3, <1>4, <1>9, <1>13 DEF TreesKept
<1>18. CteNamesFree'
    BY <1>1, <1>16 DEF UInv, CteNamesFree
<1>19. ASSUME NEW j, HoldsSubquery(node, own, tops, j)
       PROVE  HoldsSubquery(node', new, tops, j)
  <2>1. HasSubquery(node, own, tops, j) /\ node[j].marker # 0
    BY <1>19 DEF HoldsSubquery
  <2>2. j \in F /\ node[j].node_case = "JOIN" /\ node[own[j][2]].node_case = "PROJECTION"
    BY <2>1, <1>3 DEF HasSubquery
  <2>3. /\ j \in Node /\ DOMAIN own[j] = {1, 2} /\ own[j][2] \in F /\ own[j][2] \in Children(own, j)
        /\ j # d
    BY <2>1, <1>2, <1>3, <1>4, SubqueryBelow
  <2>4. j # dep /\ j \notin C /\ own[j][2] # dep /\ own[j][2] \notin C
    BY <2>1, <2>2, <1>4, <1>11
  <2>5. cut[j][2] = own[j][2] /\ 2 \in DOMAIN cut[j]
    <3>1. ~(j = p /\ i = 2)
        BY <2>4, <1>10
    <3> QED BY <3>1, <2>3, <2>4, <1>7
  <2>6. new[j][2] = own[j][2]
    BY <2>3, <2>4, <2>5, <1>8
  <2>7. own[j][2] # d
    <3>1. d \in Children(own, dep)
        BY <1>6
    <3> QED BY <3>1, <2>3, <2>4, <1>3, <1>10 DEF Hangs, ForestSlots, Children
  <2>8. j \in L /\ own[j][2] \in L
    BY <2>2, <2>3, <2>4, <2>7, <1>9
  <2>9. node'[j] = node[j] /\ node'[own[j][2]].node_case = "PROJECTION"
    BY <2>2, <2>8, <1>13
  <2> QED BY <2>6, <2>8, <2>9, <1>9, <1>19, HoldsKept
<1>20. JoinsInv'
  <2>1. /\ mi \in Nat
        /\ \A m \in 1 .. mi - 1 : \/ markers_joins[m].join = 0
                                   \/ HoldsSubquery(node, own, tops, markers_joins[m].join)
        /\ \A m, l \in 1 .. mi : m # l =>
              markers_joins[m].join = 0 \/ markers_joins[m].join # markers_joins[l].join
    BY <1>1, <1>2, <1>3 DEF UInv, JoinsInv, ToDo
  <2>2. \A m \in 1 .. mi - 1 : \/ markers_joins[m].join = 0
                                \/ HoldsSubquery(node', new, tops, markers_joins[m].join)
    BY <2>1, <1>19
  <2>3. mi - 1 \in Nat /\ 1 .. mi - 1 \subseteq 1 .. mi
    BY <2>1, <1>11
  <2>4. ToDo' = 1 .. mi - 1
    BY <1>1, <1>2 DEF ToDo
  <2>5. /\ mi' \in Nat
        /\ \A m, l \in 1 .. mi' : m # l =>
              markers_joins[m].join = 0 \/ markers_joins[m].join # markers_joins[l].join
    BY <2>1, <2>3, <1>1
  <2> QED BY <2>2, <2>4, <2>5, <1>1, <1>2, <1>3, <1>4 DEF JoinsInv
<1>21. Unnesting' /\ MarkersInv' /\ DInv'
    BY <1>1, <1>2 DEF Unnesting, MarkersInv, DInv
<1>22. TakenOnPurpose
  <2>1. TakenOut = F \ L
    BY <1>2, <1>3, <1>4, <1>9 DEF TakenOut
  <2>2. \A n \in F \ L : n = dep \/ n = d \/ n \in C
    BY <1>9
  <2> QED BY <2>1, <2>2, <1>1, <1>4 DEF TakenOnPurpose
<1> QED BY <1>15, <1>17, <1>18, <1>20, <1>21, <1>22 DEF UInv

(* The step that moves the outer query: below a new top, and D reads a leaf as well *)
LEMMA MoveOuterMoves ==
    ASSUME UInv, MoveOuterToCte
    PROVE  \E p, i, mid :
              /\ Dependents(Kids, dep_join, d_projection, below_join, p, i, original_join)
              /\ Splits(Kids, AllTops, original_join, 1, Kids[original_join][1], fresh, fresh + 1, mid)
              /\ Grafts(mid, AllTops \cup {fresh}, d_projection, fresh + 2, ch')
<1>1. /\ pc = "outer" /\ fresh + 2 \in Node
      /\ ch' = [ch EXCEPT ![fresh] = <<ch[original_join][1]>>, ![original_join][1] = fresh + 1,
                          ![d_projection] = <<fresh + 2>>]
    BY DEF MoveOuterToCte, At, OuterMoved
<1>2. Shared
    BY <1>1 DEF Shared
<1>3. PICK own, tops, F :
              /\ own = Kids /\ tops = AllTops /\ F = Forest(own, tops)
              /\ Hangs(own, tops) /\ own \in [Node -> Seq(Node)] /\ F \in SUBSET Node
              /\ \A n \in Node : Children(own, n) \subseteq F
              /\ \A n \in Node : n \notin F => own[n] = <<>>
              /\ \A n \in F : n < fresh
    BY Grown
<1>4. PICK dep, d, x, oj, p, i, f, e, g :
          /\ dep = dep_join /\ d = d_projection /\ x = below_join /\ oj = original_join
          /\ f = fresh /\ e = fresh + 1 /\ g = fresh + 2
          /\ Dependents(own, dep, d, x, p, i, oj)
    BY <1>2, <1>3, SharedFacts
<1>5. /\ dep \in Node /\ d \in Node /\ oj \in Node /\ oj # d
      /\ own[dep] = <<d, x>> /\ own[d] = <<>> /\ DOMAIN own[oj] = {1, 2}
      /\ \A n \in Node : n # d => ch[n] = own[n]
    BY <1>4 DEF Dependents
<1>6. /\ f \in Node /\ e \in Node /\ g \in Node /\ f # e /\ f # g /\ e # g
      /\ f \notin F /\ e \notin F /\ g \notin F
  <2>1. fresh \in Nat \ {0} /\ MaxNodes \in Nat
    BY MaxNodesAssumption DEF UInv, TreeTypes
  <2>2. f \in Node /\ e \in Node /\ g \in Node /\ f # e /\ f # g /\ e # g
    BY <2>1, <1>1, <1>4 DEF Node
  <2>3. \A n \in F : n < fresh /\ n \in Nat
    BY <1>3 DEF Node
  <2> QED BY <2>1, <2>2, <2>3, <1>4
<1>7. oj \in F /\ d \in F
  <2>1. own[oj] # <<>>
    <3>1. DOMAIN own[oj] = {1, 2}
        BY <1>5
    <3> QED BY <3>1
  <2>2. d \in Children(own, dep)
    BY <1>5 DEF Children
  <2> QED BY <2>1, <2>2, <1>3, <1>5
<1>8. PICK y : y = own[oj][1] /\ y = ch[oj][1]
    BY <1>5
<1>9. PICK mid : mid = [own EXCEPT ![f] = <<y>>, ![oj][1] = e]
    OBVIOUS
<1>10. Splits(own, tops, oj, 1, y, f, e, mid)
  <2>1. {f, e} \subseteq Node \ Forest(own, tops)
    BY <1>3, <1>6
  <2>2. 1 \in DOMAIN own[oj]
    BY <1>5
  <2> QED BY <2>1, <2>2, <1>5, <1>6, <1>8, <1>9 DEF Splits
<1>11. PICK both, W : /\ both = tops \cup {f} /\ W = Forest(mid, both)
                      /\ Hangs(mid, both) /\ W = F \cup {f, e}
  <2>1. Hangs(own, tops) /\ F = Forest(own, tops)
    BY <1>3
  <2>2. Hangs(mid, tops \cup {f}) /\ Forest(mid, tops \cup {f}) = Forest(own, tops) \cup {f, e}
    BY <2>1, <1>10, SplitForest
  <2> QED BY <2>1, <2>2
<1>12. f # d /\ oj # f /\ e # d /\ g # d
    BY <1>6, <1>7
<1>13. DOMAIN ch = Node /\ DOMAIN own = Node
    BY <1>3 DEF UInv, TreeTypes
<1>14. /\ mid = [n \in Node |-> mid[n]] /\ mid[f] = <<y>> /\ mid[oj] = [own[oj] EXCEPT ![1] = e]
       /\ \A n \in Node : n # f /\ n # oj => mid[n] = own[n]
    BY <1>5, <1>6, <1>9, <1>12, <1>13
<1>15. ch' = [mid EXCEPT ![d] = <<g>>]
  <2>1. ch' = [ch EXCEPT ![f] = <<y>>, ![oj][1] = e, ![d] = <<g>>]
    BY <1>1, <1>4, <1>8
  <2>2. /\ ch' = [n \in Node |-> ch'[n]] /\ ch'[f] = <<y>> /\ ch'[oj] = [own[oj] EXCEPT ![1] = e]
        /\ ch'[d] = <<g>> /\ \A n \in Node : n # f /\ n # oj /\ n # d => ch'[n] = own[n]
    BY <2>1, <1>5, <1>6, <1>12, <1>13
  <2>3. PICK res : res = [mid EXCEPT ![d] = <<g>>]
    OBVIOUS
  <2>4. /\ res = [n \in Node |-> res[n]] /\ res[d] = <<g>> /\ \A n \in Node : n # d => res[n] = mid[n]
    BY <2>3, <1>5, <1>14
  <2>5. \A n \in Node : ch'[n] = res[n]
    BY <2>2, <2>4, <1>12, <1>14
  <2> QED BY <2>2, <2>3, <2>4, <2>5
<1>16. Grafts(mid, both, d, g, ch')
  <2>1. d \in W /\ g \in Node \ W
    BY <1>6, <1>7, <1>11
  <2>2. mid[d] = <<>>
    BY <1>5, <1>12, <1>14
  <2> QED BY <2>1, <2>2, <1>11, <1>15 DEF Grafts
<1> QED BY <1>3, <1>4, <1>8, <1>10, <1>11, <1>16

LEMMA MoveOuterToCteInv ==
    ASSUME UInv, MoveOuterToCte
    PROVE  UInv' /\ Forest(Kids, AllTops) \subseteq Forest(Kids', AllTops')
<1>1. PICK cte : cte = CteName(counter)
    OBVIOUS
<1>2. PICK targets :
      node' = [node EXCEPT
                   ![fresh + 1] = Relation(cte, NoName), ![fresh + 2] = Relation(cte, NoName),
                   ![fresh] = [NewNode("PROJECTION") EXCEPT !.alias = cte, !.args = targets]]
    BY <1>1 DEF MoveOuterToCte
<1>3. /\ pc = "outer" /\ pc' = "introduce" /\ mi' = mi - 1
      /\ ctes' = Append(ctes, fresh) /\ counter' = counter + 1 /\ fresh' = fresh + 3
      /\ UNCHANGED <<root, markers_joins>>
    BY DEF MoveOuterToCte, At, NextMarker
<1>4. Shared /\ ~Shared' /\ Kids' = ch'
    BY <1>3 DEF Shared, Kids
<1>5. PICK own, tops, F :
              /\ own = Kids /\ tops = AllTops /\ F = Forest(own, tops)
              /\ Hangs(own, tops) /\ own \in [Node -> Seq(Node)] /\ tops \in SUBSET Node
              /\ tops \subseteq F /\ F \in SUBSET Node
              /\ \A n \in tops : node[n].node_case = "PROJECTION"
              /\ \A n \in F : n < fresh /\ (IsWhole(node, own, n) \/ (Shared /\ n = d_projection))
    BY Grown
<1> PICK p, i, mid :
          /\ Dependents(Kids, dep_join, d_projection, below_join, p, i, original_join)
          /\ Splits(Kids, AllTops, original_join, 1, Kids[original_join][1], fresh, fresh + 1, mid)
          /\ Grafts(mid, AllTops \cup {fresh}, d_projection, fresh + 2, ch')
    BY MoveOuterMoves
<1>6. PICK dep, d, x, oj, f, e, g, y, new :
          /\ dep = dep_join /\ d = d_projection /\ x = below_join /\ oj = original_join
          /\ f = fresh /\ e = fresh + 1 /\ g = fresh + 2 /\ new = ch'
          /\ Dependents(own, dep, d, x, p, i, oj)
          /\ Splits(own, tops, oj, 1, y, f, e, mid) /\ Grafts(mid, tops \cup {f}, d, g, new)
  <2>1. own = Kids /\ tops = AllTops
    BY <1>5
  <2> QED BY <2>1
<1>7. /\ Hangs(mid, tops \cup {f}) /\ Forest(mid, tops \cup {f}) = F \cup {f, e}
  <2>1. Hangs(own, tops) /\ F = Forest(own, tops)
    BY <1>5
  <2>2. Splits(own, tops, oj, 1, y, f, e, mid)
    BY <1>6
  <2>3. Hangs(mid, tops \cup {f}) /\ Forest(mid, tops \cup {f}) = Forest(own, tops) \cup {f, e}
    BY <2>1, <2>2, SplitForest
  <2> QED BY <2>1, <2>3
<1>8. AfterSplit(own, oj, 1, y, f, e, mid)
    BY <1>5, <1>6, SplitAfter
<1>9. /\ mid[f] = <<y>>
      /\ \A n \in Node : n # f =>
          /\ DOMAIN mid[n] = DOMAIN own[n] /\ Len(mid[n]) = Len(own[n])
          /\ \A l \in DOMAIN own[n] : mid[n][l] = IF n = oj /\ l = 1 THEN e ELSE own[n][l]
    BY <1>8 DEF AfterSplit
<1>10. PICK both \in SUBSET Node : both = tops \cup {f} /\ Hangs(mid, both) /\ Grafts(mid, both, d, g, new)
    BY <1>6, <1>7 DEF Hangs
<1>11. /\ Hangs(new, both) /\ Forest(new, both) = Forest(mid, both) \cup {g}
       /\ new \in [Node -> Seq(Node)] /\ new[d] = <<g>>
       /\ \A n \in Node : n # d => new[n] = mid[n]
  <2>1. Hangs(mid, both) /\ Grafts(mid, both, d, g, new)
    BY <1>10
  <2> QED BY <2>1, GraftForest
<1>12. PICK L : L = Forest(new, both) /\ L = F \cup {f, e, g}
    BY <1>7, <1>10, <1>11
<1>13. /\ f \in Node /\ e \in Node /\ g \in Node /\ f \notin F /\ e \notin F /\ g \notin F
       /\ f # e /\ f # g /\ e # g
  <2>1. f \in Node /\ e \in Node /\ f \notin F /\ e \notin F /\ f # e
    BY <1>5, <1>6 DEF Splits
  <2>2. g \in Node /\ g \notin F \cup {f, e}
    BY <1>7, <1>10 DEF Grafts
  <2> QED BY <2>1, <2>2
<1>14. d \in Node /\ dep \in Node /\ oj \in Node
    BY <1>6 DEF Dependents
<1>15. /\ mi > 0 /\ dep \in F /\ node[d].node_case = "PROJECTION" /\ d \in F
  <2>1. mi > 0 /\ dep \in F /\ node[d].node_case = "PROJECTION"
    BY <1>4, <1>5, <1>6 DEF UInv, DInv
  <2>2. d \in Forest(mid, both)
    BY <1>10 DEF Grafts
  <2>3. d # f /\ d # e
    <3>1. own[f] = <<>> /\ own[e] = <<>>
        BY <1>5, <1>13 DEF Hangs, ForestSlots
    <3>2. d \in Children(own, dep)
      <4>1. own[dep] = <<d, x>>
        BY <1>6 DEF Dependents
      <4> QED BY <4>1 DEF Children
    <3>3. d \in F
        BY <3>2, <1>5, <1>14, ForestClosed
    <3> QED BY <3>3, <1>13
  <2> QED BY <2>1, <2>2, <2>3, <1>7, <1>10
<1>16. ctes \in Seq(Node) /\ root \in Node /\ DOMAIN node = Node /\ fresh \in Nat \ {0}
    BY DEF UInv, TreeTypes
<1>17. \A m \in DOMAIN ctes : ctes[m] \in tops
    BY <1>5 DEF AllTops, Tops
<1>18. /\ ctes' \in Seq(Node) /\ DOMAIN ctes' = 1 .. Len(ctes) + 1 /\ Len(ctes) \in Nat
       /\ ctes'[Len(ctes) + 1] = f /\ \A m \in 1 .. Len(ctes) : ctes'[m] = ctes[m]
       /\ DOMAIN ctes = 1 .. Len(ctes)
  <2>1. ctes' = Append(ctes, f)
    BY <1>3, <1>6
  <2> QED BY <2>1, <1>13, <1>16, AppendProperties, LenProperties
<1>19. AllTops' = both
  <2>1. tops = {root} \cup {ctes[m] : m \in DOMAIN ctes} /\ both = tops \cup {f}
    BY <1>5, <1>10 DEF AllTops, Tops
  <2>2. {ctes'[m] : m \in DOMAIN ctes'} = {ctes[m] : m \in DOMAIN ctes} \cup {f}
    <3>1. \A m \in DOMAIN ctes : m \in DOMAIN ctes' /\ ctes'[m] = ctes[m]
        BY <1>18
    <3>2. \A m \in DOMAIN ctes' : m \in DOMAIN ctes \/ ctes'[m] = f
        BY <1>18
    <3>3. Len(ctes) + 1 \in DOMAIN ctes' /\ ctes'[Len(ctes) + 1] = f
        BY <1>18
    <3> QED BY <3>1, <3>2, <3>3
  <2>3. AllTops' = {root'} \cup {ctes'[m] : m \in DOMAIN ctes'}
    BY DEF AllTops, Tops
  <2> QED BY <2>1, <2>2, <2>3, <1>3
<1>20. PICK label : label = [NewNode("PROJECTION") EXCEPT !.alias = cte, !.args = targets]
    OBVIOUS
<1>21. label.node_case = "PROJECTION" /\ label.alias = cte
    BY <1>20 DEF NewNode
<1>22. /\ DOMAIN node' = Node /\ node'[f] = label
       /\ node'[e] = Relation(cte, NoName) /\ node'[g] = Relation(cte, NoName)
       /\ \A n \in Node : n # f /\ n # e /\ n # g => node'[n] = node[n]
  <2>1. node' = [node EXCEPT ![e] = Relation(cte, NoName), ![g] = Relation(cte, NoName), ![f] = label]
    BY <1>2, <1>6, <1>20
  <2> QED BY <2>1, <1>13, <1>16
<1>23. \A n \in F : node'[n] = node[n] /\ n \in Node
    BY <1>5, <1>13, <1>22
<1>24. TreeTypes'
  <2>1. \A n \in L : n < fresh'
    <3>1. \A n \in F : n < fresh /\ n \in Nat
        BY <1>5 DEF Node
    <3> QED BY <3>1, <1>3, <1>6, <1>12, <1>16
  <2>2. \A n \in both : node'[n].node_case = "PROJECTION"
    BY <1>5, <1>10, <1>21, <1>22, <1>23
  <2>3. fresh' \in Nat \ {0}
    BY <1>3, <1>16
  <2> QED BY <2>1, <2>2, <2>3, <1>3, <1>4, <1>6, <1>11, <1>12, <1>16, <1>18, <1>19, <1>22 DEF TreeTypes
<1>25. ASSUME NEW n \in L
       PROVE  IsWhole(node', new, n)
  <2>1. CASE n = f
    <3>1. f # d /\ f \in Node
        BY <1>13, <1>15
    <3>2. new[f] = <<y>>
        BY <3>1, <1>9, <1>11
    <3>3. Len(new[f]) = 1
        BY <3>2
    <3> QED BY <2>1, <3>3, <1>21, <1>22 DEF IsWhole, is_full, n_children
  <2>2. CASE n \in {e, g}
    <3>1. n \in Node /\ n \notin F /\ n # f /\ n # d
        BY <2>2, <1>13, <1>15
    <3>2. own[n] = <<>>
        BY <3>1, <1>5 DEF Hangs, ForestSlots
    <3>3. Len(new[n]) = 0
      <4>1. Len(new[n]) = Len(own[n])
        BY <3>1, <1>9, <1>11
      <4> QED BY <3>2, <4>1
    <3>4. node'[n] = Relation(cte, NoName)
        BY <2>2, <1>22
    <3>5. node'[n].node_case = "RELATION"
        BY <3>4 DEF Relation, NewNode
    <3> QED BY <3>3, <3>5 DEF IsWhole, is_full, n_children
  <2>3. CASE n = d
    <3>1. Len(new[d]) = 1
        BY <1>11
    <3> QED BY <2>3, <3>1, <1>15, <1>23 DEF IsWhole, is_full, n_children
  <2>4. CASE n \in F /\ n # d
    <3>1. IsWhole(node, own, n) /\ n \in Node /\ n # f
        BY <2>4, <1>5, <1>6, <1>13
    <3>2. Len(new[n]) = Len(own[n]) /\ node'[n] = node[n]
        BY <2>4, <3>1, <1>9, <1>11, <1>23
    <3> QED BY <3>1, <3>2 DEF IsWhole, is_full
  <2> QED BY <2>1, <2>2, <2>3, <2>4, <1>12
<1>26. ASSUME NEW m \in DOMAIN ctes
       PROVE  /\ node'[ctes[m]] = node[ctes[m]]
              /\ node[ctes[m]].alias[1] = CteName(0)[1] => node[ctes[m]].alias[2] \in 0 .. counter - 1
              /\ node[ctes[m]].alias # cte
  <2>1. ctes[m] \in F
    BY <1>5, <1>17
  <2>2. counter \in Nat /\ (node[ctes[m]].alias[1] = CteName(0)[1] => node[ctes[m]].alias[2] \in 0 .. counter - 1)
    BY DEF UInv, CteNamesFree
  <2>3. node[ctes[m]].alias # cte
    BY <2>2, <1>1 DEF CteName
  <2> QED BY <2>1, <2>2, <2>3, <1>23
<1>27. CteNamesDiffer(node', ctes')
  <2> SUFFICES ASSUME NEW m \in DOMAIN ctes', NEW l \in DOMAIN ctes',
                      node'[ctes'[m]].alias = node'[ctes'[l]].alias
               PROVE  m = l
    BY DEF CteNamesDiffer
  <2>1. CASE m \in DOMAIN ctes /\ l \in DOMAIN ctes
    <3>1. node[ctes[m]].alias = node[ctes[l]].alias
        BY <2>1, <1>18, <1>26
    <3>2. CteNamesDiffer(node, ctes)
        BY DEF UInv, TreesKept
    <3> QED BY <2>1, <3>1, <3>2 DEF CteNamesDiffer
  <2>2. CASE m \in DOMAIN ctes /\ l = Len(ctes) + 1
    BY <2>2, <1>18, <1>21, <1>22, <1>26
  <2>3. CASE m = Len(ctes) + 1 /\ l \in DOMAIN ctes
    BY <2>3, <1>18, <1>21, <1>22, <1>26
  <2> QED BY <2>1, <2>2, <2>3, <1>18
<1>28. CteNamesFree'
  <2>1. counter \in Nat /\ counter' = counter + 1
    BY <1>3 DEF UInv, CteNamesFree
  <2>2. ASSUME NEW m \in DOMAIN ctes', node'[ctes'[m]].alias[1] = CteName(0)[1]
        PROVE  node'[ctes'[m]].alias[2] \in 0 .. counter' - 1
    <3>1. CASE m \in DOMAIN ctes
      <4>1. ctes'[m] = ctes[m] /\ node'[ctes[m]] = node[ctes[m]]
        BY <3>1, <1>18, <1>26
      <4>2. node[ctes[m]].alias[2] \in 0 .. counter - 1
        BY <3>1, <2>2, <4>1, <1>26
      <4> QED BY <4>1, <4>2, <2>1
    <3>2. CASE m = Len(ctes) + 1
        BY <3>2, <2>1, <1>1, <1>18, <1>21, <1>22 DEF CteName
    <3> QED BY <3>1, <3>2, <1>18
  <2> QED BY <2>1, <2>2 DEF CteNamesFree
<1>29. TreesKept'
  <2>1. IsForest(new, both)
    BY <1>10, <1>11, HangsForest
  <2> QED BY <2>1, <1>4, <1>6, <1>12, <1>19, <1>25, <1>27 DEF TreesKept
<1>30. ASSUME NEW j, HoldsSubquery(node, own, tops, j)
       PROVE  HoldsSubquery(node', new, both, j)
  <2>1. HasSubquery(node, own, tops, j)
    BY <1>30 DEF HoldsSubquery
  <2>2. j \in F /\ node[own[j][2]].node_case = "PROJECTION"
    BY <2>1, <1>5 DEF HasSubquery
  <2>3. j \in Node /\ DOMAIN own[j] = {1, 2} /\ own[j][2] \in F /\ j # d
    BY <2>1, <1>4, <1>5, <1>6, SubqueryBelow
  <2>4. new[j][2] = own[j][2]
    <3>1. j # f /\ 2 \in DOMAIN own[j] /\ new[j] = mid[j]
        BY <2>2, <2>3, <1>11, <1>13
    <3>2. \A l \in DOMAIN own[j] : mid[j][l] = IF j = oj /\ l = 1 THEN e ELSE own[j][l]
        BY <2>3, <3>1, <1>9
    <3> QED BY <3>1, <3>2
  <2>5. node'[j] = node[j] /\ node'[own[j][2]].node_case = "PROJECTION" /\ j \in L
    BY <2>2, <2>3, <1>12, <1>23
  <2> QED BY <2>4, <2>5, <1>12, <1>30, HoldsKept
<1>31. JoinsInv'
  <2>1. /\ mi \in Nat
        /\ \A m \in 1 .. mi - 1 : \/ markers_joins[m].join = 0
                                   \/ HoldsSubquery(node, own, tops, markers_joins[m].join)
        /\ \A m, l \in 1 .. mi : m # l =>
              markers_joins[m].join = 0 \/ markers_joins[m].join # markers_joins[l].join
    BY <1>3, <1>4, <1>5 DEF UInv, JoinsInv, ToDo
  <2>2. \A m \in 1 .. mi - 1 : \/ markers_joins[m].join = 0
                                \/ HoldsSubquery(node', new, both, markers_joins[m].join)
    BY <2>1, <1>30
  <2>3. mi - 1 \in Nat /\ 1 .. mi - 1 \subseteq 1 .. mi
    BY <2>1, <1>15
  <2>4. ToDo' = 1 .. mi - 1
    BY <1>3, <1>4 DEF ToDo
  <2>5. /\ mi' \in Nat
        /\ \A m, l \in 1 .. mi' : m # l =>
              markers_joins[m].join = 0 \/ markers_joins[m].join # markers_joins[l].join
    BY <2>1, <2>3, <1>3
  <2> QED BY <2>2, <2>4, <2>5, <1>3, <1>4, <1>6, <1>19 DEF JoinsInv
<1>32. Unnesting' /\ MarkersInv' /\ DInv'
    BY <1>3, <1>4 DEF Unnesting, MarkersInv, DInv
<1>33. Forest(Kids, AllTops) \subseteq Forest(Kids', AllTops')
    BY <1>4, <1>5, <1>6, <1>12, <1>19
<1> QED BY <1>24, <1>28, <1>29, <1>31, <1>32, <1>33 DEF UInv

-----------------------------------------------------------------------------
(* The pass *)

LEMMA UnnestInit ==
    ASSUME HandedOn
    PROVE  UInv
BY DEF HandedOn, UInv, Unnesting, JoinsInv, DInv, Shared

(* Every step keeps the invariant and takes no node out but on purpose *)
LEMMA UnnestStep ==
    ASSUME UInv, UnnestSubqueries
    PROVE  UInv' /\ TakenOnPurpose
<1>1. CASE FindScalarMarkers \/ PushedDown \/ Unnested
  <2>1. UInv' /\ Kids' = Kids /\ AllTops' = AllTops
    BY <1>1, FindScalarMarkersInv, PushedDownInv, UnnestedInv
  <2> QED BY <2>1 DEF TakenOnPurpose, TakenOut
<1>2. CASE PushNowhere
  <2>1. UNCHANGED unnesting
    BY <1>2 DEF PushNowhere
  <2>2. UInv' /\ Kids' = Kids /\ AllTops' = AllTops
    BY <2>1, PushNowhereInv
  <2> QED BY <2>2 DEF TakenOnPurpose, TakenOut
<1>3. CASE PushThroughNode \/ PushThroughJoin
  <2>1. UInv' /\ Forest(Kids', AllTops') = Forest(Kids, AllTops)
    BY <1>3, PushThroughNodeInv, PushThroughJoinInv
  <2> QED BY <2>1 DEF TakenOnPurpose, TakenOut
<1>4. CASE IntroduceD \/ MoveOuterToCte
  <2>1. UInv' /\ Forest(Kids, AllTops) \subseteq Forest(Kids', AllTops')
    BY <1>4, IntroduceDInv, MoveOuterToCteInv
  <2> QED BY <2>1 DEF TakenOnPurpose, TakenOut
<1>5. CASE Decouple
    BY <1>5, DecoupleInv
<1> QED BY <1>1, <1>2, <1>3, <1>4, <1>5 DEF UnnestSubqueries

LEMMA UnnestNext ==
    ASSUME UInv, [UnnestSubqueries]_unnesting
    PROVE  UInv'
BY UnnestStep, PushNowhereInv

(***************************************************************************)
(* The inductive invariant: the trees, the names of the CTEs, the joins    *)
(* that general_query_unnesting found before it changed anything and still *)
(* has to do, and where the original join is while D is in its subquery.   *)
(***************************************************************************)
THEOREM UnnestInvariance == UnnestSpec => []UInv
<1>1. HandedOn => UInv
    BY UnnestInit
<1>2. UInv /\ [UnnestSubqueries]_unnesting => UInv'
    BY UnnestNext
<1> QED BY <1>1, <1>2, PTL DEF UnnestSpec

(***************************************************************************)
(* general_query_unnesting: for a query of any size with any number of     *)
(* correlated scalar subqueries, the query and the CTEs are trees between  *)
(* any two steps, none of their nodes lacks a child, nothing is shared but *)
(* the outer query by D and the original join, and CTEs differ in name.    *)
(***************************************************************************)
THEOREM UnnestForest == UnnestSpec => []TreesKept
<1>1. UInv => TreesKept
    BY DEF UInv
<1> QED BY <1>1, UnnestInvariance, PTL

(***************************************************************************)
(* ... and no step loses a node of the query or of a CTE, but decoupling:  *)
(* D, the dependent join and the selections whose predicates are x = x.    *)
(***************************************************************************)
THEOREM UnnestKeepsNodes == UnnestSpec => OthersKept
<1>1. UInv /\ [UnnestSubqueries]_unnesting => [TakenOnPurpose]_unnesting
    BY UnnestStep
<1>2. UnnestSpec => [][TakenOnPurpose]_unnesting
    BY <1>1, UnnestInvariance, PTL DEF UnnestSpec
<1> QED BY <1>2 DEF OthersKept

(***************************************************************************)
(* push_down_dep_join: every round in which it finds a case to apply takes *)
(* the node it passes out from below the dependent join and puts none      *)
(* there, so that the while loop around it makes no more such rounds than  *)
(* there are nodes below the join.                                         *)
(***************************************************************************)
THEOREM UnnestGetsLower == UnnestSpec => AlwaysLower
<1>1. ASSUME UInv, UnnestSubqueries
      PROVE  GetsLower \/ UNCHANGED unnesting
  <2>1. CASE PushThroughNode \/ PushThroughJoin
    BY <1>1, <2>1, PushThroughNodeInv, PushThroughJoinInv
  <2>2. CASE PushNowhere
    BY <2>2 DEF PushNowhere
  <2>3. CASE PushedDown
    <3>1. status' = "nullptr" \/ pc' \in {"decouple", "outer"}
        BY <2>3 DEF PushedDown, Stops
    <3> QED BY <3>1 DEF GetsLower
  <2>4. CASE FindScalarMarkers \/ IntroduceD \/ Decouple \/ MoveOuterToCte \/ Unnested
    <3>1. pc # "push_down"
        BY <2>4 DEF FindScalarMarkers, IntroduceD, Decouple, MoveOuterToCte, Unnested, At
    <3> QED BY <3>1 DEF GetsLower
  <2> QED BY <1>1, <2>1, <2>2, <2>3, <2>4 DEF UnnestSubqueries
<1>2. UInv /\ [UnnestSubqueries]_unnesting => [GetsLower]_unnesting
    BY <1>1
<1>3. UnnestSpec => [][GetsLower]_unnesting
    BY <1>2, UnnestInvariance, PTL DEF UnnestSpec
<1> QED BY <1>3 DEF AlwaysLower

(***************************************************************************)
(* optimize calls decorrelate_all_exists_in_subqueries first: whenever it  *)
(* returns, trees and names are as general_query_unnesting needs them.     *)
(***************************************************************************)
THEOREM TreesHandedOn == DecorrelateSpec => [](pc = "unnest" => TreesKept /\ CteNamesFree)
<1>1. ASSUME FInv, pc = "unnest"
      PROVE  TreesKept /\ CteNamesFree
  <2>1. Owned = ch /\ Kids = ch /\ ~Shared /\ AllTops = Tops(root, ctes)
    BY <1>1 DEF Owned, Kids, Shared, AllTops
  <2>2. ForestKept /\ CteNamesFree
    BY <1>1 DEF FInv
  <2> QED BY <1>1, <2>1, <2>2 DEF ForestKept, TreesKept, Decorrelating
<1>2. FInv => (pc = "unnest" => TreesKept /\ CteNamesFree)
    BY <1>1
<1> QED BY <1>2, DecorrelationInvariance, PTL

=============================================================================
