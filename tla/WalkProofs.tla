----------------------------- MODULE WalkProofs -----------------------------
(***************************************************************************)
(* Recursive walks over the tree, proved for every tree.  A walk such as   *)
(* get_relations_aliases is a recursive function on the nodes; what it     *)
(* returns can be reasoned about once its recursion is known to end.  It   *)
(* ends because the nodes form a tree (TreeGrounded), and then the         *)
(* function its definition stands for exists (WalkExists).                 *)
(***************************************************************************)
EXTENDS RaTree, FiniteSetTheorems, SequenceTheorems, WellFoundedInduction, TLAPS

(***************************************************************************)
(* Induction along down, from the bottom up: a set that holds an element   *)
(* as soon as it holds all those one step down holds the whole of D.       *)
(***************************************************************************)
Grounded(D, down) ==
    \A S \in SUBSET D : (\A n \in D : down[n] \subseteq S => n \in S) => S = D

(* X holds what is down from its members, and walk solves the recursion G on X *)
Solves(D, down, T, G, X, walk) ==
    /\ X \in SUBSET D /\ walk \in [D -> T]
    /\ \A n \in X : down[n] \subseteq X /\ walk[n] = G[n][walk]

(* What G makes of an element depends on the results one step down only *)
Local(D, down, T, G) ==
    /\ G \in [D -> [[D -> T] -> T]]
    /\ \A n \in D : \A f, g \in [D -> T] :
          (\A m \in down[n] : f[m] = g[m]) => G[n][f] = G[n][g]

(* Where two walks both solve the recursion they agree *)
LEMMA WalkUnique ==
    ASSUME NEW D, NEW down, Grounded(D, down), NEW T, NEW G, Local(D, down, T, G),
           NEW X, NEW f, Solves(D, down, T, G, X, f),
           NEW Y, NEW g, Solves(D, down, T, G, Y, g)
    PROVE  \A n \in X \cap Y : f[n] = g[n]
<1> DEFINE S == {n \in D : n \in X \cap Y => f[n] = g[n]}
<1>1. ASSUME NEW n \in D, down[n] \subseteq S
      PROVE  n \in S
  <2> SUFFICES ASSUME n \in X \cap Y
               PROVE  f[n] = g[n]
    OBVIOUS
  <2>1. f \in [D -> T] /\ g \in [D -> T]
    BY DEF Solves
  <2>2. \A m \in down[n] : m \in X \cap Y
    BY DEF Solves
  <2>3. \A m \in down[n] : f[m] = g[m]
    BY <1>1, <2>2
  <2>4. G[n][f] = G[n][g]
    BY <2>1, <2>3, Zenon DEF Local
  <2> QED BY <2>4 DEF Solves
<1>2. S = D
    BY <1>1 DEF Grounded
<1> QED BY <1>2 DEF Solves

(***************************************************************************)
(* A recursion along down has a solution on all of D: the partial          *)
(* solutions agree and are put together, element by element.               *)
(***************************************************************************)
LEMMA WalkExists ==
    ASSUME NEW D, NEW down, down \in [D -> SUBSET D], Grounded(D, down), NEW T, NEW default, default \in T,
           NEW G, Local(D, down, T, G)
    PROVE  \E walk : Solves(D, down, T, G, D, walk)
<1> DEFINE Solution(X, f) == Solves(D, down, T, G, X, f)
           S == {n \in D : \E X \in SUBSET D, f \in [D -> T] : n \in X /\ Solution(X, f)}
           Value(n, v) == \E X \in SUBSET D, f \in [D -> T] :
                             n \in X /\ Solution(X, f) /\ v = f[n]
           h == [n \in D |-> IF n \in S THEN CHOOSE v \in T : Value(n, v) ELSE default]
<1>1. \A n \in S : \E v \in T : Value(n, v)
    BY DEF Solves
<1>2. h \in [D -> T] /\ \A n \in S : Value(n, h[n])
    BY <1>1
<1>3. ASSUME NEW X \in SUBSET D, NEW f \in [D -> T], Solution(X, f), NEW n \in X
      PROVE  n \in S /\ h[n] = f[n]
  <2>1. n \in S
    BY <1>3
  <2>2. PICK Y \in SUBSET D, g \in [D -> T] : n \in Y /\ Solution(Y, g) /\ h[n] = g[n]
    BY <1>2, <2>1
  <2>3. f[n] = g[n]
    <3>1. Solves(D, down, T, G, X, f) /\ Solves(D, down, T, G, Y, g)
        BY <1>3, <2>2
    <3> HIDE DEF S, Solution, Value, h
    <3> QED BY <3>1, <2>2, WalkUnique
  <2> QED BY <2>1, <2>2, <2>3
<1> HIDE DEF h
<1>4. Solution(S, h)
  <2>1. ASSUME NEW n \in S
        PROVE  down[n] \subseteq S /\ h[n] = G[n][h]
    <3>1. PICK X \in SUBSET D, f \in [D -> T] : n \in X /\ Solution(X, f)
        OBVIOUS
    <3>2. \A m \in X : m \in S /\ h[m] = f[m]
        BY <3>1, <1>3
    <3>3. down[n] \subseteq X /\ f[n] = G[n][f]
        BY <3>1 DEF Solves
    <3>4. G[n][f] = G[n][h]
        BY <3>2, <3>3, <1>2, Zenon DEF Local
    <3> QED BY <3>1, <3>2, <3>3, <3>4
  <2> QED BY <1>2, <2>1 DEF Solves
<1>5. ASSUME NEW n \in D, down[n] \subseteq S, n \notin S
      PROVE  FALSE
  <2> DEFINE f == [h EXCEPT ![n] = G[n][h]]
  <2>1. f \in [D -> T]
    BY <1>2 DEF Local
  <2>2. f[n] = G[n][h] /\ \A m \in S : f[m] = h[m]
    BY <1>2, <1>5
  <2> HIDE DEF f
  <2>3. ASSUME NEW m \in S \cup {n}
        PROVE  down[m] \subseteq S \cup {n} /\ f[m] = G[m][f]
    <3>1. down[m] \subseteq S
        BY <1>4, <1>5 DEF Solves
    <3>2. G[m][h] = G[m][f]
      <4>1. \A c \in down[m] : h[c] = f[c]
        BY <3>1, <2>2
      <4>2. m \in D
        OBVIOUS
      <4> QED BY <4>1, <4>2, <2>1, <1>2, Zenon DEF Local
    <3> QED BY <3>1, <3>2, <2>2, <1>4 DEF Solves
  <2>4. Solution(S \cup {n}, f)
    BY <2>1, <2>3 DEF Solves
  <2>5. n \in S
    BY <2>1, <2>4
  <2> QED BY <2>5, <1>5
<1>6. S = D
    BY <1>5 DEF Grounded
<1>7. Solves(D, down, T, G, S, h)
    BY <1>4
<1> HIDE DEF S
<1> QED BY <1>6, <1>7

-----------------------------------------------------------------------------
(* Trees *)

Down(ch) == [n \in Node |-> Children(ch, n)]

LEMMA DownTypes ==
    ASSUME NEW ch \in [Node -> Seq(Node)]
    PROVE  Down(ch) \in [Node -> SUBSET Node]
BY DEF Down, Children

(* S holds the children of its members *)
Closed(ch, S) == \A n \in S : Children(ch, n) \subseteq S

(***************************************************************************)
(* Nodes F that hang below some tops are grounded: no walk from a node to  *)
(* its children goes on forever.  Otherwise every node of some set Q has a *)
(* child in Q; as Q is finite and no node has two parents, every node of Q *)
(* would be such a child, and Q would be cut off from the tops.            *)
(***************************************************************************)
LEMMA HangingGrounded ==
    ASSUME NEW ch \in [Node -> Seq(Node)], NEW tops, NEW F,
           \A p, q \in Node : \A c \in Children(ch, p) \cap Children(ch, q) : p = q,
           \A p \in Node : Children(ch, p) \cap tops = {} /\ Children(ch, p) \subseteq F,
           \A p \in Node : ch[p] # <<>> => p \in F,
           \A S \in SUBSET F : tops \subseteq S /\ Closed(ch, S) => S = F,
           tops \subseteq F, F \subseteq Node
    PROVE  Grounded(Node, Down(ch))
<1> SUFFICES ASSUME NEW S \in SUBSET Node,
                    \A n \in Node : Children(ch, n) \subseteq S => n \in S,
                    S # Node
             PROVE  FALSE
    BY DEF Grounded, Down
<1> DEFINE Q == Node \ S
           child == [q \in Q |-> CHOOSE c \in Q : c \in Children(ch, q)]
<1>1. \A n \in Node : Children(ch, n) \subseteq Node
    BY DEF Children
<1>2. \A q \in Q : \E c \in Q : c \in Children(ch, q)
    BY <1>1
<1>3. child \in [Q -> Q] /\ \A q \in Q : child[q] \in Children(ch, q)
    BY <1>2
<1> HIDE DEF child
<1>4. child \in Injection(Q, Q)
    BY <1>3 DEF Injection, IsInjective
<1>5. IsFiniteSet(Q)
  <2>1. IsFiniteSet(Node)
    BY FS_Interval, MaxNodesAssumption DEF Node
  <2> QED BY <2>1, FS_Subset
<1>6. child \in Surjection(Q, Q)
    BY <1>4, <1>5, FS_Injection
<1>7. \A c \in Q : \E q \in Q : c \in Children(ch, q)
    BY <1>3, <1>6 DEF Surjection
<1>8. Closed(ch, F \ Q)
    BY <1>7 DEF Closed
<1>9. tops \subseteq F \ Q
    BY <1>7
<1>10. F \ Q = F
    BY <1>8, <1>9
<1>11. \A q \in Q : q \in F
    BY <1>2 DEF Children
<1> QED BY <1>10, <1>11

(* A tree in one piece is grounded *)
LEMMA TreeGrounded ==
    ASSUME NEW node, NEW ch \in [Node -> Seq(Node)], NEW root \in Node,
           IsTree(node, ch, root), IsConnected(ch, root)
    PROVE  Grounded(Node, Down(ch))
<1> DEFINE tree == {n \in Node : InTree(ch, root, n)}
           tops == {root}
<1>1. \A p, q \in Node : \A c \in Children(ch, p) \cap Children(ch, q) : p = q
    BY DEF IsTree, Children
<1>2. \A p \in Node : Children(ch, p) \subseteq Node
    BY DEF Children
<1>3. \A p \in Node : Children(ch, p) \cap tops = {} /\ Children(ch, p) \subseteq tree
    BY <1>2 DEF IsTree, InTree
<1>4. \A p \in Node : ch[p] # <<>> => p \in tree
    BY DEF IsTree
<1>5. \A S \in SUBSET tree : tops \subseteq S /\ Closed(ch, S) => S = tree
    BY DEF IsConnected, Closed
<1>6. tops \subseteq tree /\ tree \subseteq Node
    BY DEF InTree
<1> HIDE DEF tree, tops
<1> QED BY <1>1, <1>3, <1>4, <1>5, <1>6, HangingGrounded

-----------------------------------------------------------------------------
(* get_relations_aliases *)

(* Pairs of the names that labels give to relations and subqueries *)
Pairs(node) ==
    LET names == UNION {{NoName, node[n].name, node[n].alias, MarkerName(node[n].marker)} : n \in Node}
    IN  names \X names

(* What get_relations_aliases does at each node *)
VisibleStep(node, ch) ==
    [n \in Node |-> [v \in [Node -> SUBSET Pairs(node)] |-> Visible(node, ch, v, n)]]

(* It yields such pairs, and looks at the node and its children only *)
LEMMA VisibleLocal ==
    ASSUME NEW node, NEW ch \in [Node -> Seq(Node)]
    PROVE  Local(Node, Down(ch), SUBSET Pairs(node), VisibleStep(node, ch))
<1> DEFINE T == SUBSET Pairs(node)
<1>1. ASSUME NEW n \in Node, NEW v \in [Node -> T]
      PROVE  Visible(node, ch, v, n) \in T
  <2>1. \A i \in DOMAIN ch[n] : ch[n][i] \in Node
    OBVIOUS
  <2>2. \A i \in DOMAIN ch[n] : v[ch[n][i]] \in SUBSET Pairs(node)
    BY <2>1
  <2>3. \A I : UNION {v[ch[n][i]] : i \in I \cap DOMAIN ch[n]} \in SUBSET Pairs(node)
    BY <2>2
  <2>4. /\ <<NoName, node[n].alias>> \in Pairs(node)
        /\ <<node[n].name, node[n].alias>> \in Pairs(node)
        /\ <<NoName, MarkerName(node[n].marker)>> \in Pairs(node)
    BY DEF Pairs
  <2> QED BY <2>3, <2>4 DEF Visible
<1>2. ASSUME NEW n \in Node, NEW v, NEW w, \A m \in Children(ch, n) : v[m] = w[m]
      PROVE  Visible(node, ch, v, n) = Visible(node, ch, w, n)
  <2>1. \A i \in DOMAIN ch[n] : v[ch[n][i]] = w[ch[n][i]]
    BY <1>2 DEF Children
  <2>2. \A I : {v[ch[n][i]] : i \in I \cap DOMAIN ch[n]} = {w[ch[n][i]] : i \in I \cap DOMAIN ch[n]}
    BY <2>1
  <2> QED BY <2>2 DEF Visible
<1> QED BY <1>1, <1>2 DEF Local, VisibleStep, Down

(* The recursion of get_relations_aliases ends: it returns what its body says *)
LEMMA VisibleUnfolds ==
    ASSUME NEW node, NEW ch \in [Node -> Seq(Node)], Grounded(Node, Down(ch))
    PROVE  \E visible :
               \A n \in Node : /\ get_relations_aliases(node, ch, n) = visible[n]
                              /\ visible[n] = Visible(node, ch, visible, n)
<1> DEFINE T == SUBSET Pairs(node)
           visible == CHOOSE f : f = [n \in Node |-> Visible(node, ch, f, n)]
<1>1. {} \in T /\ Local(Node, Down(ch), T, VisibleStep(node, ch))
    BY VisibleLocal
<1> HIDE DEF T
<1>2. PICK walk : Solves(Node, Down(ch), T, VisibleStep(node, ch), Node, walk)
    BY <1>1, DownTypes, WalkExists
<1> USE DEF T
<1>3. \A n \in Node : walk[n] = Visible(node, ch, walk, n)
    BY <1>2 DEF VisibleStep, Solves
<1>4. walk = [n \in Node |-> Visible(node, ch, walk, n)]
    BY <1>2, <1>3 DEF Solves
<1>5. visible = [n \in Node |-> Visible(node, ch, visible, n)]
    BY <1>4
<1>6. \A n \in Node : get_relations_aliases(node, ch, n) = visible[n]
    BY DEF get_relations_aliases
<1> HIDE DEF visible
<1>7. \A n \in Node : visible[n] = Visible(node, ch, visible, n)
    BY <1>5
<1> QED BY <1>6, <1>7

(* Some pair visible above x has the name r *)
Covers(node, ch, x, r) == \E d \in get_relations_aliases(node, ch, x) : r = d[1] \/ r = d[2]

(* has_relations_defined looks up one name after the other *)
LEMMA DefinedCovers ==
    ASSUME NEW node, NEW ch, NEW x, NEW relations
    PROVE  has_relations_defined(node, ch, x, relations) <=> \A r \in relations : Covers(node, ch, x, r)
BY DEF has_relations_defined, Covers

(* The join of a WHERE subquery adds its marker to what its left side shows *)
LEMMA JoinShows ==
    ASSUME NEW node, NEW ch \in [Node -> Seq(Node)], Grounded(Node, Down(ch)), NEW x \in Node,
           node[x].node_case = "JOIN", node[x].alias = NoName, node[x].marker # 0,
           1 \in DOMAIN ch[x], NEW r
    PROVE  Covers(node, ch, x, r) <=> \/ r = NoName \/ r = MarkerName(node[x].marker)
                                      \/ Covers(node, ch, ch[x][1], r)
<1>1. PICK v : \A n \in Node : /\ get_relations_aliases(node, ch, n) = v[n]
                              /\ v[n] = Visible(node, ch, v, n)
    BY VisibleUnfolds
<1>2. ch[x][1] \in Node
    OBVIOUS
<1>3. v[x] = {<<NoName, MarkerName(node[x].marker)>>} \cup UNION {v[ch[x][i]] : i \in {1} \cap DOMAIN ch[x]}
    BY <1>1 DEF Visible
<1>4. PICK pair : pair = <<NoName, MarkerName(node[x].marker)>>
    OBVIOUS
<1>5. pair[1] = NoName /\ pair[2] = MarkerName(node[x].marker)
    BY <1>4
<1>6. \A d : d \in v[x] <=> d = pair \/ d \in v[ch[x][1]]
    BY <1>3, <1>4
<1>7. (\E d \in v[x] : r = d[1] \/ r = d[2]) <=>
        \/ r = pair[1] \/ r = pair[2] \/ \E d \in v[ch[x][1]] : r = d[1] \/ r = d[2]
    BY <1>6, Zenon
<1>8. v[x] = get_relations_aliases(node, ch, x) /\ v[ch[x][1]] = get_relations_aliases(node, ch, ch[x][1])
    BY <1>1, <1>2
<1> QED BY <1>5, <1>7, <1>8 DEF Covers

(* Where a marker comes into sight: at the join that carries it *)
LEMMA MarkerJoin ==
    ASSUME NEW node, NEW ch \in [Node -> Seq(Node)], Grounded(Node, Down(ch)), NEW x \in Node,
           node[x].name[1] # "marker_", node[x].alias[1] # "marker_", NEW k,
           Covers(node, ch, x, MarkerName(k)),
           \A i \in DOMAIN ch[x] : ~Covers(node, ch, ch[x][i], MarkerName(k))
    PROVE  /\ node[x].node_case = "JOIN" /\ node[x].alias = NoName
           /\ node[x].marker # 0 /\ node[x].marker = k
<1>1. PICK v : \A n \in Node : /\ get_relations_aliases(node, ch, n) = v[n]
                              /\ v[n] = Visible(node, ch, v, n)
    BY VisibleUnfolds
<1>2. PICK r : r = MarkerName(k)
    OBVIOUS
<1>3. \A i \in DOMAIN ch[x] : ch[x][i] \in Node
    OBVIOUS
<1>4. PICK d \in v[x] : r = d[1] \/ r = d[2]
    BY <1>1, <1>2 DEF Covers
<1>5. \A i \in DOMAIN ch[x] : d \notin v[ch[x][i]]
    BY <1>1, <1>2, <1>3, <1>4 DEF Covers
<1>6. \A I : d \notin UNION {v[ch[x][i]] : i \in I \cap DOMAIN ch[x]}
    BY <1>5
<1>7. r # NoName /\ r # node[x].alias /\ r # node[x].name
    BY <1>2 DEF NoName, MarkerName
<1>8. d # <<NoName, node[x].alias>> /\ d # <<node[x].name, node[x].alias>>
    BY <1>4, <1>7
<1>9. d \in Visible(node, ch, v, x)
    BY <1>1, <1>4
<1>10. /\ node[x].node_case = "JOIN" /\ node[x].alias = NoName /\ node[x].marker # 0
       /\ d = <<NoName, MarkerName(node[x].marker)>>
    BY <1>6, <1>8, <1>9 DEF Visible
<1>11. MarkerName(node[x].marker) = MarkerName(k)
    BY <1>2, <1>4, <1>7, <1>10
<1> QED BY <1>10, <1>11 DEF MarkerName

(***************************************************************************)
(* The join that carries a marker is above all others that see it: below   *)
(* the join the marker is not visible.  If a child saw it, every node that *)
(* sees it would have a child that does, and the walk would not end.       *)
(***************************************************************************)
LEMMA MarkerNotBelow ==
    ASSUME NEW node, NEW ch \in [Node -> Seq(Node)], Grounded(Node, Down(ch)), NEW j \in Node,
           \A n \in Node : node[n].name[1] # "marker_" /\ node[n].alias[1] # "marker_",
           \A n \in {m \in Node : node[m].node_case = "JOIN" /\ node[m].marker # 0} :
               node[n].marker = node[j].marker => n = j,
           NEW i \in DOMAIN ch[j]
    PROVE  ~Covers(node, ch, ch[j][i], MarkerName(node[j].marker))
<1> DEFINE k == node[j].marker
           S == {n \in Node : ~Covers(node, ch, n, MarkerName(k))}
<1> SUFFICES ASSUME Covers(node, ch, ch[j][i], MarkerName(k))
             PROVE  FALSE
    OBVIOUS
<1>1. ASSUME NEW n \in Node, Children(ch, n) \subseteq S, n \notin S
      PROVE  FALSE
  <2>1. \A m \in DOMAIN ch[n] : ~Covers(node, ch, ch[n][m], MarkerName(k))
    BY <1>1 DEF Children
  <2>2. node[n].node_case = "JOIN" /\ node[n].marker # 0 /\ node[n].marker = k
    <3>1. Covers(node, ch, n, MarkerName(k)) /\ node[n].name[1] # "marker_" /\ node[n].alias[1] # "marker_"
        BY <1>1
    <3> HIDE DEF k, S
    <3> QED BY <2>1, <3>1, MarkerJoin, SMTT(20)
  <2>3. n = j
    BY <2>2
  <2> QED BY <2>1, <2>3
<1>2. S = Node
    BY <1>1 DEF Grounded, Down
<1>3. ch[j][i] \in S
    BY <1>2
<1> QED BY <1>3

(* What get_relations_aliases looks at in a label *)
SameNames(label1, label2) ==
    /\ label1.node_case = label2.node_case /\ label1.name = label2.name
    /\ label1.alias = label2.alias /\ label1.marker = label2.marker

SameAt(node1, ch1, v1, node2, ch2, v2, n) ==
    /\ SameNames(node1[n], node2[n]) /\ DOMAIN ch1[n] = DOMAIN ch2[n]
    /\ \A i \in DOMAIN ch2[n] : v1[ch1[n][i]] = v2[ch2[n][i]]

(* Nodes that agree in it, above children that show the same, show the same *)
LEMMA VisibleSame ==
    ASSUME NEW node1, NEW ch1, NEW v1, NEW node2, NEW ch2, NEW v2, NEW n,
           SameAt(node1, ch1, v1, node2, ch2, v2, n)
    PROVE  Visible(node1, ch1, v1, n) = Visible(node2, ch2, v2, n)
<1>1. \A I : {v1[ch1[n][i]] : i \in I \cap DOMAIN ch1[n]} = {v2[ch2[n][i]] : i \in I \cap DOMAIN ch2[n]}
    BY DEF SameAt
<1> QED BY <1>1 DEF Visible, SameNames, SameAt

(* Labels that agree in it make the same visible everywhere *)
LEMMA VisibleByNames ==
    ASSUME NEW ch \in [Node -> Seq(Node)], Grounded(Node, Down(ch)), NEW node1, NEW node2,
           \A n \in Node : SameNames(node1[n], node2[n])
    PROVE  \A n \in Node : get_relations_aliases(node1, ch, n) = get_relations_aliases(node2, ch, n)
<1>1. PICK v1 : \A n \in Node : /\ get_relations_aliases(node1, ch, n) = v1[n]
                               /\ v1[n] = Visible(node1, ch, v1, n)
    BY VisibleUnfolds
<1>2. PICK v2 : \A n \in Node : /\ get_relations_aliases(node2, ch, n) = v2[n]
                               /\ v2[n] = Visible(node2, ch, v2, n)
    BY VisibleUnfolds
<1> DEFINE S == {n \in Node : v1[n] = v2[n]}
<1>3. ASSUME NEW n \in Node, Children(ch, n) \subseteq S
      PROVE  n \in S
  <2>1. SameAt(node1, ch, v1, node2, ch, v2, n)
    BY <1>3 DEF SameAt, Children
  <2>2. Visible(node1, ch, v1, n) = Visible(node2, ch, v2, n)
    BY <2>1, VisibleSame
  <2> QED BY <2>2, <1>1, <1>2
<1>4. S = Node
    BY <1>3 DEF Grounded, Down
<1> QED BY <1>1, <1>2, <1>4

(* The tree 2 is the tree 1 with a selection s put in above y *)
Interposed(node1, ch1, node2, ch2, s, y) ==
    /\ s \in Node /\ y \in Node /\ y # s
    /\ node2[s].node_case = "SELECTION" /\ DOMAIN ch2[s] = {1} /\ ch2[s][1] = y
    /\ \A n \in Node : n # s =>
          /\ SameNames(node1[n], node2[n])
          /\ DOMAIN ch1[n] = DOMAIN ch2[n]
          /\ \A i \in DOMAIN ch2[n] : ch1[n][i] = IF ch2[n][i] = s THEN y ELSE ch2[n][i]

(***************************************************************************)
(* A selection hides nothing: what predicates can refer to is the same at  *)
(* every node with and without it, and above it the same as below it.      *)
(***************************************************************************)
LEMMA SelectionTransparent ==
    ASSUME NEW node1, NEW ch1 \in [Node -> Seq(Node)], Grounded(Node, Down(ch1)),
           NEW node2, NEW ch2 \in [Node -> Seq(Node)], Grounded(Node, Down(ch2)),
           NEW s, NEW y, Interposed(node1, ch1, node2, ch2, s, y)
    PROVE  /\ get_relations_aliases(node2, ch2, s) = get_relations_aliases(node2, ch2, y)
           /\ \A n \in Node : n # s =>
                 get_relations_aliases(node2, ch2, n) = get_relations_aliases(node1, ch1, n)
<1>1. PICK v1 : \A n \in Node : /\ get_relations_aliases(node1, ch1, n) = v1[n]
                               /\ v1[n] = Visible(node1, ch1, v1, n)
    BY VisibleUnfolds
<1>2. PICK v2 : \A n \in Node : /\ get_relations_aliases(node2, ch2, n) = v2[n]
                               /\ v2[n] = Visible(node2, ch2, v2, n)
    BY VisibleUnfolds
<1>3. s \in Node /\ y \in Node /\ y # s
    BY DEF Interposed
<1>4. v2[s] = v2[y]
  <2>1. v2[s] = UNION {v2[ch2[s][i]] : i \in DOMAIN ch2[s] \cap DOMAIN ch2[s]}
    BY <1>2, <1>3 DEF Interposed, Visible
  <2>2. DOMAIN ch2[s] = {1} /\ ch2[s][1] = y
    BY DEF Interposed
  <2> QED BY <2>1, <2>2
<1> DEFINE S == {n \in Node : v2[n] = v1[IF n = s THEN y ELSE n]}
<1>5. ASSUME NEW n \in Node, Children(ch2, n) \subseteq S
      PROVE  n \in S
  <2>1. CASE n = s
    <3>1. y \in S
        BY <2>1, <1>5 DEF Interposed, Children
    <3> QED BY <3>1, <2>1, <1>3, <1>4
  <2>2. CASE n # s
    <3>1. \A i \in DOMAIN ch2[n] : ch2[n][i] \in S
        BY <1>5 DEF Children
    <3>2. \A i \in DOMAIN ch2[n] : ch1[n][i] = IF ch2[n][i] = s THEN y ELSE ch2[n][i]
        BY <2>2 DEF Interposed
    <3>3. \A i \in DOMAIN ch2[n] : v1[ch1[n][i]] = v2[ch2[n][i]]
        BY <3>1, <3>2
    <3>4. SameAt(node1, ch1, v1, node2, ch2, v2, n)
        BY <2>2, <3>3 DEF Interposed, SameAt
    <3>5. Visible(node1, ch1, v1, n) = Visible(node2, ch2, v2, n)
        BY <3>4, VisibleSame
    <3> QED BY <3>5, <1>1, <1>2, <2>2
  <2> QED BY <2>1, <2>2
<1>6. S = Node
    BY <1>5 DEF Grounded, Down
<1>7. \A n \in Node : n # s => v2[n] = v1[n]
    BY <1>6
<1> QED BY <1>1, <1>2, <1>3, <1>4, <1>7

-----------------------------------------------------------------------------
(* Predicates and expressions *)

TermDown(term) ==
    [t \in DOMAIN term |-> {term[t].args[i] : i \in DOMAIN term[t].args}]

(* Walks over a term end: the least term outside of S would be in S *)
LEMMA TermsGrounded ==
    ASSUME NEW term, TermsOrdered(term)
    PROVE  /\ TermDown(term) \in [DOMAIN term -> SUBSET DOMAIN term]
           /\ Grounded(DOMAIN term, TermDown(term))
<1>1. TermDown(term) \in [DOMAIN term -> SUBSET DOMAIN term]
    BY DEF TermsOrdered, TermDown
<1>2. ASSUME NEW S \in SUBSET DOMAIN term,
             \A t \in DOMAIN term : TermDown(term)[t] \subseteq S => t \in S,
             S # DOMAIN term
      PROVE  FALSE
  <2> DEFINE Q == DOMAIN term \ S
  <2>1. Q \subseteq Nat /\ Q # {}
    BY <1>2 DEF TermsOrdered
  <2>2. PICK t \in Q : \A u \in Q : ~(<<u, t>> \in OpToRel(<, Nat))
    BY <2>1, NatLessThanWellFounded, WFMin
  <2>3. \A u \in Q : ~(u < t)
    BY <2>1, <2>2 DEF OpToRel
  <2>4. TermDown(term)[t] \subseteq S
    BY <2>3 DEF TermsOrdered, TermDown
  <2> QED BY <2>2, <2>4, <1>2
<1> QED BY <1>1, <1>2 DEF Grounded

(* A subquery marker needs the join of its subquery and nothing else *)
LEMMA MarkerNeeds ==
    ASSUME NEW term, TermsOrdered(term), NEW t \in DOMAIN term, term[t].op = "marker"
    PROVE  get_predicate_relations(term, t) = {MarkerName(term[t].id)}
<1> DEFINE D == DOMAIN term
           names == UNION {{get_relation_from_attribute(term[u]), MarkerName(term[u].id)} : u \in D}
           T == SUBSET names
           G == [u \in D |-> [r \in [D -> T] |-> Relations(term, r, u)]]
           relations == CHOOSE f : f = [u \in D |-> Relations(term, f, u)]
<1>1. ASSUME NEW u \in D, NEW r \in [D -> T]
      PROVE  Relations(term, r, u) \in T
  <2>1. \A i \in DOMAIN term[u].args : r[term[u].args[i]] \in SUBSET names
    BY DEF TermsOrdered
  <2>2. get_relation_from_attribute(term[u]) \in names /\ MarkerName(term[u].id) \in names
    OBVIOUS
  <2> HIDE DEF names
  <2> QED BY <2>1, <2>2 DEF Relations
<1>2. ASSUME NEW u \in D, NEW r, NEW q, \A m \in TermDown(term)[u] : r[m] = q[m]
      PROVE  Relations(term, r, u) = Relations(term, q, u)
  <2>1. \A i \in DOMAIN term[u].args : r[term[u].args[i]] = q[term[u].args[i]]
    BY <1>2 DEF TermDown
  <2>2. {r[term[u].args[i]] : i \in DOMAIN term[u].args} = {q[term[u].args[i]] : i \in DOMAIN term[u].args}
    BY <2>1
  <2> QED BY <2>2 DEF Relations
<1>3. {} \in T /\ Local(D, TermDown(term), T, G)
    BY <1>1, <1>2 DEF Local
<1>4. TermDown(term) \in [D -> SUBSET D] /\ Grounded(D, TermDown(term))
    BY TermsGrounded
<1>5. PICK walk : Solves(D, TermDown(term), T, G, D, walk)
  <2> HIDE DEF D, T, G
  <2> QED BY <1>3, <1>4, WalkExists
<1>6. \A u \in D : walk[u] = Relations(term, walk, u)
    BY <1>5 DEF Solves
<1>7. walk = [u \in D |-> Relations(term, walk, u)]
    BY <1>5, <1>6 DEF Solves
<1>8. relations = [u \in D |-> Relations(term, relations, u)]
    BY <1>7
<1>9. get_predicate_relations(term, t) = relations[t]
    BY DEF get_predicate_relations
<1> HIDE DEF relations
<1>10. relations[t] = Relations(term, relations, t)
    BY <1>8
<1> QED BY <1>9, <1>10 DEF Relations

(* ... and contains a subquery *)
LEMMA MarkerContains ==
    ASSUME NEW term, TermsOrdered(term), NEW t \in DOMAIN term, term[t].op = "marker"
    PROVE  predicate_contains_subquery(term, t)
<1> DEFINE D == DOMAIN term
           G == [u \in D |-> [c \in [D -> BOOLEAN] |-> ContainsSubquery(term, c, u)]]
           contains == CHOOSE f : f = [u \in D |-> ContainsSubquery(term, f, u)]
<1>1. ASSUME NEW u \in D, NEW c
      PROVE  ContainsSubquery(term, c, u) \in BOOLEAN
    BY Zenon DEF ContainsSubquery
<1>2. ASSUME NEW u \in D, NEW c, NEW d, \A m \in TermDown(term)[u] : c[m] = d[m]
      PROVE  ContainsSubquery(term, c, u) = ContainsSubquery(term, d, u)
  <2>1. \A i \in DOMAIN term[u].args : c[term[u].args[i]] = d[term[u].args[i]]
    BY <1>2 DEF TermDown
  <2> QED BY <2>1 DEF ContainsSubquery
<1>3. TRUE \in BOOLEAN /\ Local(D, TermDown(term), BOOLEAN, G)
    BY <1>1, <1>2 DEF Local
<1>4. TermDown(term) \in [D -> SUBSET D] /\ Grounded(D, TermDown(term))
    BY TermsGrounded
<1>5. PICK walk : Solves(D, TermDown(term), BOOLEAN, G, D, walk)
  <2> HIDE DEF D, G
  <2> QED BY <1>3, <1>4, WalkExists
<1>6. \A u \in D : walk[u] = ContainsSubquery(term, walk, u)
    BY <1>5 DEF Solves
<1>7. walk = [u \in D |-> ContainsSubquery(term, walk, u)]
    BY <1>5, <1>6 DEF Solves
<1>8. contains = [u \in D |-> ContainsSubquery(term, contains, u)]
    BY <1>7
<1>9. predicate_contains_subquery(term, t) = contains[t]
    BY DEF predicate_contains_subquery
<1> HIDE DEF contains
<1>10. contains[t] = ContainsSubquery(term, contains, t)
    BY <1>8
<1> QED BY <1>9, <1>10 DEF ContainsSubquery

-----------------------------------------------------------------------------
(* Lists *)

(* The least member of a set of numbers *)
LEMMA LeastNat ==
    ASSUME NEW Q \in SUBSET Nat, Q # {}
    PROVE  \E q \in Q : \A r \in Q : q <= r
<1>1. PICK q \in Q : \A r \in Q : ~(<<r, q>> \in OpToRel(<, Nat))
    BY NatLessThanWellFounded, WFMin
<1>2. \A r \in Q : ~(r < q)
    BY <1>1 DEF OpToRel
<1> QED BY <1>2

(* Each number of 0 .. n rests on the one before *)
Before(n) == [i \in 0 .. n |-> IF i = 0 THEN {} ELSE {i - 1}]

LEMMA CountGrounded ==
    ASSUME NEW n \in Nat
    PROVE  Before(n) \in [0 .. n -> SUBSET (0 .. n)] /\ Grounded(0 .. n, Before(n))
<1>1. Before(n) \in [0 .. n -> SUBSET (0 .. n)]
    BY DEF Before
<1>2. ASSUME NEW S \in SUBSET (0 .. n), \A i \in 0 .. n : Before(n)[i] \subseteq S => i \in S,
             S # 0 .. n
      PROVE  FALSE
  <2> DEFINE Q == (0 .. n) \ S
  <2>1. PICK q \in Q : \A r \in Q : q <= r
    <3>1. \A i \in Q : i \in Nat
        OBVIOUS
    <3>2. Q # {}
        BY <1>2
    <3> HIDE DEF Q
    <3>3. Q \in SUBSET Nat
        BY <3>1
    <3> QED BY <3>2, <3>3, LeastNat
  <2>2. Before(n)[q] \subseteq S
    BY <2>1 DEF Before
  <2> QED BY <2>1, <2>2, <1>2
<1> QED BY <1>1, <1>2 DEF Grounded

(* All lists that s names are lists of members of T *)
ListsOf(f, s, T) == \A i \in DOMAIN s : f[s[i]] \in Seq(T)

(* The recursion of Joined ends *)
LEMMA JoinedUnfolds ==
    ASSUME NEW D, NEW s \in Seq(D), NEW f, NEW T, ListsOf(f, s, T)
    PROVE  \E upto : /\ Joined(f, s) = upto[Len(s)]
                     /\ \A i \in 0 .. Len(s) : upto[i] = JoinedUpTo(f, s, upto, i)
<1> DEFINE I == 0 .. Len(s)
           G == [i \in I |-> [u \in [I -> Seq(T)] |-> JoinedUpTo(f, s, u, i)]]
           upto == CHOOSE u : u = [i \in I |-> JoinedUpTo(f, s, u, i)]
<1>1. Len(s) \in Nat /\ DOMAIN s = 1 .. Len(s)
    BY LenProperties
<1>2. ASSUME NEW i \in I, NEW u \in [I -> Seq(T)]
      PROVE  JoinedUpTo(f, s, u, i) \in Seq(T)
  <2>1. CASE i = 0
    BY <2>1, EmptySeq DEF JoinedUpTo
  <2>2. CASE i # 0
    <3>1. i - 1 \in I /\ i \in DOMAIN s
        BY <1>1, <2>2
    <3>2. u[i - 1] \in Seq(T) /\ f[s[i]] \in Seq(T)
        BY <3>1 DEF ListsOf
    <3> QED BY <3>2, <2>2, ConcatProperties DEF JoinedUpTo
  <2> QED BY <2>1, <2>2
<1>3. ASSUME NEW i \in I, NEW u, NEW v, \A j \in Before(Len(s))[i] : u[j] = v[j]
      PROVE  JoinedUpTo(f, s, u, i) = JoinedUpTo(f, s, v, i)
    BY <1>1, <1>3 DEF Before, JoinedUpTo
<1>4. <<>> \in Seq(T) /\ Local(I, Before(Len(s)), Seq(T), G)
    BY <1>2, <1>3, EmptySeq DEF Local
<1>5. Before(Len(s)) \in [I -> SUBSET I] /\ Grounded(I, Before(Len(s)))
    BY <1>1, CountGrounded
<1>6. PICK walk : Solves(I, Before(Len(s)), Seq(T), G, I, walk)
  <2> HIDE DEF I, G
  <2> QED BY <1>4, <1>5, WalkExists
<1>7. \A i \in I : walk[i] = JoinedUpTo(f, s, walk, i)
    BY <1>6 DEF Solves
<1>8. walk = [i \in I |-> JoinedUpTo(f, s, walk, i)]
    BY <1>6, <1>7 DEF Solves
<1>9. upto = [i \in I |-> JoinedUpTo(f, s, upto, i)]
    BY <1>8
<1>10. Joined(f, s) = upto[Len(s)]
    BY DEF Joined
<1> HIDE DEF upto
<1>11. \A i \in I : upto[i] = JoinedUpTo(f, s, upto, i)
    BY <1>9
<1> QED BY <1>10, <1>11

(* Lists joined hold what the lists hold *)
LEMMA JoinedType ==
    ASSUME NEW D, NEW s \in Seq(D), NEW f, NEW T, ListsOf(f, s, T)
    PROVE  Joined(f, s) \in Seq(T)
<1>1. PICK upto : /\ Joined(f, s) = upto[Len(s)]
                  /\ \A i \in 0 .. Len(s) : upto[i] = JoinedUpTo(f, s, upto, i)
    BY JoinedUnfolds
<1>2. Len(s) \in Nat /\ DOMAIN s = 1 .. Len(s)
    BY LenProperties
<1> DEFINE S == {i \in 0 .. Len(s) : upto[i] \in Seq(T)}
<1>3. ASSUME NEW i \in 0 .. Len(s), Before(Len(s))[i] \subseteq S
      PROVE  i \in S
  <2>1. CASE i = 0
    BY <2>1, <1>1, EmptySeq DEF JoinedUpTo
  <2>2. CASE i # 0
    <3>1. i - 1 \in S /\ i \in DOMAIN s
        BY <1>2, <1>3, <2>2 DEF Before
    <3>2. upto[i - 1] \in Seq(T) /\ f[s[i]] \in Seq(T)
        BY <3>1 DEF ListsOf
    <3>3. upto[i] = upto[i - 1] \o f[s[i]]
        BY <1>1, <2>2 DEF JoinedUpTo
    <3> QED BY <3>2, <3>3, ConcatProperties
  <2> QED BY <2>1, <2>2
<1>4. S = 0 .. Len(s)
  <2>1. S \in SUBSET (0 .. Len(s))
    OBVIOUS
  <2> HIDE DEF S
  <2> QED BY <1>2, <1>3, <2>1, CountGrounded DEF Grounded
<1> QED BY <1>1, <1>2, <1>4

(* ... and depend on the lists of the members of s only *)
LEMMA JoinedLocal ==
    ASSUME NEW D, NEW s \in Seq(D), NEW f, NEW g, \A i \in DOMAIN s : f[s[i]] = g[s[i]]
    PROVE  Joined(f, s) = Joined(g, s)
<1>1. Len(s) \in Nat /\ DOMAIN s = 1 .. Len(s)
    BY LenProperties
<1>2. \A u : \A i \in 0 .. Len(s) : JoinedUpTo(f, s, u, i) = JoinedUpTo(g, s, u, i)
    BY <1>1 DEF JoinedUpTo
<1>3. \A u : [i \in 0 .. Len(s) |-> JoinedUpTo(f, s, u, i)] = [i \in 0 .. Len(s) |-> JoinedUpTo(g, s, u, i)]
    BY <1>2
<1> QED BY <1>3 DEF Joined

-----------------------------------------------------------------------------
(* Searches *)

(* A depth first search stays in every set that is closed under children *)
LEMMA PreorderIn ==
    ASSUME NEW ch \in [Node -> Seq(Node)], Grounded(Node, Down(ch)),
           NEW S \in SUBSET Node, Closed(ch, S), NEW x \in S
    PROVE  Preorder(ch, x) \in Seq(S)
<1> DEFINE Step(w, n) == <<n>> \o Joined(w, ch[n])
           T == Seq(Node)
           G == [n \in Node |-> [w \in [Node -> T] |-> Step(w, n)]]
           below == CHOOSE w : w = [n \in Node |-> Step(w, n)]
<1>1. \A n \in Node : ch[n] \in Seq(Node) /\ \A i \in DOMAIN ch[n] : ch[n][i] \in Children(ch, n) \cap Node
    BY DEF Children
<1>2. ASSUME NEW n \in Node, NEW w, NEW R, n \in R, \A m \in Children(ch, n) : w[m] \in Seq(R)
      PROVE  Step(w, n) \in Seq(R)
  <2>1. ListsOf(w, ch[n], R)
    BY <1>1, <1>2 DEF ListsOf
  <2>2. Joined(w, ch[n]) \in Seq(R)
    BY <1>1, <2>1, JoinedType
  <2>3. <<n>> \in Seq(R)
    BY <1>2
  <2> QED BY <2>2, <2>3, ConcatProperties
<1>3. ASSUME NEW n \in Node, NEW v, NEW w, \A m \in Children(ch, n) : v[m] = w[m]
      PROVE  Step(v, n) = Step(w, n)
  <2>1. \A i \in DOMAIN ch[n] : v[ch[n][i]] = w[ch[n][i]]
    BY <1>1, <1>3
  <2>2. Joined(v, ch[n]) = Joined(w, ch[n])
    BY <1>1, <2>1, JoinedLocal
  <2> QED BY <2>2
<1>4. \A n \in Node : \A w \in [Node -> T] : Step(w, n) \in T
  <2> SUFFICES ASSUME NEW n \in Node, NEW w \in [Node -> T]
               PROVE  Step(w, n) \in T
    OBVIOUS
  <2>1. \A m \in Children(ch, n) : w[m] \in Seq(Node)
    BY DEF Children
  <2> HIDE DEF Step
  <2> QED BY <2>1, <1>2
<1> HIDE DEF Step
<1>5. <<>> \in T /\ Local(Node, Down(ch), T, G)
    BY <1>3, <1>4 DEF Local, Down
<1>6. PICK walk : Solves(Node, Down(ch), T, G, Node, walk)
  <2> HIDE DEF T, G
  <2> QED BY <1>5, DownTypes, WalkExists
<1>7. \A n \in Node : walk[n] = Step(walk, n)
    BY <1>6 DEF Solves
<1>8. walk = [n \in Node |-> Step(walk, n)]
    BY <1>6, <1>7 DEF Solves
<1>9. below = [n \in Node |-> Step(below, n)]
    BY <1>8
<1>10. Preorder(ch, x) = below[x]
    BY DEF Preorder, Step
<1> HIDE DEF below
<1>11. \A n \in Node : below[n] = Step(below, n)
    BY <1>9
<1> DEFINE Q == {n \in Node : n \in S => below[n] \in Seq(S)}
<1>12. ASSUME NEW n \in Node, Children(ch, n) \subseteq Q
       PROVE  n \in Q
  <2> SUFFICES ASSUME n \in S
               PROVE  below[n] \in Seq(S)
    OBVIOUS
  <2>1. \A m \in Children(ch, n) : below[m] \in Seq(S)
    BY <1>12 DEF Closed
  <2> QED BY <2>1, <1>2, <1>11
<1>13. Q = Node
    BY <1>12 DEF Grounded, Down
<1> QED BY <1>10, <1>13

(* FirstNode finds one of the nodes it looks for, or none *)
LEMMA FirstNodeIn ==
    ASSUME NEW S, NEW nodes \in Seq(S), NEW A
    PROVE  FirstNode(nodes, A) = 0 \/ FirstNode(nodes, A) \in S \cap A
<1> DEFINE I == {i \in 1 .. Len(nodes) : nodes[i] \in A}
<1>1. Len(nodes) \in Nat /\ \A i \in 1 .. Len(nodes) : nodes[i] \in S
    BY LenProperties
<1>2. CASE I = {}
    BY <1>2 DEF FirstNode, SelectInSeq
<1>3. CASE I # {}
  <2>1. I \in SUBSET Nat
    BY <1>1
  <2>2. \E q \in I : \A r \in I : q <= r
    <3> HIDE DEF I
    <3> QED BY <2>1, <1>3, LeastNat
  <2>3. Min(I) \in I
    <3> HIDE DEF I
    <3> QED BY <2>2 DEF Min
  <2>4. FirstNode(nodes, A) = IF Min(I) = 0 THEN 0 ELSE nodes[Min(I)]
    BY <1>3 DEF FirstNode, SelectInSeq
  <2> HIDE DEF I
  <2>5. nodes[Min(I)] \in S \cap A
    BY <1>1, <2>3 DEF I
  <2> QED BY <2>4, <2>5
<1> QED BY <1>2, <1>3


(* find_subquery_markers finds a list of markers *)
LEMMA MarkersFound ==
    ASSUME NEW node, NEW term, TermsOrdered(term),
           \A t \in DOMAIN term : term[t].args \in Seq(DOMAIN term),
           NEW pred \in [Node -> Seq(DOMAIN term)],
           NEW nodes \in Seq(Node), NEW types
    PROVE  MarkersIn(node, pred, term, nodes, types) \in Seq({t \in DOMAIN term : term[t].op = "marker"})
<1> DEFINE D == DOMAIN term
           M == {t \in DOMAIN term : term[t].op = "marker"}
           T == Seq(M)
           G == [t \in D |-> [f \in [D -> T] |-> MarkersStep(term, types, f, t)]]
           found == CHOOSE f : f = [t \in D |-> MarkersStep(term, types, f, t)]
           inSelection == [n \in Node |-> IF node[n].node_case = "SELECTION"
                                          THEN Joined(found, pred[n]) ELSE <<>>]
<1>1. \A t \in D : \A i \in DOMAIN term[t].args : term[t].args[i] \in D /\ term[t].args[i] \in TermDown(term)[t]
    BY DEF TermDown
<1>2. ASSUME NEW t \in D, NEW f \in [D -> T]
      PROVE  MarkersStep(term, types, f, t) \in T
  <2>1. ListsOf(f, term[t].args, M)
    BY <1>1 DEF ListsOf
  <2>2. Joined(f, term[t].args) \in Seq(M)
    BY <2>1, JoinedType
  <2>3. term[t].op = "marker" => <<t>> \in Seq(M)
    OBVIOUS
  <2>4. <<>> \in Seq(M)
    BY EmptySeq
  <2> HIDE DEF M
  <2> QED BY <2>2, <2>3, <2>4 DEF MarkersStep
<1>3. ASSUME NEW t \in D, NEW f, NEW g, \A m \in TermDown(term)[t] : f[m] = g[m]
      PROVE  MarkersStep(term, types, f, t) = MarkersStep(term, types, g, t)
  <2>1. \A i \in DOMAIN term[t].args : f[term[t].args[i]] = g[term[t].args[i]]
    BY <1>1, <1>3
  <2>2. Joined(f, term[t].args) = Joined(g, term[t].args)
    BY <2>1, JoinedLocal
  <2> QED BY <2>2 DEF MarkersStep
<1>4. <<>> \in T /\ Local(D, TermDown(term), T, G)
  <2>1. <<>> \in T
    BY EmptySeq
  <2> HIDE DEF T
  <2> QED BY <2>1, <1>2, <1>3 DEF Local
<1>5. TermDown(term) \in [D -> SUBSET D] /\ Grounded(D, TermDown(term))
    BY TermsGrounded
<1>6. PICK walk : Solves(D, TermDown(term), T, G, D, walk)
  <2> HIDE DEF D, T, G
  <2> QED BY <1>4, <1>5, WalkExists
<1> HIDE DEF T
<1>7. walk \in [D -> T] /\ \A t \in D : walk[t] = MarkersStep(term, types, walk, t)
    BY <1>6 DEF Solves
<1>8. walk = [t \in D |-> MarkersStep(term, types, walk, t)]
    BY <1>7
<1>9. found = [t \in D |-> MarkersStep(term, types, found, t)]
    BY <1>8
<1>10. MarkersIn(node, pred, term, nodes, types) = Joined(inSelection, nodes)
    BY DEF MarkersIn
<1> HIDE DEF found
<1> DEFINE S == {t \in D : found[t] \in T}
<1>12. ASSUME NEW t \in D, TermDown(term)[t] \subseteq S
       PROVE  t \in S
  <2>1. found[t] = MarkersStep(term, types, found, t)
    BY <1>9
  <2>2. ListsOf(found, term[t].args, M)
    BY <1>1, <1>12 DEF ListsOf, T
  <2>3. Joined(found, term[t].args) \in T
    BY <2>2, JoinedType DEF T
  <2>4. term[t].op = "marker" => <<t>> \in T
    BY DEF T
  <2>5. <<>> \in T
    BY EmptySeq DEF T
  <2> QED BY <2>1, <2>3, <2>4, <2>5 DEF MarkersStep
<1>13. S = D
  <2>1. S \in SUBSET D
    OBVIOUS
  <2> HIDE DEF S
  <2> QED BY <1>5, <1>12, <2>1 DEF Grounded
<1>14. \A n \in Node : inSelection[n] \in Seq(M)
  <2> SUFFICES ASSUME NEW n \in Node
               PROVE  inSelection[n] \in Seq(M)
    OBVIOUS
  <2>1. pred[n] \in Seq(D)
    OBVIOUS
  <2>2. ListsOf(found, pred[n], M)
    <3>1. \A t \in D : found[t] \in Seq(M)
        BY <1>13 DEF T
    <3>2. \A i \in DOMAIN pred[n] : pred[n][i] \in D
        BY <2>1
    <3> HIDE DEF M, D
    <3> QED BY <3>1, <3>2 DEF ListsOf
  <2>3. Joined(found, pred[n]) \in Seq(M)
    BY <2>1, <2>2, JoinedType
  <2>4. <<>> \in Seq(M)
    BY EmptySeq
  <2> HIDE DEF M
  <2> QED BY <2>3, <2>4
<1> HIDE DEF inSelection
<1>15. ListsOf(inSelection, nodes, M)
  <2>1. \A i \in DOMAIN nodes : nodes[i] \in Node
    OBVIOUS
  <2> HIDE DEF M
  <2> QED BY <1>14, <2>1 DEF ListsOf
<1> QED BY <1>10, <1>15, JoinedType

=============================================================================
