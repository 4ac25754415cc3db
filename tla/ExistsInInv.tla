---------------------------- MODULE ExistsInInv -----------------------------
(***************************************************************************)
(* What the decorrelation of EXISTS and IN is given and what it keeps: the *)
(* query and its CTEs are trees that share no node while subqueries move   *)
(* from the one to the others.                                             *)
(***************************************************************************)
EXTENDS ExistsIn

(* The query and the CTEs *)
Tops(top, list) == {top} \cup {list[i] : i \in DOMAIN list}

(* The nodes of their trees *)
Forest(children, tops) == tops \cup UNION {Children(children, p) : p \in Node}

(***************************************************************************)
(* No node hangs in two slots, a top in none, and only nodes of the forest *)
(* have children.                                                          *)
(***************************************************************************)
ForestSlots(children, tops) ==
    /\ \A p, q \in Node : \A i \in DOMAIN children[p], j \in DOMAIN children[q] :
          children[p][i] = children[q][j] => p = q /\ i = j
    /\ \A p \in Node : Children(children, p) \cap tops = {}
    /\ \A n \in Node : children[n] # <<>> => n \in Forest(children, tops)

(* The members of S and their children *)
WithChildren(children, S) == S \cup UNION {Children(children, n) : n \in S}

(* The nodes that a walk down from the tops comes to *)
Reached(children, tops) ==
    LET reached[k \in 0 .. MaxNodes] ==
            IF k = 0 THEN tops ELSE WithChildren(children, reached[k - 1])
    IN  reached[MaxNodes]

(* Trees that share no node, and nothing else *)
IsForest(children, tops) ==
    ForestSlots(children, tops) /\ Reached(children, tops) = Forest(children, tops)

(* The node is there with all its children *)
IsWhole(labels, children, n) == labels[n].node_case # "FREE" /\ is_full(labels, children, n)

(* No two CTEs have one name *)
CteNamesDiffer(labels, list) ==
    \A i, j \in DOMAIN list : labels[list[i]].alias = labels[list[j]].alias => i = j

(* The query and the CTEs are now in the hands of this pass *)
Decorrelating == pc \in {"find", "correlation", "move", "select", "unnest"}

(***************************************************************************)
(* The children, but for those of the subquery's projection once they were *)
(* given to a CTE: it has them still, but is about to be replaced.         *)
(***************************************************************************)
Owned == IF pc = "select" THEN [ch EXCEPT ![subquery] = <<>>] ELSE ch

(***************************************************************************)
(* Between any two steps the query and the CTEs are trees: they share no   *)
(* node, a walk from their tops comes to every node that hangs somewhere,  *)
(* and every node has all its children.  The one exception is a subquery   *)
(* that was just given to a CTE and is about to be replaced.  The numbers  *)
(* give different names to the CTEs.                                       *)
(***************************************************************************)
ForestKept ==
    Decorrelating =>
        /\ IsForest(Owned, Tops(root, ctes))
        /\ \A n \in Forest(Owned, Tops(root, ctes)) :
              IsWhole(node, Owned, n) \/ (pc = "select" /\ n = subquery)
        /\ CteNamesDiffer(node, ctes)

(* The nodes of the query and of the CTEs that a step takes out *)
Lost == Forest(Owned, Tops(root, ctes)) \ Forest(Owned', Tops(root', ctes'))

LostOnPurpose ==
    Decorrelating => \A n \in Lost : (pc = "move" /\ n = sel) \/ (pc = "select" /\ n = subquery)

(***************************************************************************)
(* No step loses a node of the query or of a CTE, with two exceptions: the *)
(* selection of the subquery, when the condition it holds goes, and the    *)
(* projection of the subquery, which is replaced.                          *)
(***************************************************************************)
NodesKept == [][LostOnPurpose]_decorrelation

-----------------------------------------------------------------------------
(* What push-down hands over *)

(* Nodes that have not been allocated are in no tree *)
HeapTypes ==
    /\ DOMAIN node = Node /\ ch \in [Node -> Seq(Node)]
    /\ root \in Node /\ ctes \in Seq(Node) /\ fresh \in Nat \ {0}
    /\ \A n \in Forest(Owned, Tops(root, ctes)) : n < fresh

(* No CTE has the name of one that is still to come *)
CteNamesFree ==
    counter \in Nat /\ \A i \in DOMAIN ctes :
        node[ctes[i]].alias[1] = CteName(0)[1] => node[ctes[i]].alias[2] \in 0 .. counter - 1

(* j is a join whose right child is the projection of a subquery *)
HasSubquery(labels, children, tops, j) ==
    /\ j \in Forest(children, tops) /\ labels[j].node_case = "JOIN"
    /\ labels[children[j][2]].node_case = "PROJECTION"

(* The joins of WHERE subqueries have them on the right *)
SubqueriesRight ==
    \A j \in Forest(Owned, Tops(root, ctes)) :
        node[j].node_case = "JOIN" /\ node[j].marker # 0 => HasSubquery(node, Owned, Tops(root, ctes), j)

(* Terms are made after their arguments, and markers are numbered from 1 *)
TermsOK ==
    /\ TermsOrdered(term) /\ \A t \in DOMAIN term : term[t].args \in Seq(DOMAIN term)
    /\ pred \in [Node -> Seq(DOMAIN term)]
    /\ \A t \in DOMAIN term : term[t].op = "marker" => term[t].id # 0

(* The state in which the pass starts *)
HandedOver ==
    /\ pc = "find" /\ status = "ok"
    /\ HeapTypes /\ TermsOK
    /\ IsForest(Owned, Tops(root, ctes))
    /\ \A n \in Forest(Owned, Tops(root, ctes)) : IsWhole(node, Owned, n)
    /\ CteNamesDiffer(node, ctes) /\ CteNamesFree
    /\ SubqueriesRight

DecorrelateSpec == HandedOver /\ [][DecorrelateExistsIn]_decorrelation

-----------------------------------------------------------------------------
(***************************************************************************)
(* The joins that are still to do, found before anything was changed, keep *)
(* their subqueries, and the selection that was found hangs somewhere      *)
(* while a subquery moves: the part of the inductive invariant that makes  *)
(* each step's searches end in the forest.                                 *)
(***************************************************************************)
SearchInv ==
    /\ pc = "find" => SubqueriesRight /\ TermsOK
    /\ pc # "find" =>
          /\ mi \in Nat
          /\ \A i \in 1 .. mi : \/ markers_joins[i].join = 0
                                \/ HasSubquery(node, Owned, Tops(root, ctes), markers_joins[i].join)
    /\ pc \in {"move", "select"} =>
          mi > 0 /\ join # 0 /\ node[subquery].node_case = "PROJECTION"
    /\ pc = "move" => /\ sel \in Node /\ node[sel].node_case = "SELECTION"
                      /\ \E p \in Node : sel \in Children(ch, p)

(* The inductive invariant *)
FInv == Decorrelating /\ HeapTypes /\ ForestKept /\ CteNamesFree /\ SearchInv

=============================================================================
