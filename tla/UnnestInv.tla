----------------------------- MODULE UnnestInv ------------------------------
(***************************************************************************)
(* What general unnesting is given and what it keeps: the query and its    *)
(* CTEs stay trees while the dependent join goes down, although D and the  *)
(* original join share the outer query until one of them gives it up.      *)
(***************************************************************************)
EXTENDS Unnest, ExistsInInv

Unnesting == pc \in {"unnest", "introduce", "push_down", "decouple", "outer", "again"}

(* D has been introduced and not yet been removed or given a CTE to read *)
Shared == pc \in {"push_down", "decouple", "outer"}

(* The children, but for those D shares with the original join *)
Kids == IF Shared THEN Apart ELSE ch

AllTops == Tops(root, ctes)

(***************************************************************************)
(* Between any two steps the query and the CTEs are trees with all their   *)
(* nodes.  What D and the original join share is all that is shared, and   *)
(* it is the outer query.                                                  *)
(***************************************************************************)
TreesKept ==
    Unnesting =>
        /\ IsForest(Kids, AllTops)
        /\ \A n \in Forest(Kids, AllTops) :
              IsWhole(node, Kids, n) \/ (Shared /\ n = d_projection)
        /\ Shared => ch[d_projection] = <<ch[original_join][1]>>
        /\ CteNamesDiffer(node, ctes)

(* The nodes of the query and of the CTEs that a step takes out *)
TakenOut == Forest(Kids, AllTops) \ Forest(Kids', AllTops')

TakenOnPurpose ==
    Unnesting => \A n \in TakenOut :
        /\ pc = "decouple"
        /\ \/ n \in {dep_join, d_projection}
           \/ node[n].node_case = "SELECTION" /\ pred'[n] = <<>>

(***************************************************************************)
(* No step loses a node of the query or of a CTE, but when it decouples:   *)
(* then D, its join and the selections go that have no predicate left.     *)
(***************************************************************************)
OthersKept == [][TakenOnPurpose]_unnesting

(* The nodes below x, x included *)
Below(children, x) == Reached(children, {x})

(***************************************************************************)
(* Each round of the loop that pushes the dependent join down leaves fewer *)
(* nodes below it, or is its last one: what is below the join afterwards   *)
(* was below it before, and the node it passed is not.                     *)
(***************************************************************************)
GetsLower ==
    pc = "push_down" /\ pc' = "push_down" /\ status' = "ok" =>
        /\ Below(Kids', dep_join') \subseteq Below(Kids, dep_join)
        /\ below_join \notin Below(Kids', dep_join')

AlwaysLower == [][GetsLower]_unnesting

-----------------------------------------------------------------------------
(* What the decorrelation of EXISTS and IN hands over *)

(* Nodes that have not been allocated are in no tree; the tops are projections *)
TreeTypes ==
    /\ DOMAIN node = Node /\ ch \in [Node -> Seq(Node)]
    /\ root \in Node /\ ctes \in Seq(Node) /\ fresh \in Nat \ {0}
    /\ \A n \in Forest(Kids, AllTops) : n < fresh
    /\ \A n \in AllTops : node[n].node_case = "PROJECTION"

(* j is the join of a WHERE subquery that is still to be unnested *)
HoldsSubquery(labels, children, tops, j) ==
    /\ HasSubquery(labels, children, tops, j)
    /\ labels[j].marker # 0 /\ labels[j].type \notin {"CROSS_PRODUCT", "INNER"}

ScalarMarkers == find_subquery_markers(node, ch, pred, term, root, {"DEPENDENT_INNER_LEFT"})

(* The markers the pass finds have numbers of their own, and dependent joins with subqueries *)
MarkersInv ==
    pc = "unnest" =>
        /\ TermsOK
        /\ \A i \in DOMAIN ScalarMarkers : \A j \in Forest(ch, AllTops) :
              node[j].node_case = "JOIN" /\ node[j].marker = term[ScalarMarkers[i]].id =>
                  HoldsSubquery(node, ch, AllTops, j)
        /\ \A i, k \in DOMAIN ScalarMarkers :
              term[ScalarMarkers[i]].id = term[ScalarMarkers[k]].id => i = k

(* The state in which the pass starts *)
HandedOn ==
    /\ pc = "unnest" /\ status = "ok"
    /\ TreeTypes /\ TreesKept /\ CteNamesFree /\ MarkersInv

UnnestSpec == HandedOn /\ [][UnnestSubqueries]_unnesting

-----------------------------------------------------------------------------
(* The inductive invariant *)

(* The joins that were found before anything changed and are still to do *)
ToDo == IF Shared THEN 1 .. mi - 1 ELSE 1 .. mi

JoinsInv ==
    pc \in {"introduce", "push_down", "decouple", "outer"} =>
        /\ mi \in Nat
        /\ \A i \in ToDo : \/ markers_joins[i].join = 0
                           \/ HoldsSubquery(node, Kids, AllTops, markers_joins[i].join)
        /\ \A i, k \in 1 .. mi : i # k =>
              markers_joins[i].join = 0 \/ markers_joins[i].join # markers_joins[k].join

(* The original join still has the subquery, and is neither below nor just above D's *)
DInv ==
    Shared =>
        /\ mi > 0 /\ HasSubquery(node, Kids, AllTops, original_join)
        /\ dep_join \in Forest(Kids, AllTops)
        /\ node[dep_join].node_case = "JOIN" /\ node[dep_join].marker = 0
        /\ node[d_projection].node_case = "PROJECTION"
        /\ original_join \notin Below(Kids, dep_join)
        /\ dep_join \notin Children(Kids, original_join)

UInv == Unnesting /\ TreeTypes /\ TreesKept /\ CteNamesFree /\ MarkersInv /\ JoinsInv /\ DInv

=============================================================================
