----------------------------- MODULE Conjuncts ------------------------------
(***************************************************************************)
(* What predicate push-down promises about a query's conditions, without   *)
(* its tree: a conjunct is held by the query or waits for a place.  A call *)
(* takes conjuncts out of the query and gives them back one by one; the    *)
(* query ends up with the conditions it had.  The one exception is written *)
(* down, too: a conjunct may be dropped, but only while the query holds a  *)
(* conjunct that is nothing but the marker of a subquery.  PushDownInv     *)
(* states that PushDown implements this, ConjunctsProofs proves it.        *)
(***************************************************************************)
VARIABLES held,     \* the conjuncts in the query
          waiting,  \* those taken out and not yet given back
          markers   \* those that are a subquery marker

vars == <<held, waiting, markers>>

Init == waiting = {}

(* A call starts when nothing waits *)
TakeOut ==
    /\ waiting = {}
    /\ waiting' \subseteq held
    /\ held' = held \ waiting'
    /\ UNCHANGED markers

GiveBack ==
    /\ \E c \in waiting : waiting' = waiting \ {c} /\ held' = held \cup {c}
    /\ UNCHANGED markers

Drop ==
    /\ held \cap markers # {}
    /\ \E c \in waiting : waiting' = waiting \ {c}
    /\ UNCHANGED <<held, markers>>

Next == TakeOut \/ GiveBack \/ Drop

Spec == Init /\ [][Next]_vars

=============================================================================
