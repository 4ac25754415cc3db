----------------------------- MODULE Optimizer ------------------------------
(***************************************************************************)
(* What the driver does with a statement (optimizer/optimizeSQL.cc):       *)
(* parse, RaTree::optimize, deparse.  optimize() is push-down,             *)
(* decorrelation of EXISTS and IN, general unnesting, push-down again, all *)
(* on one heap: the passes share the variables of the heap, which RaHeap   *)
(* declares, and hand over through pc.                                     *)
(***************************************************************************)
EXTENDS Corpus, Deparse, Meaning, UnnestInv

CONSTANTS Statements,         \* the statements
          Databases,          \* what their meaning is compared on
          convert_cp_to_join  \* see PushDown

VARIABLES stmt,                                    \* the statement
          call, todo, selections, work, wi, pj, it \* of push-down

heap      == <<node, ch, pred, term, root, fresh, columns>>
pushing   == <<call, todo, selections, work, wi, pj, it>>
loops     == <<markers_joins, mi, sel, cor, dep_join, rename_d_attributes>>
vars == <<stmt, heap, ctes, counter, pc, status, pushing, loops>>

Push == INSTANCE PlacementInv WITH Trees <- {}

(* SQLtoRA::parse, whose steps are those of Parser, then optimize()'s first call *)
Init ==
    /\ stmt \in Statements
    /\ \E t \in {TreeOf(stmt)} :
          /\ node = t.node /\ ch = t.ch     /\ pred = t.pred   /\ term = t.term
          /\ root = t.root /\ fresh = t.fresh /\ columns = t.columns
          /\ ctes = t.ctes /\ counter = t.counter
    /\ pc = "collect" /\ status = "ok"
    /\ call = 1 /\ todo = <<root>> /\ selections = <<>> /\ work = <<>>
    /\ wi = 1 /\ pj = 1 /\ it = root
    /\ markers_joins = <<>> /\ mi = 0 /\ sel = root /\ cor = <<>> /\ dep_join = root /\ rename_d_attributes = <<>>

PushDownStep ==
    /\ \/ Push!CollectSelections \/ Push!ExtractPredicates
       \/ Push!FindLowest \/ Push!ReAdd \/ Push!Descend
       \/ Push!InsertInJoin \/ Push!InsertInSelection \/ Push!InsertNewSelection
       \/ Push!RemoveSelection \/ Push!KeepSelection \/ Push!Return
    /\ UNCHANGED <<stmt, columns, ctes, counter, status, loops>>

StartDecorrelation ==
    /\ pc = "done" /\ call = 1
    /\ pc' = "find"
    /\ UNCHANGED <<stmt, heap, ctes, counter, status, pushing, loops>>

DecorrelateStep == DecorrelateExistsIn /\ UNCHANGED <<stmt, pushing, dep_join, rename_d_attributes>>

UnnestStep == UnnestSubqueries /\ UNCHANGED <<stmt, pushing, sel, cor>>

PushDownAgain ==
    /\ pc = "again" /\ status = "ok"
    /\ call' = 2
    /\ pc' = "collect"
    /\ todo' = <<root>> /\ selections' = <<>>
    /\ UNCHANGED <<stmt, heap, ctes, counter, status, work, wi, pj, it, loops>>

(* optimize() returns, and RAtoSQL::deparse prints the statement sql *)
PrintSql ==
    /\ pc = "done" /\ call = 2
    /\ pc' = "printed"
    /\ UNCHANGED <<stmt, heap, ctes, counter, status, pushing, loops>>

sql == deparse([node |-> node, ch |-> ch, pred |-> pred, term |-> term,
                columns |-> columns, root |-> root, ctes |-> ctes])

Next == \/ PushDownStep \/ StartDecorrelation \/ DecorrelateStep
        \/ UnnestStep \/ PushDownAgain \/ PrintSql

(* One thread of straight code: an enabled step is taken *)
Spec == Init /\ [][Next]_vars /\ WF_vars(Next)

-----------------------------------------------------------------------------
(* Properties *)

(* The heap with the nodes below x only *)
Part(x) ==
    LET below == ToSet(Preorder(ch, x))
    IN  [node  |-> [n \in Node |-> IF n \in below THEN node[n] ELSE Free],
         ch    |-> [n \in Node |-> IF n \in below THEN ch[n] ELSE <<>>],
         pred  |-> [n \in Node |-> IF n \in below THEN pred[n] ELSE <<>>],
         term  |-> term, root |-> x, fresh |-> fresh]

(* The query and the CTEs *)
Roots == <<root>> \o ctes

(***************************************************************************)
(* Each pass starts in a state its theorems assume, and so does the        *)
(* deparser: the query and each CTE are trees with all their nodes, that   *)
(* share no node and no conjunct, and no selection is without a predicate; *)
(* the markers of the query are above their joins, one of each, and the    *)
(* subqueries on the right.  The passes in between take subtrees from one  *)
(* place to another, the child of the unnested join has two parents for a  *)
(* while, and selections lose predicates one by one.                       *)
(***************************************************************************)
WholeForest ==
    LET starts == pc = "collect" /\ todo = <<root>>
    IN  /\ starts \/ pc = "printed" =>
              /\ \A i \in DOMAIN Roots : Push!WellFormed(Part(Roots[i]))
              /\ \A i, j \in DOMAIN Roots : i # j =>
                    ToSet(Preorder(ch, Roots[i])) \cap ToSet(Preorder(ch, Roots[j])) = {}
              /\ \A i \in DOMAIN Roots : \A n \in ToSet(Preorder(ch, Roots[i])) :
                    node[n].node_case = "SELECTION" => pred[n] # <<>>
        /\ starts => Push!MarkersOK(Part(root)) /\ (call = 1 => TermsOrdered(term))
        /\ pc = "find" => HandedOver
        /\ pc = "unnest" => HandedOn

IsCte(name) == name[1] = CteName(0)[1]

(* The CTEs the tree below x reads *)
CtesRead(x) == {node[n].name : n \in {m \in ToSet(Preorder(ch, x)) :
                   node[m].node_case = "RELATION" /\ IsCte(node[m].name)}}

(***************************************************************************)
(* A CTE is printed before everything that reads it, and no two have one   *)
(* name.  The names come from the counter that numbers markers, too, and   *)
(* the order from the one in which the subqueries are decorrelated: the    *)
(* innermost first, those of EXISTS and IN before the scalar ones.         *)
(***************************************************************************)
CteBeforeUse ==
    /\ \A i, j \in DOMAIN ctes : node[ctes[i]].alias = node[ctes[j]].alias => i = j
    /\ \A i \in DOMAIN ctes : \A name \in CtesRead(ctes[i]) :
          \E j \in 1 .. i - 1 : node[ctes[j]].alias = name
    /\ \A name \in CtesRead(root) : \E j \in DOMAIN ctes : node[ctes[j]].alias = name

(***************************************************************************)
(* The process never fails an assertion, dereferences nullptr or takes a   *)
(* node for one of another class while it decorrelates and unnests.        *)
(***************************************************************************)
NeverDies == status = "ok"

(***************************************************************************)
(* Optimizing ends: the loop that pushes the dependent join down always    *)
(* gets to where nothing below needs D, and so do the loops around it.     *)
(***************************************************************************)
Finished == <>(pc = "printed")

(***************************************************************************)
(* The printed SQL is valid and returns the rows of the statement, each as *)
(* often, on every database.                                               *)
(***************************************************************************)
SameResult ==
    pc = "printed" =>
        \E s \in {sql} : \A db \in Databases : SameRows(stmt, s, db)

=============================================================================
