------------------------------- MODULE RaHeap -------------------------------
(***************************************************************************)
(* The heap as the passes of RaTree::optimize change it between its two    *)
(* push-downs, and what the loops of decorrelate_all_exists_in_subqueries  *)
(* and general_query_unnesting have in common.                             *)
(***************************************************************************)
EXTENDS RaTree

VARIABLES node, ch, pred, term,  \* the heap, see RaTree
          root, fresh, columns,
          ctes, counter,         \* RaTree's members
          pc, status,            \* status: "ok", or why the process died
          markers_joins,         \* the markers of the loop with their joins
          mi                     \* the loop is at this one

=============================================================================
