------------------------------ MODULE ExistsIn ------------------------------
(***************************************************************************)
(* RaTree::decorrelate_all_exists_in_subqueries (src/optimizer/ra_tree.cc):*)
(* every correlated EXISTS or IN subquery, innermost first, moves into a   *)
(* common table expression, and what is left of it selects from there on   *)
(* the attributes that correlate it.  optimize() calls it between its two  *)
(* push-downs; the composition is in Optimizer.                            *)
(***************************************************************************)
EXTENDS RaHeap

VARIABLES sel,                   \* the selection of the subquery
          cor                    \* correlating_predicates: outer, inner, operator

decorrelation == <<node, ch, pred, term, root, fresh, columns, ctes, counter, pc, status,
                   markers_joins, mi, sel, cor>>

-----------------------------------------------------------------------------
(* Searches *)

(* 0 if there is no selection *)
get_first_selection(x) ==
    FirstNode(Preorder(ch, x), {n \in Node : node[n].node_case = "SELECTION"})

(* An attribute found among the relations (name, alias) of the subquery *)
FoundRelation(attr, relations) ==
    \E r \in relations :
        IF attr.alias # NoName THEN attr.alias \in {r[1], r[2]}
        ELSE r[2] = NoName /\ is_tpch_attribute(attr.name, r[1])

(***************************************************************************)
(* is_correlating_predicate: <<>>, or the outer and the inner attribute of *)
(* a comparison of two attributes of which one is not of the subquery.     *)
(***************************************************************************)
is_correlating_predicate(t, relations) ==
    LET left  == term[t].args[1]
        right == term[t].args[2]
        Attributes == term[left].op = "attr" /\ term[right].op = "attr"
        Inside(u) == FoundRelation(term[u], relations)
        Found(outer, inner) == <<[outer |-> outer, inner |-> inner, oper |-> term[t].oper]>>
    IN  CASE Attributes /\ Inside(left) /\ ~Inside(right) -> Found(right, left)
          [] Attributes /\ ~Inside(left) /\ Inside(right) -> Found(left, right)
          [] OTHER -> <<>>

(* Those of a predicate: ANDs, ORs and NOTs are all searched *)
get_correlating_predicates(ps, relations) ==
    LET found[t \in DOMAIN term] ==
            CASE term[t].op = "cmp" -> is_correlating_predicate(t, relations)
              [] term[t].op \in {"and", "or", "not"} -> Joined(found, term[t].args)
              [] OTHER -> <<>>
    IN  Joined(found, ps)

-----------------------------------------------------------------------------
(* The pass *)

Dies(why) == /\ status' = why
             /\ UNCHANGED <<node, ch, pred, term, root, fresh, columns, ctes, counter, pc,
                            markers_joins, mi, sel, cor>>

(* 1. and 2.: all markers first, then all joins; the loop starts at the last *)
FindMarkers ==
    LET Found(markers) ==
            /\ markers_joins' = [i \in DOMAIN markers |->
                                   [marker |-> markers[i], join |-> find_join_by_marker(node, ch, root, term[markers[i]].id)]]
            /\ mi' = Len(markers)
    IN  /\ pc = "find" /\ status = "ok"
        /\ Found(find_subquery_markers(node, ch, pred, term, root, ExistsInDependent))
        /\ pc' = "correlation"
        /\ UNCHANGED <<node, ch, pred, term, root, fresh, columns, ctes, counter, status, sel, cor>>

join     == markers_joins[mi].join
subquery == ch[join][2]

(* "assert each marker found corresponding join", "correlated exists must have selection" *)
FindCorrelation ==
    LET Found(s) ==
            IF s = 0 THEN Dies("assert")
            ELSE /\ sel' = s
                 /\ cor' = get_correlating_predicates(pred[s],
                               get_relations_aliases(node, ch, ch[subquery][1]))
                 /\ pc' = "move"
                 /\ UNCHANGED <<node, ch, pred, term, root, fresh, columns, ctes, counter, status,
                                markers_joins, mi>>
    IN  /\ pc = "correlation" /\ status = "ok" /\ mi > 0
        /\ IF join = 0 THEN Dies("assert") ELSE Found(get_first_selection(ch[subquery][1]))

(* The arguments of a predicate that is boolean; a single OR or NOT is a term *)
IsBoolean(ps) == Len(ps) > 1 \/ term[ps[1]].op \in {"and", "or", "not"}
BoolArgs(ps)  == IF Len(ps) > 1 THEN ps ELSE term[ps[1]].args

(* Mutant: the arguments are erased from the end *)
EraseFromEnd(args, n) == SubSeq(args, 1, Len(args) - n)

(* Every recorded child index is 0: as many arguments go, from the front *)
EraseCorrelating(args, n) == SubSeq(args, n + 1, Len(args))

(* A predicate pointer as the list of its conjuncts *)
AsConjuncts(t) == IF term[t].op = "and" THEN term[t].args ELSE <<t>>

(* Mutants: the selection keeps its child, or the slot loses what it held *)
CutOutWithoutPop(children, slot) == [children EXCEPT ![slot[1]][slot[2]] = children[sel][1]]
CutOutWithoutRelink(children, slot) == [children EXCEPT ![slot[1]] = <<>>, ![sel] = <<>>]

(* The selection leaves its slot to its child *)
CutOut(children, slot) == [children EXCEPT ![slot[1]][slot[2]] = children[sel][1], ![sel] = <<>>]

(***************************************************************************)
(* 3.: a projection on the inner attributes gets what is below that of the *)
(* subquery.  3.1: it loses the selection, or as many arguments of its     *)
(* boolean predicate as there are correlating ones.  The parent search     *)
(* starts at the new projection: it does not come to the old one, which    *)
(* has the same child until it is replaced.                                *)
(***************************************************************************)
MoveToCte ==
    LET cte    == fresh
        args   == BoolArgs(pred[sel])
        left   == IF IsBoolean(pred[sel]) THEN EraseCorrelating(args, Len(cor)) ELSE <<>>
        taken  == [ch EXCEPT ![cte] = <<ch[subquery][1]>>]
        slot   == get_node_parent([taken EXCEPT ![subquery] = <<>>], sel)
        Cut    == /\ ch' = CutOut(taken, slot)
                  /\ pred' = [pred EXCEPT ![sel] = <<>>]
                  /\ UNCHANGED term
        Shrink == /\ ch' = taken
                  /\ IF Len(left) = 1 THEN pred' = [pred EXCEPT ![sel] = AsConjuncts(left[1])]
                     ELSE IF Len(pred[sel]) > 1 THEN pred' = [pred EXCEPT ![sel] = left]
                     ELSE pred' = pred
                  /\ term' = IF Len(pred[sel]) > 1 THEN term
                             ELSE [term EXCEPT ![pred[sel][1]].args = left]
    IN  /\ pc = "move" /\ status = "ok" /\ cte \in Node
        /\ IF IsBoolean(pred[sel]) /\ Len(args) < 2 THEN Dies("assert")
           ELSE IF IsBoolean(pred[sel]) /\ Len(args) < Len(cor) THEN Dies("undefined")
           ELSE IF left = <<>> /\ Len(taken[slot[1]]) # 1 THEN Dies("assert")
           ELSE /\ IF left = <<>> THEN Cut ELSE Shrink
                /\ node' = [node EXCEPT ![cte] = [NewNode("PROJECTION") EXCEPT
                               !.alias = CteName(counter),
                               !.args = [i \in DOMAIN cor |-> cor[i].inner]]]
                /\ columns' = [columns EXCEPT ![cte] = [i \in DOMAIN cor |-> term[cor[i].inner].name]]
                /\ ctes' = Append(ctes, cte)
                /\ counter' = counter + 1
                /\ fresh' = fresh + 1
                /\ pc' = "select"
                /\ UNCHANGED <<root, status, markers_joins, mi, sel, cor>>

(***************************************************************************)
(* 4.: the new subquery compares the columns of the CTE with the outer     *)
(* attributes.  It takes the place of the old one, of which nothing is     *)
(* left.                                                                   *)
(***************************************************************************)
SelectFromCte ==
    LET cte    == CteName(counter - 1)
        proj   == fresh
        select == fresh + 1
        base   == Len(term)
        Three(i) == LET outer == term[cor[i].outer]
                        inner == term[cor[i].inner]
                    IN  <<Attribute(cte, inner.name), Attribute(outer.alias, outer.name),
                          Comparison(base + 3 * i - 2, cor[i].oper, base + 3 * i - 1)>>
    IN  /\ pc = "select" /\ status = "ok" /\ fresh + 2 \in Node
        /\ term' = term \o FlattenSeq([i \in DOMAIN cor |-> Three(i)])
        /\ node' = [node EXCEPT ![proj] = [NewNode("PROJECTION") EXCEPT !.args = node[subquery].args],
                                ![select] = NewNode("SELECTION"),
                                ![fresh + 2] = Relation(cte, NoName),
                                ![subquery] = Free]
        /\ pred' = [pred EXCEPT ![select] = [i \in DOMAIN cor |-> base + 3 * i]]
        /\ ch' = [ch EXCEPT ![subquery] = <<>>, ![join][2] = proj,
                            ![proj] = <<select>>, ![select] = <<fresh + 2>>]
        /\ fresh' = fresh + 3
        /\ mi' = mi - 1
        /\ pc' = "correlation"
        /\ UNCHANGED <<root, columns, ctes, counter, status, markers_joins, sel, cor>>

Decorrelated ==
    /\ pc = "correlation" /\ status = "ok" /\ mi = 0
    /\ pc' = "unnest"
    /\ UNCHANGED <<node, ch, pred, term, root, fresh, columns, ctes, counter, status,
                   markers_joins, mi, sel, cor>>

DecorrelateExistsIn ==
    FindMarkers \/ FindCorrelation \/ MoveToCte \/ SelectFromCte \/ Decorrelated

=============================================================================
