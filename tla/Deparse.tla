------------------------------- MODULE Deparse ------------------------------
(***************************************************************************)
(* RAtoSQL (src/optimizer/deparse_ra_to_sql.cc): the relational algebra    *)
(* tree printed as SQL.  The text is what pg_query would parse it into     *)
(* again, the nested records of SqlToRa: keywords, commas and the quoting  *)
(* of constants are left out, but the places where the deparser prints no  *)
(* parentheses are kept, since there the text means something else than    *)
(* the tree.  h is the heap with its root and ctes.                        *)
(***************************************************************************)
EXTENDS SqlToRa

(* The joins find_marker_subquery can find: it starts at the root *)
find_marker_subquery(h, marker) ==
    SelectSeq(Preorder(h.ch, h.root),
              LAMBDA n : h.node[n].node_case = "JOIN" /\ h.node[n].marker = marker)

(* A failed assertion of the deparser in place of what it would print *)
Aborted == Expr("assert", <<>>)

(* exists (..), x in (..), x not in (..), (..): test is <<>> or the IN's test *)
PrintedSublink(type, test, query) ==
    CASE type \in {"SEMI_LEFT", "SEMI_LEFT_DEPENDENT",
                   "ANTI_LEFT", "ANTI_LEFT_DEPENDENT"} -> Exists(query)
      [] type \in {"IN_LEFT", "IN_LEFT_DEPENDENT"} -> In(test[1], query)
      [] type \in {"ANTI_IN_LEFT", "ANTI_IN_LEFT_DEPENDENT"} -> Expr("not", <<In(test[1], query)>>)
      [] OTHER -> Scalar(query)

(* "not" is not printed before a NOT IN, which brings its own, and a NULL test *)
PrintsNot(e) == ~ \/ e.op = "marker" /\ e.oper \in {"ANTI_IN_LEFT", "ANTI_IN_LEFT_DEPENDENT"}
                  \/ e.op = "null"

RECURSIVE deparse_predicate(_, _)
RECURSIVE deparse_projection(_, _)
RECURSIVE deparse_ra_node(_, _)

(* The test of an IN is a predicate of its join, without a right side *)
deparse_marker(h, join) ==
    PrintedSublink(h.node[join].type,
                   [i \in DOMAIN h.pred[join] |->
                       deparse_predicate(h, h.term[h.pred[join][i]].args[1])],
                   deparse_projection(h, h.ch[join][2]))

(* deparse_predicate and deparse_expression *)
deparse_predicate(h, t) ==
    LET e == h.term[t]
        found   == find_marker_subquery(h, e.id)
        Args    == [i \in DOMAIN e.args |-> deparse_predicate(h, e.args[i])]
    IN  CASE e.op = "marker" ->
                 IF found = <<>> THEN Aborted ELSE deparse_marker(h, found[1])
          [] e.op = "not" /\ ~PrintsNot(h.term[e.args[1]]) -> deparse_predicate(h, e.args[1])
          [] OTHER -> [op |-> e.op, args |-> Args, alias |-> e.alias, name |-> e.name,
                       oper |-> e.oper, query |-> <<>>]

(* A predicate as deparse_predicate prints it: its conjuncts, ANDed *)
Conjunction(es) == IF es = <<>> THEN NoExpr ELSE IF Len(es) = 1 THEN es[1] ELSE Expr("and", es)

deparse_selection(h, n) == Conjunction([i \in DOMAIN h.pred[n] |-> deparse_predicate(h, h.pred[n][i])])

(***************************************************************************)
(* WHERE: the predicates of the block's selections, top down, with "and"   *)
(* between them.  All but the first are put in parentheses when they are   *)
(* boolean.  If the first one is an OR, its last arm takes the others in.  *)
(***************************************************************************)
PrintedWhere(selections) ==
    LET first == selections[1]
        rest  == Tail(selections)
        Arms  == SubSeq(first.args, 1, Len(first.args) - 1)
    IN  IF selections = <<>> THEN NoExpr
        ELSE IF first.op = "or" /\ rest # <<>>
        THEN Expr("or", Append(Arms, Conjunction(<<Last(first.args)>> \o rest)))
        ELSE Conjunction(selections)

(* A comma separated list L, the keyword of a join, a list R and "on quals" *)
PrintedJoin(label, L, R, quals) ==
    Front(L) \o <<JoinExpr(label.type, label.alias, Last(L), R[1], quals)>> \o Tail(R)

(* The clauses of a block, each the list of what its nodes print into it *)
NoClauses == [where |-> <<>>, from |-> <<>>, group |-> <<>>, having |-> <<>>, order |-> <<>>]

(* Appended to the clauses, one after the other *)
Both(a, b) == [where |-> a.where \o b.where, from |-> a.from \o b.from, group |-> a.group \o b.group,
               having |-> a.having \o b.having, order |-> a.order \o b.order]

(* What the subtree of n, below the projection of its block, prints *)
deparse_ra_node(h, n) ==
    LET label == h.node[n]
        case  == label.node_case
        Exprs == [i \in DOMAIN label.args |-> deparse_predicate(h, label.args[i])]
        Own ==
            CASE case = "SELECTION" -> [NoClauses EXCEPT !.where = <<deparse_selection(h, n)>>]
              [] case = "HAVING" -> [NoClauses EXCEPT !.having = <<deparse_selection(h, n)>>]
              [] case = "GROUP_BY" -> [NoClauses EXCEPT !.group = IF label.implicit THEN <<>> ELSE Exprs]
              [] case = "ORDER_BY" -> [NoClauses EXCEPT !.order = Exprs]
              [] case = "RELATION" -> [NoClauses EXCEPT !.from = <<RangeVar(label.name, label.alias)>>]
              [] case = "PROJECTION" ->
                     [NoClauses EXCEPT !.from = <<RangeSubselect(deparse_projection(h, n), label.alias, h.columns[n])>>]
              [] OTHER -> NoClauses
        Sides(L, R) ==
            IF label.type = "CROSS_PRODUCT" THEN Both(L, R)
            ELSE [Both(L, R) EXCEPT !.from = PrintedJoin(label, L.from, R.from, deparse_selection(h, n))]
    IN  CASE case = "JOIN" /\ label.marker = 0 ->
                 Sides(deparse_ra_node(h, h.ch[n][1]), deparse_ra_node(h, h.ch[n][2]))
          [] case \in {"RELATION", "PROJECTION", "DUMMY"} -> Own
          [] OTHER -> Both(Own, deparse_ra_node(h, h.ch[n][1]))

(* "assert(expressions.size()>0)" *)
deparse_expressions(h, args) ==
    IF args = <<>> THEN <<Aborted>> ELSE [i \in DOMAIN args |-> deparse_predicate(h, args[i])]

deparse_projection(h, n) ==
    LET Query(clauses) ==
            [with |-> <<>>, targets |-> deparse_expressions(h, h.node[n].args),
             from |-> clauses.from, where |-> PrintedWhere(clauses.where),
             group |-> clauses.group, having |-> Conjunction(clauses.having),
             order |-> clauses.order]
    IN  Query(deparse_ra_node(h, h.ch[n][1]))

deparse_ctes(h) ==
    [i \in DOMAIN h.ctes |-> CommonTable(h.node[h.ctes[i]].alias, h.columns[h.ctes[i]],
                                         deparse_projection(h, h.ctes[i]))]

deparse(h) == [deparse_projection(h, h.root) EXCEPT !.with = deparse_ctes(h)]

=============================================================================
