------------------------------- MODULE Corpus -------------------------------
(***************************************************************************)
(* Small SELECT statements over the TPC-H schema, of the shapes the driver *)
(* of the optimizer lists as its tests (optimizer/optimizeSQL.cc): joins,  *)
(* derived tables, EXISTS, IN and scalar subqueries, correlated or not,    *)
(* nested, in every order of the conjuncts of a WHERE.                     *)
(***************************************************************************)
EXTENDS SqlToRa

N(text) == <<text, 0>>

(* Columns: o_x, o.x (with the alias o) *)
Plain(prefix, rest)          == Column(NoName, <<prefix, rest>>)
Aliased(alias, prefix, rest) == Column(N(alias), <<prefix, rest>>)

o_k == Aliased("o", "o", "orderkey")
o_x == Aliased("o", "o", "totalprice")
c_k == Aliased("c", "c", "custkey")
c_y == Aliased("c", "c", "acctbal")
l_k == Aliased("l", "l", "orderkey")
l_x == Aliased("l", "l", "quantity")
s_k == Aliased("s", "s", "suppkey")
s_x == Aliased("s", "s", "acctbal")

Eq(l, r) == Cmp(l, "=", r)
Not(e)   == Expr("not", <<e>>)
Or(a, b) == Expr("or", <<a, b>>)
IsNull(e) == Expr("null", <<e>>)
Between(e, lo, hi) == Cmp(e, "between", Expr("list", <<lo, hi>>))

(* The conjunction of a list of conditions, as pg_query flattens it *)
And(es) == IF es = <<>> THEN NoExpr
           ELSE IF Len(es) = 1 THEN es[1] ELSE Expr("and", es)

(* All lists of 1 to n different members of S *)
Lists(S, n) == {s \in UNION {[1 .. k -> S] : k \in 1 .. n} : IsInjective(s)}

OrdersO    == RangeVar(N("orders"), N("o"))
CustomerC  == RangeVar(N("customer"), N("c"))
LineitemL  == RangeVar(N("lineitem"), N("l"))
SupplierS  == RangeVar(N("supplier"), N("s"))
Lineitem   == RangeVar(N("lineitem"), NoName)
LeftJoin   == JoinExpr("LEFT", NoName, OrdersO, CustomerC, Eq(o_k, c_k))
(* A derived table named c over relation r *)
DerivedC(r, cond) == RangeSubselect(Select(<<Star>>, <<r>>, cond), N("c"), <<>>)

(* Subqueries over lineitem l and supplier s *)
OfLineitem(targets, conds) == Select(targets, <<LineitemL>>, And(conds))
OfSupplier(targets, conds) == Select(targets, <<SupplierS>>, And(conds))
Minimum(e) == Func("min", <<e>>)

Correlation == Eq(l_k, o_k)
ExistsL     == Exists(OfLineitem(<<Star>>, <<Correlation>>))
InL         == In(c_k, OfLineitem(<<l_k>>, <<Eq(l_x, Const), Correlation>>))
ScalarL     == Eq(o_x, Scalar(OfLineitem(<<Minimum(l_x)>>, <<Correlation>>)))
ExistsS     == Exists(OfSupplier(<<Star>>, <<>>))
InS         == In(o_k, OfSupplier(<<s_k>>, <<Eq(s_x, Const)>>))
ScalarS     == Eq(o_x, Scalar(OfSupplier(<<Minimum(s_x)>>, <<>>)))

(* What the parser makes of the statement q *)
TreeOf(q) == LET Tree(h) == [node |-> h.node, ch |-> h.ch, pred |-> h.pred, term |-> h.term,
                             columns |-> h.columns, root |-> h.r, fresh |-> h.fresh, ctes |-> h.ctes, counter |-> h.counter]
             IN  Tree(parse_select_statement(EmptyHeap, q))

=============================================================================
