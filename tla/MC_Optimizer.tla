---------------------------- MODULE MC_Optimizer ----------------------------
EXTENDS Optimizer

-----------------------------------------------------------------------------
(* Databases: keys are 0 and 1, other columns also Null *)

TableOf(k, x, rows) == [cols |-> {k.name, x.name}, rows |-> rows \X {1}]
Row(k, x, a, b)     == (k.name :> a) @@ (x.name :> b)
AnyRow(k, x)        == {Row(k, x, a, b) : a \in {0, 1}, b \in {0, 1, Null}}
UpTo(n, k, x)       == {TableOf(k, x, rows) : rows \in {r \in SUBSET AnyRow(k, x) : Cardinality(r) <= n}}

Orders3    == TableOf(o_k, o_x, {Row(o_k, o_x, 0, 0), Row(o_k, o_x, 1, 1), Row(o_k, o_x, 1, 2)})
Customers2 == TableOf(c_k, c_y, {Row(c_k, c_y, 0, 1), Row(c_k, c_y, 1, Null)})
Suppliers  == {TableOf(s_k, s_x, {}), TableOf(s_k, s_x, {Row(s_k, s_x, 1, 1)})}

MCDatabases == {(N("orders") :> Orders3) @@ (N("customer") :> Customers2) @@
                (N("lineitem") :> l) @@ (N("supplier") :> s) :
                   l \in UpTo(2, l_k, l_x), s \in Suppliers}

-----------------------------------------------------------------------------
(* Conditions *)

ScalarOf(agg, conds) == Eq(o_x, Scalar(OfLineitem(<<Func(agg, <<l_x>>)>>, conds)))
ExistsOf(conds)      == Exists(OfLineitem(<<Star>>, conds))
ExistsBoth(conds)    == Exists(Select(<<Star>>, <<LineitemL, SupplierS>>, And(conds)))

Simple       == {Eq(o_x, Const), Eq(o_k, c_k), IsNull(c_y)}
Uncorrelated == {ExistsS, Not(ExistsS), InS, Not(InS), ScalarS}
Correlated   == {ExistsL, Not(ExistsL), ExistsOf(<<Correlation, Cmp(l_x, "<>", o_x)>>),
                 Not(ExistsOf(<<Correlation, Eq(l_x, Const)>>)),
                 ExistsBoth(<<Correlation, Eq(s_k, l_x)>>)}
Decoupled    == {ScalarOf("min", <<Correlation>>), ScalarOf("sum", <<Eq(l_x, Const), Correlation>>),
                 ScalarOf("min", <<Correlation, Eq(l_x, c_k)>>)}
ByCte        == {ScalarOf("min", <<Cmp(l_k, "<", o_k)>>), ScalarOf("min", <<Cmp(l_k, "<", c_k)>>)}

(* Without aliases: columns belong to the TPC-H relation of their prefix *)
p_o_k == Plain("o", "orderkey")
p_o_x == Plain("o", "totalprice")
p_l_k == Plain("l", "orderkey")
p_l_x == Plain("l", "quantity")
OfPlain(targets, conds) == Select(targets, <<Lineitem>>, And(conds))
PlainConditions == {Eq(p_o_x, Const), Exists(OfPlain(<<Star>>, <<Eq(p_l_k, p_o_k)>>)),
                    Eq(p_o_x, Scalar(OfPlain(<<Minimum(p_l_x)>>, <<Eq(p_l_k, p_o_k)>>))),
                    Eq(p_o_x, Scalar(OfPlain(<<Minimum(p_l_x)>>, <<Cmp(p_l_k, "<", p_o_k)>>)))}
Orders == RangeVar(N("orders"), NoName)

Froms == {<<OrdersO, CustomerC>>, <<LeftJoin>>}
Queries(froms, lists) == {Select(<<o_k, c_k>>, f, And(c)) : f \in froms, c \in lists}

(* An OR is a selection of its own; GROUP BY, HAVING and ORDER BY of the outer query *)
Ors     == {Or(Eq(o_x, Const), ExistsS), Or(Eq(o_x, Const), IsNull(c_y)), Or(ExistsL, IsNull(c_y))}
OverOrders(froms, conds, havings, orders) ==
    {[Select(<<o_k, Func("sum", <<c_y>>)>>, f, c) EXCEPT !.group = <<o_k>>, !.having = h, !.order = d] :
        f \in froms, c \in conds, h \in havings, d \in orders}
SumAbove == Cmp(Func("sum", <<c_y>>), ">", Const)
Grouped  == OverOrders(Froms, {ExistsL, ScalarS} \cup Decoupled, {NoExpr, SumAbove}, {<<o_k>>})
            \cup OverOrders(Froms, ByCte, {NoExpr}, {<<>>})

MCStatements ==
    Queries(Froms, Lists(Simple \cup Uncorrelated \cup Correlated \cup Decoupled, 2)) \cup
    Queries(Froms, Lists(Simple \cup ByCte, 2)) \cup
    Queries(Froms, Lists(Ors, 1)) \cup Grouped \cup
    {Select(<<p_o_k>>, <<Orders>>, And(c)) : c \in Lists(PlainConditions, 1)}

-----------------------------------------------------------------------------
(* Nested subqueries: the inner one reads lineitem as m *)
m_k == Aliased("m", "l", "orderkey")
m_x == Aliased("m", "l", "quantity")
OfM(targets, conds) == Select(targets, <<RangeVar(N("lineitem"), N("m"))>>, And(conds))

Inner == {Exists(OfM(<<Star>>, <<Eq(m_k, l_k)>>)), Not(Exists(OfM(<<Star>>, <<Eq(m_k, o_k)>>))),
          Eq(l_x, Scalar(OfM(<<Minimum(m_x)>>, <<Eq(m_k, l_k)>>))),
          Eq(l_x, Scalar(OfM(<<Minimum(m_x)>>, <<Cmp(m_k, "<", l_k)>>))),
          In(l_x, OfSupplier(<<s_k>>, <<>>))}
Outer(conds) == {ExistsOf(conds), ScalarOf("min", conds), In(o_k, OfLineitem(<<l_k>>, conds))}

(* A dependent join stops above HAVING *)
WithHaving == Eq(o_x, Scalar([OfLineitem(<<Minimum(l_x)>>, <<Correlation>>) EXCEPT
                                 !.having = Cmp(Minimum(l_x), ">", Const)]))

(* Decoupling replaces the conjuncts of l by what is left of an OR or of a NOT *)
Replaced == {ScalarOf("min", <<Correlation, Not(Eq(l_x, Const))>>),
             ScalarOf("min", <<Correlation, Or(Correlation, Eq(l_x, Const))>>),
             ScalarOf("min", <<Correlation, Or(Correlation, Not(Correlation))>>)}

NestedStatements ==
    Queries({<<OrdersO, CustomerC>>},
            UNION {Lists(Outer(<<Correlation, i>>) \cup Outer(<<i>>) \cup {Eq(o_k, c_k), ExistsL}, 2) : i \in Inner}
            \cup Lists(Replaced, 1) \cup {<<WithHaving>>})

-----------------------------------------------------------------------------
(* Statements the optimizer does not get right: runs correlated_later, having and two_comparisons *)
Single(conds) == {Select(<<o_k, o_x>>, <<OrdersO>>, And(conds))}

CorrelatedLater  == Single(<<ExistsOf(<<Eq(l_x, Const), Correlation>>)>>)
HavingStatements == Single(<<WithHaving>>)
TwoComparisons   == Single(<<ScalarOf("min", <<Cmp(l_k, "<", o_k), Correlation>>)>>)

(* Others, in the README's list: values for Statements that violate SameResult *)
OrStatements     == {Select(<<o_k, c_k>>, <<OrdersO, CustomerC>>, And(<<Or(Eq(o_x, Const), IsNull(c_y)), Eq(c_k, Const)>>))}
NotNull          == {Select(<<c_k>>, <<CustomerC>>, Not(IsNull(c_y)))}
OuterOnTheLeft   == Single(<<ExistsOf(<<Cmp(o_k, "<", l_k)>>)>>)
CorrelatedIn     == Single(<<In(o_x, OfLineitem(<<l_x>>, <<Correlation>>))>>)
NestedExists     == Single(<<ExistsOf(<<Correlation, ExistsS>>)>>)
SumBelow         == Single(<<ScalarOf("sum", <<Cmp(l_k, "<", o_k)>>)>>)
NotInScalar      == Single(<<ScalarOf("min", <<Correlation, Not(Eq(l_x, Const))>>)>>)
OrInScalar       == Single(<<ScalarOf("min", <<Correlation, Or(Correlation, Eq(l_x, Const))>>)>>)
Counted          == Single(<<Cmp(Const, ">", Scalar(OfLineitem(<<Func("count", <<l_x>>)>>, <<Correlation>>)))>>)
OrderedCte       == OverOrders({<<OrdersO, CustomerC>>}, ByCte, {NoExpr}, {<<o_k>>})

(* ... and NeverDies *)
TwoScalars       == Single(<<Or(ScalarOf("min", <<Correlation>>), Eq(o_x, Scalar(OfM(<<Minimum(m_x)>>, <<Eq(m_k, o_k)>>))))>>)
InInScalar       == Single(<<ScalarOf("min", <<Correlation, In(l_x, OfSupplier(<<s_k>>, <<>>))>>)>>)

=============================================================================
