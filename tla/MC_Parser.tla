----------------------------- MODULE MC_Parser ------------------------------
(* Statements for the parser: every clause, every kind of subquery *)
EXTENDS Parser, Corpus

(* Conditions of the outer WHERE, over orders o and customer c *)
Conditions == {Eq(o_x, Const), Eq(o_k, c_k), Or(Eq(o_x, Const), ExistsS), ExistsL,
               Not(ExistsL), Not(InS), InL, ScalarL, ScalarS, IsNull(c_y),
               Expr("and", <<Eq(c_y, Const), ExistsS>>), Const}

Froms == {<<OrdersO, CustomerC>>, <<LeftJoin>>, <<OrdersO, CustomerC, Lineitem>>,
          <<OrdersO, DerivedC(Lineitem, Eq(Plain("l", "quantity"), Const)), Lineitem, SupplierS>>}

Flat == {Select(<<Star>>, f, And(c)) : f \in Froms, c \in Lists(Conditions, 2) \ {<<Const>>}}

(* EXISTS in EXISTS, with the conditions of the inner one in any order *)
Inner  == {Correlation, Eq(l_x, Const), Exists(OfSupplier(<<Star>>, <<Eq(s_k, l_k)>>))}
Nested == {Select(<<o_k>>, <<OrdersO>>, And(<<Exists(OfLineitem(<<Star>>, c)), Eq(o_x, Const)>>)) :
              c \in Lists(Inner, 3)}

(* GROUP BY, HAVING with a subquery, ORDER BY, WITH, no FROM *)
Havings == {NoExpr, Cmp(Func("sum", <<o_x>>), ">", Const),
            Cmp(Func("sum", <<o_x>>), ">", Scalar(OfSupplier(<<Minimum(s_x)>>, <<>>)))}
Grouped == {[with |-> w, targets |-> <<o_k, Func("sum", <<o_x>>)>>, from |-> f, where |-> c,
             group |-> g, having |-> h, order |-> d] :
              w \in {<<>>, <<CommonTable(N("v"), <<s_k.name>>, OfSupplier(<<s_k>>, <<ExistsS>>))>>},
              f \in {<<>>, <<OrdersO>>, <<OrdersO, CustomerC>>},
              c \in {NoExpr, ScalarS}, g \in {<<>>, <<o_k>>}, h \in Havings, d \in {<<>>, <<o_k>>}}

MCStatements == Flat \cup Nested \cup Grouped

(* A subquery on the left of a comparison *)
LeftSubquery == {Select(<<Star>>, <<OrdersO>>,
                        Cmp(Scalar(OfSupplier(<<Minimum(s_x)>>, <<>>)), "<", r)) :
                    r \in {o_x, Const}}

(* An uncorrelated subquery over a derived table, a correlated BETWEEN *)
Correlations == {Select(<<Star>>, <<OrdersO>>, And(<<Exists(q), Eq(o_x, Const)>>)) :
    q \in {Select(<<Star>>, <<DerivedC(Lineitem, NoExpr)>>, Eq(c_k, Const)),
           OfLineitem(<<Star>>, <<Between(l_x, o_x, o_k)>>),
           OfLineitem(<<Star>>, <<IsNull(o_x)>>)}}
=============================================================================
