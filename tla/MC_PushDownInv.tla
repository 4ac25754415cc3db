--------------------------- MODULE MC_PushDownInv ---------------------------
(* Small trees for the inductive invariant, which quantifies over sets of nodes *)
EXTENDS PlacementInv, Corpus

Conditions == {Eq(o_x, Const), Eq(o_k, c_k), ExistsS, Correlation,
               Expr("and", <<Eq(c_y, Const), Eq(c_y, o_x)>>)}

MCTrees ==
    {TreeOf(Select(<<Star>>, f, And(c))) :
        f \in {<<OrdersO, CustomerC>>, <<DerivedC(Lineitem, Eq(Plain("l", "quantity"), Const))>>},
        c \in Lists(Conditions, 3)}
=============================================================================
