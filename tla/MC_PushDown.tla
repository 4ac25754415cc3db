---------------------------- MODULE MC_PushDown -----------------------------
(* Trees for predicate push-down: what the parser makes of small statements *)
EXTENDS PushDown, Corpus

(* Conditions of the outer WHERE, over orders o and customer c *)
Conditions == {Eq(o_x, Const), Eq(o_k, c_k), Or(Eq(o_x, Const), ExistsS), ExistsL,
               Not(InS), InL, ScalarL, ScalarS, IsNull(c_y), Eq(Const, Const),
               Eq(Plain("c", "name"), Const), Eq(Plain("flag", ""), Const),
               Expr("and", <<Eq(c_y, Const), Expr("and", <<ExistsS, Eq(c_y, o_x)>>)>>)}

Froms == {<<OrdersO, CustomerC>>, <<LeftJoin>>, <<OrdersO, CustomerC, Lineitem>>,
          <<OrdersO, DerivedC(Lineitem, Eq(Plain("l", "quantity"), Const))>>,
          <<DerivedC(CustomerC, NoExpr), OrdersO>>}

Flat == {Select(<<Star>>, f, And(c)) : f \in Froms, c \in Lists(Conditions, 2)}

(* EXISTS in EXISTS, with the conditions of the inner one in any order *)
Inner  == {Correlation, Eq(l_x, Const), Exists(OfSupplier(<<Star>>, <<Eq(s_k, l_k)>>)),
           In(l_k, OfSupplier(<<s_k>>, <<>>))}
Nested == {Select(<<o_k>>, <<OrdersO>>, And(<<Exists(OfLineitem(<<Star>>, c)), Eq(o_x, Const)>>)) :
              c \in Lists(Inner, 3)}

(* A relation of the outer block that a subquery reads too *)
Shared == {Select(<<Star>>, <<OrdersO, Lineitem>>, And(c)) :
              c \in Lists({Eq(Plain("l", "quantity"), Const), ExistsL, ScalarL, InS}, 2)}

MCTrees == {TreeOf(q) : q \in Flat \cup Nested \cup Shared}

(* An EXISTS over lineitem whose own correlation follows a nested EXISTS *)
BehindMarker == {TreeOf(Select(<<Star>>, <<OrdersO>>, And(<<Exists(OfLineitem(<<Star>>, c))>>))) :
                    c \in Lists(Inner, 2)}

(* A derived table whose name is also the alias of the relation inside it *)
SameName == {TreeOf(Select(<<Star>>, <<OrdersO, DerivedC(CustomerC, NoExpr)>>, And(c))) :
                c \in Lists({Eq(c_y, Const), Eq(o_x, Const)}, 2)}
=============================================================================
