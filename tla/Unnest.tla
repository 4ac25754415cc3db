------------------------------- MODULE Unnest -------------------------------
(***************************************************************************)
(* RaTree::general_query_unnesting (src/optimizer/ra_tree.cc): a           *)
(* correlated scalar subquery becomes a derived table t, joined with the   *)
(* outer query on the attributes that correlate it.  Below t a dependent   *)
(* join with D, the projection of the outer query on these attributes, is  *)
(* pushed down until nothing below it needs D; then it is removed, if      *)
(* every attribute of D equals an inner one (decoupling), or the outer     *)
(* query moves into a CTE that both t's D and the outer query read.        *)
(*                                                                         *)
(* The split of a dependent join above a join that needs d on both sides   *)
(* is not modelled.  push_down_correlating_predicates is false and a       *)
(* correlating predicate stays above all joins of its block, so that this  *)
(* takes two scalar subqueries of one block that both refer further out;   *)
(* there the model has no next step.                                       *)
(***************************************************************************)
EXTENDS RaHeap

VARIABLES dep_join,              \* the dependent join that is pushed down
          rename_d_attributes    \* what can_decouple finds equal to them

unnesting == <<node, ch, pred, term, root, fresh, columns, ctes, counter, pc, status,
          markers_joins, mi, dep_join, rename_d_attributes>>

Stops(why) == /\ status' = why
             /\ UNCHANGED <<node, ch, pred, term, root, fresh, columns, ctes, counter, pc,
                            markers_joins, mi, dep_join, rename_d_attributes>>

At(label) == pc = label /\ status = "ok"

-----------------------------------------------------------------------------
(* Attributes *)

(* The names made up here: the alias d, the alias t and its columns m and t_x *)
D          == <<"d", 0>>
T(k)       == <<"t", k>>
M          == <<"m", "">>
TColumn(x) == <<"t">> \o x

(* What node n refers to: targets and other arguments, or its predicate *)
TermsOf(n) ==
    CASE node[n].node_case \in {"SELECTION", "JOIN"} -> pred[n]
      [] node[n].node_case \in {"PROJECTION", "GROUP_BY", "ORDER_BY"} -> node[n].args
      [] OTHER -> <<>>

(* The attributes in a list of terms, going down through some kinds of terms *)
AttributesIn(ts, kinds) ==
    LET below[t \in DOMAIN term] ==
            CASE term[t].op = "attr" -> <<t>>
              [] term[t].op \in kinds -> Joined(below, term[t].args)
              [] OTHER -> <<>>
    IN  Joined(below, ts)

Boolean == {"and", "or", "not"}
Valued  == {"func", "expr", "cast"}

(* The nodes a walk from x meets that turns back at stop and at other cases of nodes *)
Met(c, x, cases, stop) ==
    LET below[n \in Node] ==
            IF n = stop \/ node[n].node_case \notin cases THEN <<>>
            ELSE FoldLeft(LAMBDA nodes, m : nodes \o below[m], <<n>>, c[n])
    IN  below[x]

(***************************************************************************)
(* The predicate of a join for IN has no right side.  get_expression_      *)
(* attributes dereferences the nullptr there; find_attributes_using_alias  *)
(* and rename_attributes turn back, unless they have a node to stop at.    *)
(***************************************************************************)
IsInTest(n) == node[n].node_case = "JOIN" /\ pred[n] # <<>> /\ Len(term[pred[n][1]].args) = 1

(* find_attributes_using_alias: HAVING and what is below it is not visited *)
FoundCases == {"PROJECTION", "SELECTION", "GROUP_BY", "JOIN", "ORDER_BY"}
find_attributes_using_alias(c, x, aliases, stop) ==
    LET found[n \in Node] == AttributesIn(TermsOf(n), Boolean \cup Valued \cup {"cmp"})
        Uses(t) == \E a \in aliases : \/ term[t].alias = a
                                      \/ term[t].alias = NoName /\ is_tpch_attribute(term[t].name, a)
    IN  SelectSeq(Joined(found, Met(c, x, FoundCases, stop)), Uses)

(* rename_attributes visits less: it turns back at ORDER BY and expressions, too *)
RenamedCases == {"PROJECTION", "SELECTION", "GROUP_BY", "JOIN"}
Renamable(c, x) ==
    LET found[n \in Node] == AttributesIn(TermsOf(n), Boolean \cup {"func", "cmp"})
    IN  ToSet(Joined(found, Met(c, x, RenamedCases, 0)))

(***************************************************************************)
(* get_subtree_attributes: the predicates of selections and joins, where a *)
(* marker stands for the subtree of its join, arguments of GROUP BY, and   *)
(* those targets that are no Select_Expression: the ones added here.       *)
(***************************************************************************)
BareTargets(n) == IF node[n].alias = D THEN node[n].args
                  ELSE IF columns[n] # <<>> /\ columns[n][1] = M THEN Tail(node[n].args) ELSE <<>>

get_subtree_attributes(x) ==
    LET marked[t \in DOMAIN term] ==
            CASE term[t].op = "marker" -> <<t>>
              [] term[t].op = "cmp"    -> AttributesIn(term[t].args, Valued)
              [] term[t].op \in Boolean -> Joined(marked, term[t].args)
              [] OTHER -> <<>>
        Own(n) == CASE node[n].node_case = "PROJECTION" -> AttributesIn(BareTargets(n), Valued)
                    [] node[n].node_case = "GROUP_BY"   -> AttributesIn(node[n].args, Valued)
                    [] node[n].node_case \in {"SELECTION", "JOIN"} -> Joined(marked, pred[n])
                    [] OTHER -> <<>>
        below[n \in Node] ==
            LET Read(list, t) ==
                    list \o IF term[t].op # "marker" THEN <<t>>
                            ELSE below[find_join_by_marker(node, ch, root, term[t].id)]
            IN  FoldLeft(LAMBDA list, m : list \o below[m], FoldLeft(Read, <<>>, Own(n)), ch[n])
    IN  below[x]

(* Does the attribute belong to one of the relations (name, alias)? *)
BelongsTo(attr, relations) ==
    \E r \in relations : IF attr.alias # NoName THEN attr.alias \in {r[1], r[2]}
                         ELSE is_tpch_attribute(attr.name, r[1])

(* intersect_correlated_attributes: of the subtree x, given the relations on the left *)
CorrelatedAttributes(left, x) ==
    LET Of(right) == SelectSeq(get_subtree_attributes(x),
                               LAMBDA t : ~BelongsTo(term[t], right) /\ BelongsTo(term[t], left))
    IN  Of(get_relations_aliases(node, ch, x))

(* D, once it has targets, counts as the relation d *)
intersect_correlated_attributes(d, x) ==
    CorrelatedAttributes(IF node[d].args # <<>> THEN {<<NoName, D>>}
               ELSE get_relations_aliases(node, ch, ch[d][1]), x)

ReadsInTest(x) == \E i \in DOMAIN Preorder(ch, x) : IsInTest(Preorder(ch, x)[i])

-----------------------------------------------------------------------------
(* The pass *)

FindScalarMarkers ==
    LET Found(markers) ==
            /\ markers_joins' = [i \in DOMAIN markers |->
                   [marker |-> markers[i],
                    join |-> find_join_by_marker(node, ch, root, term[markers[i]].id)]]
            /\ mi' = Len(markers)
    IN  /\ At("unnest")
        /\ Found(find_subquery_markers(node, ch, pred, term, root, {"DEPENDENT_INNER_LEFT"}))
        /\ pc' = "introduce"
        /\ UNCHANGED <<node, ch, pred, term, root, fresh, columns, ctes, counter, status, dep_join, rename_d_attributes>>

marker           == markers_joins[mi].marker
original_join    == markers_joins[mi].join
right_projection == ch[original_join][2]

(* The alias and name of a correlated attribute; one met again is already d's *)
KeyOf(attrs, i) == IF \E j \in 1 .. i - 1 : attrs[j] = attrs[i]
                   THEN <<D, term[attrs[i]].name>> ELSE <<term[attrs[i]].alias, term[attrs[i]].name>>

(* The list without what is in it already *)
Distinct(s) ==
    LET first == SelectSeq([i \in DOMAIN s |-> i], LAMBDA i : \A j \in 1 .. i - 1 : s[j] # s[i])
    IN  [i \in DOMAIN first |-> s[first[i]]]

KeysOf(attrs) == Distinct([i \in DOMAIN attrs |-> KeyOf(attrs, i)])

(* In the arguments of the comparison that find_marker_parent finds it in *)
replace_subquery_marker(args, replacement) ==
    [i \in DOMAIN args |-> IF args[i] = marker THEN replacement ELSE args[i]]

(* The join as a product, and the projection of the subquery as the derived table t *)
AsProduct(label)           == [label EXCEPT !.type = "CROSS_PRODUCT", !.marker = 0]
AsTable(label, t, targets) == [label EXCEPT !.alias = t, !.args = @ \o targets]

(***************************************************************************)
(* 0. to 2.2 of decorrelate_subquery.  The marker gives way to the         *)
(* attribute t.m; the join becomes a product with t, and the selection     *)
(* above it gets the predicates x = t.t_x.  If no selection is there, the  *)
(* predicates go into another kind of node, taken for one.                 *)
(***************************************************************************)
IntroduceD ==
    LET t     == T(counter)
        body  == ch[right_projection][1]
        dep   == fresh
        d     == fresh + 1
        above == get_node_parent(ch, original_join)[1]
        base  == Len(term)
        New(keys) ==
            <<Attribute(t, M)>> \o
            FoldLeft(LAMBDA ts, i :
                ts \o <<Attribute(D, keys[i][2]), Attribute(NoName, keys[i][2]),
                        Attribute(keys[i][1], keys[i][2]), Attribute(t, TColumn(keys[i][2])),
                        Comparison(base + 5 * i - 1, "=", base + 5 * i)>>,
                <<>>, [i \in DOMAIN keys |-> i])
        Old(attrs) ==
            [u \in DOMAIN term |->
                [term[u] EXCEPT !.alias = IF u \in ToSet(attrs) THEN D ELSE @,
                                !.args = replace_subquery_marker(@, base + 1)]]
        Introduce(attrs, keys) ==
            /\ term' = Old(attrs) \o New(keys)
            /\ node' = [node EXCEPT
                   ![original_join] = AsProduct(@),
                   ![right_projection] = AsTable(@, t, [i \in DOMAIN keys |-> base + 5 * i - 3]),
                   ![dep] = Join("DEPENDENT_INNER_LEFT", 0),
                   ![d] = [NewNode("PROJECTION") EXCEPT !.alias = D,
                              !.args = [i \in DOMAIN keys |-> base + 5 * i - 2]]]
            /\ columns' = [columns EXCEPT
                   ![right_projection] = <<M>> \o [i \in DOMAIN keys |-> TColumn(keys[i][2])],
                   ![d] = [i \in DOMAIN keys |-> keys[i][2]]]
            /\ pred' = [pred EXCEPT ![above] =
                   FoldLeft(LAMBDA ps, i : add_predicate(term, ps, base + 5 * i + 1),
                            @, [i \in DOMAIN keys |-> i])]
    IN  /\ At("introduce") /\ mi > 0 /\ d \in Node
        /\ IF original_join = 0 \/ pred[original_join] # <<>> THEN Stops("assert")
           ELSE IF ch[body] = <<>> \/ node[above].node_case # "SELECTION" THEN Stops("undefined")
           ELSE IF ReadsInTest(ch[body][1]) THEN Stops("nullptr")
           ELSE /\ \E attrs \in {CorrelatedAttributes(get_relations_aliases(node, ch, ch[original_join][1]),
                                            ch[body][1])} :
                       \E keys \in {KeysOf(attrs)} : Introduce(attrs, keys)
                /\ ch' = [ch EXCEPT ![right_projection] = <<dep>>, ![dep] = <<d, body>>,
                                    ![d] = <<ch[original_join][1]>>]
                /\ counter' = counter + 1
                /\ fresh' = fresh + 2
                /\ dep_join' = dep
                /\ pc' = "push_down"
                /\ UNCHANGED <<root, ctes, status, markers_joins, mi, rename_d_attributes>>

d_projection == ch[dep_join][1]
below_join   == ch[dep_join][2]

(* Mutant: what was above the join does not learn of it *)
SwapUnseen(i) ==
    ch' = [ch EXCEPT ![below_join][i] = dep_join, ![dep_join][2] = ch[below_join][i]]

(* Mutant: the join keeps the child it had *)
SwapKeepingChild(i) ==
    LET slot == get_node_parent(ch, dep_join)
    IN  ch' = [ch EXCEPT ![slot[1]][slot[2]] = below_join, ![below_join][i] = dep_join]

(* The dependent join changes places with the node below it, going on at its side i *)
SwapWith(i) ==
    LET slot == get_node_parent(ch, dep_join)
    IN  ch' = [ch EXCEPT ![slot[1]][slot[2]] = below_join, ![below_join][i] = dep_join,
                         ![dep_join][2] = ch[below_join][i]]

NeedsD(x) == intersect_correlated_attributes(d_projection, x) # <<>>

(* Mutant: without the case of GROUP BY *)
PassableButGroups == {"PROJECTION", "SELECTION"}

(* The nodes with one child that push_down_dep_join knows *)
Passable == {"PROJECTION", "SELECTION", "GROUP_BY"}

(* push_down_dep_join through a node with one child; GROUP BY groups by d, too *)
PushThroughNode ==
    LET case == node[below_join].node_case
        base == Len(term)
        cols == columns[d_projection]
    IN  /\ At("push_down") /\ NeedsD(below_join)
        /\ case \in Passable
        /\ SwapWith(1)
        /\ IF case = "GROUP_BY"
           THEN /\ term' = term \o [i \in DOMAIN cols |-> Attribute(D, cols[i])]
                /\ node' = [node EXCEPT ![below_join].implicit = FALSE,
                                        ![below_join].args = @ \o [i \in DOMAIN cols |-> base + i]]
           ELSE UNCHANGED <<term, node>>
        /\ UNCHANGED <<pred, root, fresh, columns, ctes, counter, pc, status, markers_joins, mi, dep_join, rename_d_attributes>>

(* The side of the join below that needs d, 0 when both do or it is the right of an outer join *)
Side == LET label == node[below_join]
        IN  IF ~NeedsD(ch[below_join][2]) /\ label.type \in {"CROSS_PRODUCT", "INNER", "LEFT"} THEN 1
            ELSE IF ~NeedsD(ch[below_join][1]) /\ label.type \in {"CROSS_PRODUCT", "INNER"} THEN 2
            ELSE 0

PushThroughJoin ==
    /\ At("push_down") /\ NeedsD(below_join)
    /\ node[below_join].node_case = "JOIN" /\ Side # 0
    /\ SwapWith(Side)
    /\ UNCHANGED <<node, pred, term, root, fresh, columns, ctes, counter, pc, status,
                   markers_joins, mi, dep_join, rename_d_attributes>>

(* No case of push_down_dep_join applies: the loop around it goes on forever *)
PushNowhere ==
    /\ At("push_down") /\ NeedsD(below_join)
    /\ \/ node[below_join].node_case \notin Passable \cup {"JOIN"}
       \/ /\ node[below_join].node_case = "JOIN" /\ Side = 0
          /\ node[below_join].type \notin {"CROSS_PRODUCT", "INNER"}
    /\ UNCHANGED unnesting

-----------------------------------------------------------------------------
(* 4.: decoupling *)

(* The children without D's: D has the outer query, as the original join has *)
Apart == [ch EXCEPT ![d_projection] = <<>>]

(* The nodes above n up to the first projection, given those above its parent *)
PathStep(children, up, n) ==
    LET p == get_node_parent(children, n)[1]
    IN  IF node[p].node_case = "PROJECTION" THEN <<p>> ELSE <<p>> \o up[p]

(* ... and above the dependent join; the search for parents does not leave t *)
PathUp ==
    LET up[n \in UNION {Children(Apart, p) : p \in Node}] == PathStep(Apart, up, n)
    IN  up[dep_join]

(* The top level conjuncts met on the way up, in that order *)
ConjunctsOf(path) ==
    FoldLeft(LAMBDA ts, n : IF node[n].node_case \in {"SELECTION", "JOIN"}
                            THEN ts \o SplitNested(term, pred[n]) ELSE ts, <<>>, path)

(* has_equivalent_attribute: the inner attributes the conjuncts equate with d.name *)
EquivalentTo(name, conjuncts) ==
    LET IsD(t)    == term[t].op = "attr" /\ term[t].alias = D
        Other(t)  == IF IsD(term[t].args[1]) THEN term[t].args[2] ELSE term[t].args[1]
        Equates(t) == /\ term[t].op = "cmp" /\ term[t].oper = "=" /\ Len(term[t].args) = 2
                      /\ \A i \in 1 .. 2 : term[term[t].args[i]].op = "attr"
                      /\ Cardinality({i \in 1 .. 2 : IsD(term[t].args[i])}) = 1
                      /\ \E i \in 1 .. 2 : IsD(term[t].args[i]) /\ term[term[t].args[i]].name = name
        found == SelectSeq(conjuncts, Equates)
    IN  [i \in DOMAIN found |-> Other(found[i])]

(***************************************************************************)
(* rename_d_attributes, as can_decouple fills it: for each name of an      *)
(* attribute of d that is found above the join, what it is equated with.   *)
(***************************************************************************)
Equivalents(attrs, conjuncts) ==
    [name \in {term[attrs[i]].name : i \in DOMAIN attrs} |-> EquivalentTo(name, conjuncts)]

can_decouple(renames) == \A name \in DOMAIN renames : renames[name] # <<>>

(* 4.2: d.x is renamed to the first inner attribute it equals *)
DecoupledTerms(terms, renames) ==
    [t \in DOMAIN term |->
        IF t \in terms /\ term[t].alias = D /\ term[t].name \in DOMAIN renames
        THEN LET inner == term[renames[term[t].name][1]]
             IN  [term[t] EXCEPT !.alias = inner.alias, !.name = inner.name]
        ELSE term[t]]

(* 4.3: the conjuncts x = x *)
Redundant(tm, t) ==
    /\ tm[t].op = "cmp" /\ Len(tm[t].args) = 2
    /\ \A i \in 1 .. 2 : tm[tm[t].args[i]].op = "attr"
    /\ LET l == tm[tm[t].args[1]] r == tm[tm[t].args[2]] IN l.alias = r.alias /\ l.name = r.name

(***************************************************************************)
(* A call gets two pointers by reference: the one to its predicate t, and  *)
(* the one to what t is an argument of.  A pointer is <<>> for a nullptr.  *)
(* The calls for the arguments of an AND, an OR or a NOT clear the ones to *)
(* redundant comparisons; one that is left with a single argument, as each *)
(* NOT is, writes that argument into the second pointer: the whole         *)
(* predicate around it is replaced, by the last one that does so.          *)
(***************************************************************************)
Rewritten(self, left, written) ==
    IF left = <<>> THEN <<>> ELSE IF written # <<>> THEN <<Last(written)>> ELSE self

(* After the call for t: the two pointers it may write, and its arguments *)
RemoveStep(tm, removed, t) ==
    LET left    == FlattenSeq([i \in DOMAIN tm[t].args |-> removed[tm[t].args[i]].predicate])
        written == FlattenSeq([i \in DOMAIN tm[t].args |-> removed[tm[t].args[i]].parent])
    IN  IF tm[t].op \in Boolean
        THEN [predicate |-> Rewritten(<<t>>, left, written), args |-> left,
              parent |-> IF Len(left) = 1 THEN left ELSE <<>>]
        ELSE [predicate |-> IF Redundant(tm, t) THEN <<>> ELSE <<t>>, args |-> tm[t].args, parent |-> <<>>]

Removed(tm) == LET removed[t \in DOMAIN tm] == RemoveStep(tm, removed, t) IN removed

(***************************************************************************)
(* For the predicate ps of a selection: a single one, or the AND of all.   *)
(* What a call for ps itself writes into its second pointer is not read    *)
(* again.  An AND is the list of its arguments, also with one argument.    *)
(***************************************************************************)
remove_redundant_predicates(tm, ps) ==
    LET removed == Removed(tm)
        left    == FlattenSeq([i \in DOMAIN ps |-> removed[ps[i]].predicate])
        written == FlattenSeq([i \in DOMAIN ps |-> removed[ps[i]].parent])
        result  == IF Len(ps) = 1 THEN left ELSE Rewritten(left, left, written)
    IN  IF Len(result) = 1 /\ ~IsAtom(tm, result[1]) THEN removed[result[1]].args ELSE result

(* The predicates that the selections below x keep *)
Kept(tm, c, x) ==
    [n \in {m \in ToSet(Preorder(c, x)) : node[m].node_case = "SELECTION"} |->
        remove_redundant_predicates(tm, pred[n])]

(* The ANDs, ORs and NOTs in the predicate ps *)
BooleansIn(tm, ps) ==
    LET inside[t \in DOMAIN tm] ==
            IF tm[t].op \in Boolean
            THEN {t} \cup UNION {inside[tm[t].args[i]] : i \in DOMAIN tm[t].args} ELSE {}
    IN  UNION {inside[ps[i]] : i \in DOMAIN ps}

(* ... of the selections, with the arguments they keep *)
KeptTerms(tm, selections) ==
    LET cleaned == UNION {BooleansIn(tm, pred[n]) : n \in selections}
        removed == Removed(tm)
    IN  [t \in DOMAIN tm |-> IF t \in cleaned THEN [tm[t] EXCEPT !.args = removed[t].args] ELSE tm[t]]

(* Mutant: with what is below it *)
CutWithChild(c, n) == LET slot == get_node_parent(c, n)
                      IN  [c EXCEPT ![slot[1]] = <<>>, ![n] = <<>>]

(* One left without predicate is cut out *)
CutSelection(c, n) == LET slot == get_node_parent(c, n)
                      IN  [c EXCEPT ![slot[1]][slot[2]] = c[n][1], ![n] = <<>>]

(* One selection more, given the children without those before *)
CutUpTo(c, ns, cut, i) == IF i = 0 THEN c ELSE CutSelection(cut[i - 1], ns[i])

(* The children without the selections ns *)
CutAll(c, ns) ==
    LET cut[i \in 0 .. Len(ns)] == CutUpTo(c, ns, cut, i)
    IN  cut[Len(ns)]

NextMarker == mi' = mi - 1 /\ pc' = "introduce"

(***************************************************************************)
(* The loop is over: the dependent join becomes a product, and can_decouple*)
(* decides what comes next.  Its search for attributes of d stops there.   *)
(***************************************************************************)
PushedDown ==
    /\ At("push_down") /\ ~NeedsD(below_join)
    /\ \E path \in {PathUp} :
       IF \E n \in ToSet(Met(ch, Last(path), FoundCases, dep_join)) : IsInTest(n) THEN Stops("nullptr")
       ELSE /\ node' = [node EXCEPT ![dep_join].type = "CROSS_PRODUCT"]
            /\ \E renames \in {Equivalents(find_attributes_using_alias(ch, Last(path), {D}, dep_join),
                                           ConjunctsOf(path))} :
                  /\ rename_d_attributes' = renames
                  /\ pc' = IF can_decouple(renames) THEN "decouple" ELSE "outer"
            /\ UNCHANGED <<ch, pred, term, root, fresh, columns, ctes, counter, status,
                           markers_joins, mi, dep_join>>

(* The children once D and the dependent join are gone *)
WithoutD ==
    LET slot == get_node_parent(ch, dep_join)
    IN  [ch EXCEPT ![slot[1]][slot[2]] = below_join, ![dep_join] = <<>>, ![d_projection] = <<>>]

(* 4.: they go, the attributes of d are renamed, and conjuncts x = x go, too *)
Decouple ==
    LET Clean(tm, cut, kept) ==
            /\ term' = KeptTerms(tm, DOMAIN kept)
            /\ pred' = [n \in Node |-> IF n \in DOMAIN kept THEN kept[n] ELSE pred[n]]
            /\ ch' = CutAll(cut, SetToSeq({n \in DOMAIN kept : kept[n] = <<>>}))
            /\ node' = [n \in Node |-> IF ch[n] # <<>> /\ ch'[n] = <<>> THEN Free ELSE node[n]]
    IN  /\ At("decouple")
        /\ \E top \in {Last(PathUp)}, cut \in {WithoutD} :
           \E tm \in {DecoupledTerms(Renamable(cut, top), rename_d_attributes)} :
           \E kept \in {Kept(tm, cut, top)} : Clean(tm, cut, kept)
        /\ NextMarker
        /\ UNCHANGED <<root, fresh, columns, ctes, counter, status,
                       markers_joins, dep_join, rename_d_attributes>>

(* Mutant: the join keeps the outer query as well *)
OuterCopied(proj, outer) == [ch EXCEPT ![proj] = <<outer>>, ![d_projection] = <<fresh + 2>>]

(* 5.1 and 5.4: below proj, with leaves in its places *)
OuterMoved(proj, outer) == [ch EXCEPT ![proj] = <<outer>>, ![original_join][1] = fresh + 1,
                                      ![d_projection] = <<fresh + 2>>]

(***************************************************************************)
(* 5.: the outer query moves into a CTE on the attributes of it that are   *)
(* found in the tree, which are renamed, and both D and the join read it.  *)
(* The code has one relation node below both; here each has its own.       *)
(***************************************************************************)
MoveOuterToCte ==
    LET cte   == CteName(counter)
        proj  == fresh
        base  == Len(term)
        outer == ch[original_join][1]
        leaf  == Relation(cte, NoName)
        Attributes(ts) == Distinct([i \in DOMAIN ts |-> Attribute(term[ts[i]].alias, term[ts[i]].name)])
        Move(aliases, args, renamed) ==
            /\ term' = [t \in DOMAIN term |-> IF t \in renamed /\ term[t].alias \in aliases
                                              THEN [term[t] EXCEPT !.alias = cte] ELSE term[t]] \o args
            /\ node' = [node EXCEPT
                   ![fresh + 1] = leaf, ![fresh + 2] = leaf,
                   ![proj] = [NewNode("PROJECTION") EXCEPT
                                  !.alias = cte, !.args = [i \in DOMAIN args |-> base + i]]]
    IN  /\ At("outer") /\ fresh + 2 \in Node
        /\ \E moved \in {OuterMoved(proj, outer)} :
           /\ \E aliases \in {{IF r[2] # NoName THEN r[2] ELSE r[1] :
                                 r \in get_relations_aliases(node, ch, outer)}},
                 renamed \in {Renamable(moved, root)} :
              \E args \in {Attributes(find_attributes_using_alias(moved, root, aliases, 0))} :
                  Move(aliases, args, renamed)
           /\ ch' = moved
        /\ ctes' = Append(ctes, proj)
        /\ counter' = counter + 1
        /\ fresh' = fresh + 3
        /\ NextMarker
        /\ UNCHANGED <<pred, root, columns, status, markers_joins, dep_join, rename_d_attributes>>

Unnested ==
    /\ At("introduce") /\ mi = 0
    /\ pc' = "again"
    /\ UNCHANGED <<node, ch, pred, term, root, fresh, columns, ctes, counter, status,
                   markers_joins, mi, dep_join, rename_d_attributes>>

UnnestSubqueries == \/ FindScalarMarkers \/ IntroduceD
        \/ PushThroughNode \/ PushThroughJoin \/ PushNowhere
        \/ PushedDown \/ Decouple \/ MoveOuterToCte \/ Unnested

=============================================================================
