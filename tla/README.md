# sql_optimizer in TLA+

A verification project for the SQL unnesting optimizer of this repository: TLA+
models of its parser, of each pass of `RaTree::optimize` and of its deparser, a
composition that compares the SQL printed at the end with the statement read at the
beginning on small databases, an abstract specification of predicate push-down, TLC
runs that check all of this on small statements, and TLAPS proofs about push-down, the
refinement included, and about the decorrelation of EXISTS and IN, for trees of any size.

The optimizer is a single-threaded program, `optimizer/optimizeSQL.cc`, that takes
one SELECT statement through three stages:

    SQL --libpg_query--> parse tree --SQLtoRA--> RaTree --optimize()--> RaTree --RAtoSQL--> SQL

There is no concurrency, no persistence and no network in it. What is hard about it
is that every stage rewrites one mutable tree of shared pointers, by searches
("first empty leaf", "lowest node that defines these names", "parent of this
node") whose answer depends on what earlier steps did to the tree.

## Inventory

| Component | State it keeps | Operations | Talks to |
|---|---|---|---|
| `relational_algebra.h/.cc` | nodes: case, `childNodes`, predicate, alias, marker | constructors, `is_full`, `to_string` | everyone: the shared data structure |
| `SQLtoRA` (`parse_sql_to_ra.cc`) | `ra_tree_root`, `ctes`, `counter`, the nodes it allocates | `parse`, one `parse_*` per clause and kind of subquery, `add_subtree`, `find_empty_leaf`, `is_correlated_subquery` | reads pg_query's parse tree, hands root, CTEs and counter to `RaTree` |
| `RaTree::push_down_predicates` (`ra_tree.cc`) | the tree; its list of selections and extracted conjuncts | collect, extract, place, remove | called twice by `optimize()` |
| EXISTS/IN decorrelation (`ra_tree.cc:103-224`, searches up to 1875) | the tree, `ctes`, `counter` | `decorrelate_exists_in_subquery` per marker, innermost first | between the two push-downs |
| General unnesting (`ra_tree.cc:527-1532`) | the tree, `ctes`, queue of dependent joins, renamings | `decorrelate_subquery`, `push_down_dep_join`, `can_decouple`, `rename_attributes` | after EXISTS/IN decorrelation |
| `RAtoSQL` (`deparse_ra_to_sql.cc`) | text of SELECT, WHERE, ... of the current block | `deparse_projection`, `deparse_ra_node`, `find_marker_subquery` | reads the final tree and CTEs |
| Driver (`optimizeSQL.cc`) | none | runs lists of statements | the three stages in order |
| libpg_query, protobuf, vendor | | | third party, external to this project |

What makes each of them correct:

- **parser**: one tree that holds all that was allocated; each subquery's join
  below the clause that holds its marker; the FROM clause intact; termination;
  correlation decided correctly;
- **push-down**: a tree stays a tree; conjuncts are neither lost nor duplicated nor
  moved to another query block; each ends at the lowest node that defines its
  names; no empty selection remains; termination;
- **EXISTS/IN decorrelation**: exactly the correlating conjuncts leave the
  subquery, every marker keeps its join, CTEs are defined before they are used;
- **unnesting**: the dependent join is gone and the pushing ends; no name refers to
  a relation that is out of scope; shared subtrees are the CTE's;
- **deparser**: `find_marker_subquery` finds every marker; one block per projection;
  the text, read again, groups conditions as the tree does;
- **all together**: the SQL printed is valid and returns the rows of the statement,
  each as often; the passes hand each other what they expect; the program ends.

The hazards behind these are listed, line by line, in `PROJECT.json`.

## Modules

| Module | What it is |
|---|---|
| `RaTree` | constant operators: the heap of nodes, predicates and terms, and the read-only walks of `ra_tree.cc` (`get_relations_aliases`, `has_relations_defined`, `get_node_parent`, `split_selection_predicates`, `add_predicate_to_selection`, ...) |
| `SqlToRa` | the functions of `SQLtoRA` over a heap under construction |
| `Parser` | `SQLtoRA::parse` as a state machine, one step per clause of the outermost statement |
| `Corpus` | statements: FROM items, conditions, subqueries over TPC-H relations |
| `PushDown` | `push_down_predicates` as a state machine, and both calls of it by `optimize()` |
| `Conjuncts` | abstract specification of push-down: conjuncts are held by the query or wait |
| `PushDownInv` | what is assumed of the trees, the inductive invariant, and the refinement mapping to `Conjuncts` |
| `PlacementInv` | what the parser guarantees about subqueries and markers, and the second inductive invariant, about where conjuncts go |
| `PushDownProofs`, `ConjunctsProofs` | the theorems: invariants of the tree and its conjuncts, and the refinement |
| `WalkProofs` | lemmas about recursive walks over trees, terms and lists, and about the searches built on them |
| `LowestProofs`, `PlacementProofs` | the theorems about where conjuncts go |
| `RaHeap` | the heap and the loop variables that the two decorrelating passes share |
| `ExistsIn` | `decorrelate_all_exists_in_subqueries` as a state machine |
| `ExistsInInv` | what that pass is given (`HandedOver`), what it keeps (`ForestKept`, `NodesKept`) and the inductive invariant |
| `ExistsInProofs` | the theorems about it |
| `Unnest` | `general_query_unnesting` as a state machine |
| `UnnestInv` | what that pass is given (`HandedOn`), what it keeps (`TreesKept`, `OthersKept`, `AlwaysLower`) and the inductive invariant |
| `UnnestProofs` | the theorems about it |
| `Deparse` | `RAtoSQL` as operators: the statement that the printed text parses into |
| `Meaning` | the reference: which statements are valid and what rows they return on a database, with NULLs and duplicates. It models SQL, not this code |
| `Optimizer` | the driver: parse, the four passes of `optimize()` on one heap, deparse. The passes are those of the modules above |
| `MC_Parser`, `MC_PushDown`, `MC_PushDownInv`, `MC_Optimizer` | the statements, trees and databases of the runs |

### The heap (`RaTree`)

A `shared_ptr` is a number, so two slots can hold the same object, as in the code.
`node[n]` is the node's case and fields, `ch[n]` its `childNodes`, `pred[n]` its
predicate, `term[t]` a predicate or expression node. A predicate is the list of its
conjuncts: `<<>>` is `nullptr`, `<<t>>` the single predicate `t`, a longer list a
`Bool_Predicate` AND with these args. This folds the three branches of
`add_predicate_to_selection` that set, push or wrap into one `Append`, and leaves its
missing branch, a predicate that is a bare subquery marker, visible. An AND whose
args were all dropped by the parser would be an AND without args in the code and is
`nullptr` here; no statement of the corpus has one.

Names are pairs `<<text, number>>`, so that `marker_3` is `<<"marker_", 3>>` and no
string is built. A column is the pair of the part before its first underscore, which
`get_tpch_relation_name` looks at, and the rest.

`get_node_parent` searches depth first from the root. The model picks the slot that
holds the node; `TreeShape` says that there is only one, so both find the same.

### The parser (`SqlToRa`, `Parser`)

Each function takes the heap and returns it with the pointer it would return in
`h.r`. `status` leaves `"ok"` where the process would die: the assertion in
`add_subtree`, the endless recursion of `find_empty_leaf` in a cyclic tree, the use of
a null pointer. `Parser` runs the clauses in the code's order (WITH, SELECT, ORDER
BY, HAVING, GROUP BY, WHERE, FROM); subqueries are parsed within the step of their
clause. The text of constants and operators, column aliases and DISTINCT are left out:
no decision depends on them.

### Push-down (`PushDown`)

| Action | Code (`ra_tree.cc`) |
|---|---|
| `CollectSelections` | one node of `get_all_selections` (1.1) |
| `ExtractPredicates` | 1.2 to 1.5: split all predicates, set them to `nullptr`, save them |
| `FindLowest`, `Descend` | `find_lowest_child_insert_selection` and one level of `find_node_where_relations_defined` |
| `ReAdd` | 2.2, back to its own selection |
| `InsertInJoin`, `InsertInSelection`, `InsertNewSelection` | the three places a conjunct can go |
| `RemoveSelection`, `KeepSelection` | 2.3 |
| `Return`, `SecondCall` | the end of the pass; `optimize()` calling it again |

`SecondCall` is taken only on trees without a dependent join: there the decorrelation
between the two calls finds nothing to do. `convert_cp_to_join`, a constant of
`ra_tree.h:32`, is a CONSTANT here. `push_down_correlating_predicates` (`ra_tree.h:30`)
is false in the code, and the branch it guards (`ra_tree.cc:52-73`) is not modelled.

`Conjuncts` says what the pass promises without its tree: it has three variables, the
conjuncts the query holds, those that wait, and which are markers, and three actions,
`TakeOut`, `GiveBack` and `Drop`; `Drop` needs a marker that is held. The mapping in
`PushDownInv` counts the predicate of a selection as the conjuncts it splits into, those of
a join as they are, and as waiting what `work` has from the loops' position on.

### EXISTS and IN (`ExistsIn`)

| Action | Code (`ra_tree.cc`) |
|---|---|
| `FindMarkers` | 1. and 2.: all markers, then all joins, before anything changes |
| `FindCorrelation` | 2. of `decorrelate_exists_in_subquery`, with both assertions |
| `MoveToCte` | 3. and 3.1: the projection that takes over the subtree, the erase, the selection that goes |
| `SelectFromCte` | 4.: what replaces the subquery |

Every child index the code records is 0, so that `EraseCorrelating` takes as many
arguments as there are correlating predicates from the front.

Between `MoveToCte` and `SelectFromCte` the old projection of the subquery still has its
child, which the CTE has as well. The code cuts out the selection by a search that starts
at the CTE's projection and so never comes by the old one; `MoveToCte` therefore searches
the children without the old projection's. `Owned` of `ExistsInInv` is the tree seen the
same way.

### General unnesting (`Unnest`)

| Action | Code (`ra_tree.cc`) |
|---|---|
| `FindScalarMarkers` | 1. and 2. of `general_query_unnesting` |
| `IntroduceD` | 0. to 2.2 of `decorrelate_subquery`: t, D and the dependent join |
| `PushThroughNode`, `PushThroughJoin` | one call of `push_down_dep_join` |
| `PushNowhere` | a call that finds no case: nothing changes and the loop goes on |
| `PushedDown` | the end of the loop, and `can_decouple` |
| `Decouple` | 4.: D goes, its attributes are renamed, a = a is removed |
| `MoveOuterToCte` | 5.: the outer query becomes a CTE |

Which terms a walk visits is part of the model, since the walks differ:
`find_attributes_using_alias` visits ORDER BY and expressions, `rename_attributes` does
not, `get_subtree_attributes` sees only targets that this pass added, none of them
visits HAVING. `status` leaves `"ok"` where an assertion fails (`"assert"`), where a null
pointer is used (`"nullptr"`) and where a node is treated as one of another class or a
vector is read past its end (`"undefined"`). Differences to the code that cannot be
observed: the relation node of a CTE that D and the join share is two nodes here; the
branch of `find_marker_parent` that casts a selection to a boolean predicate is not taken.

`remove_redundant_predicates` passes two pointers by reference, and its recursion writes
through both: it clears the pointer to a comparison a = a, and an AND, OR or NOT with one
argument left writes that argument over the predicate *around* it. For a selection with
l = o AND NOT p this is the selection's own predicate: p is left, without its NOT and
without the other conjuncts. `RemoveStep` has both pointers (`predicate` and `parent`), `Rewritten`
says which write is the last, and `KeptTerms` has the arguments that are left inside.
One difference remains: at the top a selection's AND is the list of its arguments, so
that an AND left with one argument, which the code keeps, is that argument here. The
second push-down makes the same of it. Only a later decoupling could tell them apart: of a
subquery around this one, where the walk over its selections meets such an AND with an OR
or NOT of one argument inside. No statement of the runs has that.

While D is there, it has the outer query as its child, and so has the original join. The
code looks for the dependent join and for the projection above it from t's projection on,
where it meets the outer query below D only; `PathUp` therefore walks in `Apart`, the children
without D's. `Kids` of `UnnestInv` is the tree seen the same way. `CutAll` cuts the selections
that decoupling leaves without a predicate out one by one, from the tree `WithoutD`.

### The deparser and the composition (`Deparse`, `Optimizer`)

`deparse` gives the nested records of the parse tree that the printed text has, not the
tree's: where `deparse_ra_node` prints no parentheses, the precedence of AND and OR
regroups the conditions, and where it prints no NOT there is none. A failed assertion
is an expression that no statement may have, so the result is not valid.

`Optimizer` extends `UnnestInv`, and so both decorrelating passes, and instantiates
`PlacementInv` over the same heap variables; the passes hand over through `pc`. Parsing is done in `Init` by the same
operators as in `Parser`.

`Meaning` evaluates a statement, the one read as well as the one printed, on a
database: three-valued logic, NULLs, duplicates, LEFT joins, correlated subqueries,
grouping, HAVING, derived tables and CTEs. Rows are pairs of a row and a copy number, so
that bags are sets. `SameRows` also asks that the printed statement resolves: every column
belongs to exactly one relation in scope, every table is defined before it is read.

## Runs

| Run | Checks | Result |
|---|---|---|
| `parser` | `TypeOK`, `WholeTree`, `MarkersPaired`, `FromKept`, `NeverDies` | holds |
| `pushdown` | `TypeOK`, `TreeShape`, `LostOnlyToMarker`, `PlacedLowest`, `BlockKept`, `Terminates`; constants as in `ra_tree.h` | holds |
| `pushdown_inv` | `IInv`, `PInv`, `Connected`, `Conserved`, `NotDuplicated`, `NoEmptySelection`, and that `PushDown` implements `Conjuncts` (`Implements`); `convert_cp_to_join` true | holds |
| `optimizer` | `NeverDies`, `WholeForest`, `SameResult`, `Finished`; constants as in `ra_tree.h` | holds |
| `nested` | `WholeForest`, `CteBeforeUse`, `ForestKept`, `NodesKept`, `TreesKept`, `OthersKept`, `AlwaysLower` for subqueries in subqueries | holds |
| `left_subquery` | `NeverDies` for a subquery left of a comparison | violated |
| `correlations` | `CorrelationExact`: `is_correlated_subquery` against the columns that are really free | violated |
| `behind_marker` | `AllConjunctsAdded`: no conjunct is dropped, whatever holds the marker | violated |
| `same_name` | `BlockAlwaysKept`: conjuncts stay in their block, same names or not | violated |
| `correlated_later` | `SameResult` when the correlating condition of EXISTS is not the first | violated |
| `two_comparisons` | `SameResult` when a scalar subquery has both l = o and l < o | violated |
| `having` | `Finished` for a correlated scalar subquery with HAVING | violated |

The violations are the findings of `PROJECT.json`: the code disagrees with its
own comments there. `LostOnlyToMarker` and `BlockKept` in the passing runs show that
these are the only ways in which push-down loses or misplaces a conjunct on the
corpus.

`WholeForest` connects the passes: what the second push-down and the deparser are given
satisfies, for the query and for each CTE, what the proofs assume of a tree. At both
calls of push-down the query also satisfies `MarkersOK`, what the theorems about
placement assume of its markers. Their third assumption, that the arguments of a term
were allocated before it (`TermsOrdered`), holds at the first call only: decorrelation
overwrites arguments in place, and may put a term below one that is older. It serves to
show that a walk over a term ends, nothing more. Where the decorrelation of EXISTS and IN
begins, `WholeForest` asks for `HandedOver`, the assumption of the theorems about it, and
where general unnesting begins for `HandedOn`.

`ForestKept` and `NodesKept` look at each step of that pass: the query and the CTEs are whole
trees that share no node, and no step loses a node but the two that are meant to go, the
selection whose condition moves out and the projection that is replaced.

`TreesKept` and `OthersKept` ask the same of general unnesting: while D is there it shares the
outer query with the original join, and nothing else is shared; only decoupling takes nodes
out, D with its join and the selections it leaves without a predicate. `AlwaysLower` says
that a round of the pushing loop leaves fewer nodes below the dependent join, or changes
nothing, or is the last.

`SameResult` holds on `MCStatements`, which is what the optimizer gets right. It
does not hold of every statement the parser accepts. `MC_Optimizer` has one statement, or a
few, for each way it was seen to fail; the three with a run are above, the others can be
given to `Statements` in `Optimizer.cfg`:

| Statements | Property | What happens |
|---|---|---|
| `OrStatements` | `SameResult` | an OR that is the first selection of its block is printed without parentheses before " and " (`deparse_ra_to_sql.cc:111`) |
| `NotNull` | `SameResult` | NOT (x IS NULL) is printed as x IS NULL (`deparse_ra_to_sql.cc:417`) |
| `OuterOnTheLeft` | `SameResult` | outer < inner comes back as inner < outer (`ra_tree.cc:1790`, `199-201`) |
| `CorrelatedIn` | `SameResult` | the IN's target is not a column of the CTE (`ra_tree.cc:219`) |
| `NestedExists` | `SameResult` | a marker moves into a CTE with its join, where the deparser does not look (`deparse_ra_to_sql.cc:464`) |
| `SumBelow` | `SameResult` | D is not DISTINCT, so SUM sees rows several times (`ra_tree.cc:607`) |
| `NotInScalar` | `SameResult` | decoupling replaces l = o AND NOT p, the predicate of a selection, by p (`ra_tree.cc:889`) |
| `OrInScalar` | `SameResult` | decoupling removes l = o from an OR, too, and what is left of it replaces the selection's predicate (`ra_tree.cc:880-889`) |
| `Counted` | `SameResult` | COUNT over no row is 0 before unnesting and no row after (`ra_tree.cc:579`) |
| `OrderedCte` | `SameResult` | renaming turns back at ORDER BY (`ra_tree.cc:913`) |
| `TwoScalars` | `NeverDies` | the second join is below a join, which is taken for a selection (`ra_tree.cc:600`) |
| `InInScalar` | `NeverDies` | the right side of the IN's predicate is nullptr (`ra_tree.cc:1431`) |

`nested` has statements that fail in these ways as well, which is why `SameResult` and
`NeverDies` are not among its properties: it asks whether the trees stay whole whatever
happens to the meaning. Three more of its statements (`Replaced`) have a NOT or an OR that
decoupling lets replace the conjuncts beside it, or clears.

**Bounds.** The statements are finite sets: WHERE clauses of up to two conditions (three
in nested EXISTS and for the inductive invariant) in every order, four or five FROM
clauses (cross products of two and three items, a LEFT join, derived tables with and
without a name of their own), every kind of subquery correlated or not, EXISTS in
EXISTS or IN, a relation that both blocks read, and for the parser WITH, GROUP BY, HAVING with a subquery, ORDER BY and no
FROM. Two conditions are enough to have a marker before or after a plain condition,
two markers, and a conjunct that meets another's new selection; three let a
selection be emptied, shared and kept. `MaxNodes` bounds the heap: 24 nodes (13 for
the invariant, which quantifies over sets of nodes) are more than the largest tree
with all selections inserted; were it too small, `InsertNewSelection` would be stuck
and `Terminates` violated. `optimizer` and `nested` allow 40 and 48 nodes, enough for the nodes both unnesting passes
add. Their statements have up to two conditions of every kind in every order over a
product and a LEFT join; the databases have every lineitem table of up to two rows with keys
0 and 1 and values 0, 1 and NULL, an empty and a non-empty supplier, three orders of which
two share a key, and a customer with a NULL. Two lineitem rows make an aggregate over
zero, one or two rows, a match and a mismatch, and duplicates; two orders with one key
make D's duplicates. Deadlock is not checked: a parse, a pass and the program really end.

**Fairness.** `WF_vars(Next)`: the program is one thread of straight-line code, so a step
that is enabled is taken. Nothing else is assumed. `Terminates` and `Finished` need it, and
`PushNowhere`, a step that changes nothing, shows that the loop at `ra_tree.cc:644` does not
end by itself.

**Mutants.** Each property of a passing run has a mutated definition, next to the one
it mutates and marked as such, under which the property fails.

## Proofs

`PushDownProofs` proves, for every `MaxNodes`, every set `Trees` and both values of
`convert_cp_to_join`, that `Spec` implies `[]` of:

| Theorem | Property |
|---|---|
| `Invariance` | `IInv`, the inductive invariant |
| `TypeCorrect` | `TypeOK` |
| `StaysTree` | `TreeShape` |
| `StaysConnected` | `Connected` |
| `ConjunctsConserved` | `Conserved` |
| `ConjunctsDistinct` | `NotDuplicated` |
| `SelectionsFilled` | `NoEmptySelection` |

`ConjunctsProofs` proves, under the same assumptions, `Refinement`: `Spec => Implements`, that
is, `PushDown` implements `Conjuncts` under the mapping of `PushDownInv`.

`LowestProofs` and `PlacementProofs` prove where the conjuncts go:

| Theorem | Property | Assumes |
|---|---|---|
| `LowestPlaces` | `PlacedLowest` | as above |
| `PlacementInvariance` | `PInv`, the second inductive invariant | and `SubqueriesAssumption` |
| `LostToOwnMarker` | `LostOnlyToMarker` | and `SubqueriesAssumption` |
| `KeepsBlock` | `BlockKept`, an action property | and `SubqueriesAssumption` |

All of them rest on two assumptions: `MaxNodesAssumption` (a positive bound) and
`TreesAssumption` (what push-down is given satisfies `TreeOK`: a connected tree below a
projection, with nothing in unallocated nodes and no conjunct shared between
predicates). TLC evaluates both on the trees the parser model makes.

`TreeShape` alone is not inductive. To cut out a selection one must know that it is
still in the tree and is a selection when its turn comes (`WorkInv`), although earlier
turns cut and inserted around it; to know that removal leaves no other empty
selection one must know that every empty selection of the tree is still to come in
`work`. That in turn needs that collecting found *all* selections: `CollectInv` keeps a
set of visited nodes closed under children up to `todo`, so when `todo` is empty
`Connected` makes it the whole tree (lemma `AllVisited`). `NotDuplicated` needs the
conjuncts of `work` to be different and no ANDs (`ConjunctInv`), so that what the
second call splits is what the first one placed (lemma `SplitAtoms`); `HeapInv` keeps
predicates to nodes of the tree, so that a conjunct that was appended somewhere is
`Held`. The two edits of the tree, putting a node between parent and child and
cutting one out, are lemmas of their own about slots (`PutSlots`, `CutSlots`), shape
(`PutTree`, `CutTree`) and connectedness; each action then follows from them.

The refinement uses `IInv` in every step. `Init` maps to a state in which nothing waits.
`ExtractPredicates` is `TakeOut`: all conjuncts of all selections wait afterwards, which
needs that collecting found them all and that no conjunct is in two places
(`ExtractTakesOut`). Placing one is `GiveBack` or, when `add_predicate` returns its argument,
`Drop` next to the marker that is there (`AddMoves`, `InsertNewMoves`, `PlaceMoves`); that
exactly one conjunct stops waiting follows from the conjuncts of `work` being different
(`CurrentProcessed`). Every other action leaves both sets alone: cutting out an empty
selection, the descent, the next selection, the second call (`MovesNothing`,
`RemoveSelectionUnchanged`, `SecondCallUnchanged`).

`Connected` is stated without recursion: every set that holds the root and is closed
under children holds every node of the tree.

### Where conjuncts go

These properties depend on `get_relations_aliases`, a recursive walk. tlapm has no
induction over data, so `WalkProofs` provides it for the walks of this model. `Grounded(D,
down)` says that a set which holds an element as soon as it holds all elements one step down
is the whole of `D`. From it `WalkExists` shows that a recursion whose result depends on the
results one step down has a solution, so that the recursive function is what its definition
says. Three relations are grounded:

- the children of a node, because the parents of a node are unique and there are finitely
  many nodes: a non-empty set without a bottom would be mapped one to one onto a proper
  part of itself (`TreeGrounded`, from `TreeShape` and `Connected`);
- the parent of a node, for `Block`, because every node can be reached from the root
  (`UpGrounded`);
- the arguments of a term, because they are older than the term (`TermsGrounded`, from
  `TermsOrdered`).

`LowestPlaces`: the walk does not see selections (`SelectionTransparent`), so it sees the
same below a node after any selection was put in or cut out (`PutSees`, `CutSees`). A
conjunct at its lowest node therefore stays at its lowest node, whatever is done around
it, and `Descend` has stopped only where no child defines its relations.

`LostToOwnMarker`: `SubqueriesOK` says what the parser guarantees: no relation of the
query has a marker's name, each marker stands in one conjunct, its join is below the
selection that holds it, different joins have different markers, a join's condition is no lone
marker, and the projection of a WHERE subquery is the right child of a join with a marker. Suppose a
conjunct is added to a selection that holds a lone marker, above the node where the
search stopped. The marker is at its lowest place too (`LowestInv`), its join is below, and
that node is the join itself: nothing but the join shows the marker's name
(`MarkerJoin`). The join shows the marker and what its left child shows, so the
conjunct, which does not need the marker (`MarkersAlone`), would be defined by the left
child as well and the search would have gone on. Hence a lone marker is only met
where no search took place, in `ReAdd` (`NoDrop`).

`KeepsBlock`: a search leaves its block only through a projection. At a derived table
only the alias is visible from above, so the inside would have to define the conjunct's names itself: the
exception of `BlockKept`. The projection of a WHERE subquery hangs to the right of a join
that shows only its marker and its left side. For the search to go to the right child, the
join must define a name that its left child does not, which can only be the marker, and
the right child must define it too; but no node below a join shows that join's marker
(`NotIntoSubquery`, `MarkerNotBelow`).

Both need that the relations of the conjunct are known (`Resolved`). TLC finds this
hypothesis necessary: a column without an alias and with a prefix that is not TPC-H's
belongs to the relation "" (`ra_tree.cc:491`), and `has_relations_defined` finds that name
wherever an alias is missing, in a join with a marker too.

TLC evaluates `SubqueriesAssumption` on the parsed trees of `pushdown_inv`, and `WholeForest`
checks `MarkersOK` where the passes of `optimizer` and `nested` call push-down.

### EXISTS and IN

`ExistsInProofs` proves, of `DecorrelateSpec` of `ExistsInInv`:

| Theorem | Property |
|---|---|
| `DecorrelationInvariance` | `FInv`, the inductive invariant |
| `DecorrelationForest` | `ForestKept` |
| `DecorrelationKeepsNodes` | `NodesKept`, an action property |

They rest on `MaxNodesAssumption` and on `HandedOver`, the initial states, which say what push-down hands over: a
forest of whole trees, CTEs with different names that are not those still to come, a
projection to the right of every join with a marker, terms older than what uses them. TLC
checks `HandedOver` at the call of the pass in `optimizer` and `nested` (`WholeForest`).

`IsForest` says by iteration that a walk from the tops reaches every node (`Reached`), so
that TLC can compute it. The proofs use the same closure as `Connected` above: every set
that holds the tops and is closed under children holds the forest. The two are the
same because an iteration that has not ended has grown in each of its `MaxNodes` steps
and would have more members than there are nodes (`ReachedLeast`, `ReachedClosed`).

The pass edits the forest in three ways, with a lemma for each: the child of a node is
given to a new top (`MoveForest`), a selection is cut out (`CutForest`), a node is
replaced by a new one with new nodes below it (`ReplaceForest`). That an edit leaves
nothing unreachable needs that no node is below itself, which `HangsGrounded` gets from
the forest being connected.

`ForestKept` is not inductive, since the joins are all found before anything changes and used
later. `SearchInv` says that each join still to do has its subquery's projection on the
right: what is cut out is a selection, and the slot it hung in was not a slot that held
a projection, what is replaced is the projection of the current join, and no other
join holds it. It also says that the selection that was found hangs somewhere, so that
the search for its parent ends with one: `MarkersFound`, `PreorderIn` and `FirstNodeIn`
show that what the searches return is below the node where they start. `CteNamesFree` keeps
the names of the CTEs below `counter`, so that the next one is new.

### General unnesting

`UnnestProofs` proves, of `UnnestSpec` of `UnnestInv`:

| Theorem | Property |
|---|---|
| `UnnestInvariance` | `UInv`, the inductive invariant |
| `UnnestForest` | `TreesKept` |
| `UnnestKeepsNodes` | `OthersKept`, an action property |
| `UnnestGetsLower` | `AlwaysLower`, an action property |

and, of `DecorrelateSpec`, `TreesHandedOn`: where the decorrelation of EXISTS and IN has returned,
`TreesKept` and `CteNamesFree` hold.

They rest on `MaxNodesAssumption` and on `HandedOn`, the initial states: `TreesKept` and
`CteNamesFree`; tops that are projections and no unallocated node in a tree (`TreeTypes`); and
`MarkersInv`, that the markers the pass will find have numbers of their own, and that a join
with such a number is dependent and has a projection on the right. TLC checks `HandedOn` at the call of the pass
in `optimizer` and `nested` (`WholeForest`).

Each edit of the forest has a lemma: a join with a leaf is inserted above a node
(`InsertForest`: the dependent join with D), a join with a leaf is dropped (`DropForest`:
decoupling), one push is a drop and an insertion lower down (`SwapForest`), selections are cut
out one after the other (`CutAllForest`), a subtree moves below a new top and leaves a leaf
behind (`SplitForest`), and a childless node gets a leaf (`GraftForest`). A second lemma says
what is below a given node afterwards (`InsertBelow`, `SwapBelow`).

`TreesKept` is not inductive, for two reasons. The joins are all found before anything
changes: `JoinsInv` says that those still to do are different joins with markers, that have
the projection of their subquery on the right. No push disturbs that: the slot a push gives
another child to held the dependent join, no projection, and the dependent join goes to the
right of products and inner joins only, which a join with a marker is not. And nothing may make the outer query part of what hangs below the dependent join: `DInv` says that
the original join is neither below the dependent join nor directly above it, that the two
are joins and D is a projection. Without the first, a push could turn the shared subtree
into a cycle; without the second, it could replace the child that D and the original
join have in common. Where the original join was above the dependent one when D came, it
stays so, because a push takes nodes out from below the join and brings none there
(`SwapBelow`), which is `AlwaysLower` as well.

`AlwaysLower` bounds the rounds of the loop at `ra_tree.cc:644` that change the tree by the number
of nodes below the dependent join. A round that changes nothing (`PushNowhere`) is not
excluded: it is the finding of `having`.

The theorems hold of the steps the model has: not of the split of a dependent join above
a join that needs d on both sides, see below.

### Only model-checked

- `Terminates` and `Finished`: liveness under fairness is out of the prover's reach;
- the invariants of `Parser`: its functions are RECURSIVE operators over the statement,
  and what they build for every statement needs induction over data;
- `NeverDies`, `SameResult` and `WholeForest` of `Optimizer`, which uses the same operators for
  parsing, deparsing and meaning; of the forest that `WholeForest` asks for, the part of both
  decorrelating passes is proved, and that the first hands its trees to the second. What is
  left to TLC there are the markers (`MarkersInv`) from pass to pass;
- `CteBeforeUse`, which compares positions in the preorder of markers: the lemmas about lists
  say what is in the preorder, not yet in which order.

Names being strings is part of `TypeOK`; of their text only that it is not a marker's is used.

## Plan

1. done: `RaTree`, `SqlToRa`, `Parser`, `PushDown` and its proofs;
2. done: `ExistsIn`, `Unnest`, `Deparse`, and `Optimizer`, which composes them;
3. done: meaning over small databases (`Meaning`), `SameResult`;
4. done: the abstract specification `Conjuncts`, its refinement, checked and proved;
5. done: recursive walks, `PlacedLowest`, `LostOnlyToMarker` and `BlockKept` proved;
6. done: `ExistsInInv`, with `ForestKept` and `NodesKept` of `ExistsIn` proved;
7. done: `UnnestInv`, with `TreesKept`, `OthersKept` and `AlwaysLower` of `Unnest` proved;
8. left: the markers from pass to pass, and the order of the CTEs (`CteBeforeUse`);
9. left: the both-sided split in `push_down_dep_join`.

## Not modelled

- `ra_tree.cc:1165-1344`, the split of a dependent join above a join that needs d on both
  sides, with the queue of further dependent joins. With the constants of `ra_tree.h` it
  takes two scalar subqueries in one block that both refer further out. No statement of
  the runs has that; the model has no next step there.
- `ra_tree.cc:52-73`, behind `push_down_correlating_predicates`, which is false.
- the decorrelation variants that nothing calls (`ra_tree.cc:1534-1550`, `1795-1849`,
  `1877-1983`, `2084-2271`, `2302` on).
- text: spelling, `to_string`, DISTINCT, ASC and DESC, VALUES.
- libpg_query, protobuf, PostgreSQL's parser and the rest of the vendored code, which is
  all but about 5300 of the repository's half a million lines; generated and
  third-party, it enters the models as the parse tree it returns.
- benchmarks, scripts and visualizations.
