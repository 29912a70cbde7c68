------------------------------ MODULE Optimizer ------------------------------
(***************************************************************************)
(* From a SELECT to a physical plan: the relational expression of          *)
(* relation.rs and the search of optimize.rs for a plan of least cost.     *)
(*                                                                         *)
(* A SELECT is a record [items, from, where, order, limit], all but items  *)
(* and order options: <<>> or <<x>>.  from is [table, alias, joins], a     *)
(* join [type, constraint, table, alias].  A relation has an input, a left *)
(* and a right, or none; a plan, a node instead of a rel, and cost, rows   *)
(* and order.                                                              *)
(*                                                                         *)
(* Costs are in thousandths, rounded down; of what the search compares     *)
(* only a sort needs finer ones, and it is the same in each alternative.   *)
(***************************************************************************)
EXTENDS Integers, Sequences, SequencesExt, TLC

Infinity == 2147483647

Larger(a, b) == IF a >= b THEN a ELSE b

-----------------------------------------------------------------------------
(* relation.rs *)

Scan(t) == [rel |-> "TableScan", table |-> t.table, alias |-> t.alias]

\* table_ref_to_relation: the joins are nested to the left.
FromRelation(from) ==
  FoldLeft(LAMBDA left, join :
             [rel |-> "Join", type |-> join.type, left |-> left,
              right |-> Scan(join), constraint |-> join.constraint],
           Scan(from), from.joins)

\* CROSS JOIN takes neither ON nor USING.
IsRelation(select) ==
  \A from \in ToSet(select.from) : \A join \in ToSet(from.joins) :
    join.type = "cross" => join.constraint.c = "none"

\* select_to_relation: WHERE, the projection, ORDER BY and LIMIT, each over
\* those before it.
Relation(select) ==
  LET from == IF select.from = <<>> THEN [rel |-> "OneRow"]
              ELSE FromRelation(select.from[1])
      chosen == IF select.where = <<>> THEN from
                ELSE [rel |-> "Selection", input |-> from,
                      predicate |-> select.where[1]]
      projected == [rel |-> "Projection", input |-> chosen,
                    items |-> select.items]
      ordered == IF select.order = <<>> THEN projected
                 ELSE [rel |-> "Order", input |-> projected,
                       items |-> select.order]
  IN IF select.limit = <<>> THEN ordered
     ELSE [rel |-> "Limit", input |-> ordered, count |-> select.limit[1]]

-----------------------------------------------------------------------------
(* The memo: a sequence of groups.  A group is the sequence of expressions *)
(* known to be equivalent; an expression has an op and the groups of its   *)
(* inputs, kids.                                                           *)

Inputs(rel) == IF "left" \in DOMAIN rel THEN <<rel.left, rel.right>>
               ELSE IF "input" \in DOMAIN rel THEN <<rel.input>> ELSE <<>>
OpOf(rel) ==
  [f \in DOMAIN rel \ {"input", "left", "right"} |-> rel[f]]

\* insert_relation: the groups of the inputs first, then the one of rel.
RECURSIVE InsertRelation(_, _)
InsertRelation(memo, rel) ==
  LET Input(acc, input) ==
        LET m == InsertRelation(acc.memo, input)
        IN [memo |-> m, kids |-> Append(acc.kids, Len(m))]
      in == FoldLeft(Input, [memo |-> memo, kids |-> <<>>], Inputs(rel))
  IN Append(in.memo, <<[op |-> OpOf(rel), kids |-> in.kids]>>)

AddExpression(memo, g, e) ==
  IF e \in ToSet(memo[g]) THEN memo ELSE [memo EXCEPT ![g] = Append(@, e)]

\* apply_rules: the sides of an inner or cross join change places; a
\* selection over a selection is one of both predicates.
Alternatives(memo, e) ==
  CASE e.op.rel = "Join" ->
         IF e.op.type \in {"inner", "cross"}
         THEN <<[e EXCEPT !.kids = Reverse(@)]>> ELSE <<>>
    [] e.op.rel = "Selection" ->
         LET below == SelectSeq(memo[e.kids[1]],
                                LAMBDA x : x.op.rel = "Selection")
         IN [i \in DOMAIN below |->
               [below[i] EXCEPT !.op.predicate =
                  [e |-> "binary", fn |-> "and", l |-> e.op.predicate,
                   r |-> @]]]
    [] OTHER -> <<>>

\* explore_group: a group after those below it, that is, in their order.
Explore(memo) ==
  LET Rules(m, g) ==
        FoldLeft(LAMBDA n, e : AddExpression(n, g, e), m,
                 FlattenSeq([i \in DOMAIN m[g] |-> Alternatives(m, m[g][i])]))
  IN FoldLeft(Rules, memo, [g \in DOMAIN memo |-> g])

-----------------------------------------------------------------------------
(* Estimates *)

TableRows == 1000
PairCost(l, r) == (l * r) \div 20   \* nested_loop_tuple_cost
TupleCost == 20                     \* hash_join_tuple_cost

\* is_equality_constraint.
IsEquality(constraint) ==
  \/ constraint.c = "using" /\ constraint.columns # <<>>
  \/ constraint.c = "on" /\ constraint.expr.e = "binary"
       /\ constraint.expr.fn = "="

JoinRows(op, l, r) ==
  CASE op.type = "cross" -> l * r
    [] op.type = "inner" -> IF IsEquality(op.constraint) THEN Larger(l, r)
                            ELSE Larger((l * r * 3) \div 10, 1)
    [] op.type \in {"left", "right"} -> Larger(l, r)
    [] op.type = "full" -> l + r

\* rows * log2(rows) * sort_cost_factor, the logarithm rounded down.
Log2[rows \in Nat] == IF rows <= 1 THEN 0 ELSE 1 + Log2[rows \div 2]
SortCost(rows) == rows * Log2[rows] * 4

\* lower_bound_expr and lower_bound_group.
OwnBound(op) == CASE op.rel = "OneRow" -> 100
                  [] op.rel = "TableScan" -> 1000
                  [] op.rel = "Projection" -> 1
                  [] op.rel = "Selection" -> 2
                  [] op.rel = "Join" -> TupleCost
                  [] op.rel \in {"Order", "Limit"} -> 0

RECURSIVE LowerBound(_, _), GroupBound(_, _)
LowerBound(memo, e) ==
  FoldLeft(LAMBDA sum, g : sum + GroupBound(memo, g), OwnBound(e.op), e.kids)
GroupBound(memo, g) ==
  FoldLeft(LAMBDA least, e : IF LowerBound(memo, e) < least
                             THEN LowerBound(memo, e) ELSE least,
           Infinity, memo[g])

-----------------------------------------------------------------------------
(* The search.  best maps a group and an ordering to the best plan found,  *)
(* <<>> or <<plan>>, within the bound it was first sought under.           *)

Within(plan, bound) == SelectSeq(plan, LAMBDA p : p.cost <= bound)

\* enforce: a plan without the ordering required is sorted.
Enforce(plan, order, bound) ==
  IF order \in {<<>>, plan.order} THEN Within(<<plan>>, bound)
  ELSE Within(<<[node |-> "Sort", items |-> order, input |-> plan,
                 cost |-> plan.cost + SortCost(plan.rows),
                 rows |-> plan.rows, order |-> order]>>, bound)

\* The plan of an operation over the plan of its input, before Enforce.
Over1(op, child) ==
  LET filtered == Larger((child.rows * 3) \div 10, 1)
      limited == Larger(child.rows \div 10, 1)
  IN CASE op.rel = "Selection" ->
            [node |-> "Filter", predicate |-> op.predicate, input |-> child,
             cost |-> child.cost + 2 * child.rows, rows |-> filtered,
             order |-> child.order]
       [] op.rel = "Projection" ->
            [node |-> "Project", items |-> op.items, input |-> child,
             cost |-> child.cost + child.rows, rows |-> child.rows,
             order |-> child.order]
       [] op.rel = "Limit" ->
            [node |-> "Limit", count |-> op.count, input |-> child,
             cost |-> child.cost + limited \div 2, rows |-> limited,
             order |-> child.order]
       [] op.rel = "Order" -> child

\* The plan of an operation over nothing.
Over0(op) ==
  IF op.rel = "OneRow"
  THEN [node |-> "OneRow", cost |-> 100, rows |-> 1, order |-> <<>>]
  ELSE [node |-> "SeqScan", table |-> op.table, alias |-> op.alias,
        cost |-> 1000 + 10 * TableRows, rows |-> TableRows, order |-> <<>>]

\* The plan of a join.
Over2(node, op, l, r) ==
  [node |-> node, type |-> op.type, constraint |-> op.constraint,
   left |-> l, right |-> r, rows |-> JoinRows(op, l.rows, r.rows),
   cost |-> l.cost + r.cost +
              IF node = "HashJoin" THEN (l.rows + r.rows) * TupleCost
              ELSE PairCost(l.rows, r.rows),
   order |-> IF node = "HashJoin" THEN <<>> ELSE l.order]

\* The ordering asked of the (left) input.
InputOrder(op, order) ==
  CASE op.rel = "Order" -> op.items
    [] op.rel = "Join" -> IF op.type \in {"inner", "cross"} THEN <<>> ELSE order
    [] OTHER -> order

MayHash(op) == op.type = "inner" /\ IsEquality(op.constraint)

\* Mutant of HashBound: the bound counts every pair of estimated rows.
HashBoundOfPairs(memo, e) ==
  GroupBound(memo, e.kids[1]) + GroupBound(memo, e.kids[2]) +
    TableRows * TableRows * TupleCost

HashBound(memo, e) ==
  GroupBound(memo, e.kids[1]) + GroupBound(memo, e.kids[2]) + TupleCost

\* Mutant of Better: the last of equal cost is kept.
BetterLast(acc, found) ==
  IF found.plan # <<>> /\ found.plan[1].cost <= acc.cost
  THEN [best |-> found.best, plan |-> found.plan,
        cost |-> found.plan[1].cost]
  ELSE [acc EXCEPT !.best = found.best]

\* The first of equal cost is kept.
Better(acc, found) ==
  IF found.plan # <<>> /\ found.plan[1].cost < acc.cost
  THEN [best |-> found.best, plan |-> found.plan,
        cost |-> found.plan[1].cost]
  ELSE [acc EXCEPT !.best = found.best]

RECURSIVE Optimize(_, _, _, _, _), Implement(_, _, _, _, _)

\* optimize_group: the cached plan, or the best of the group's expressions,
\* those left out that cannot be below the best so far.
Optimize(memo, best, g, order, bound) ==
  LET Try(acc, e) ==
        IF LowerBound(memo, e) >= acc.cost THEN acc
        ELSE Better(acc, Implement(memo, acc.best, e, order, acc.cost))
      all == FoldLeft(Try, [best |-> best, plan |-> <<>>, cost |-> bound],
                      memo[g])
  IN IF <<g, order>> \in DOMAIN best
     THEN [best |-> best, plan |-> Within(best[<<g, order>>], bound)]
     ELSE [best |-> (<<g, order>> :> all.plan) @@ all.best, plan |-> all.plan]

\* implement_expr; implement_join, where the right group is optimized only if
\* the left has a plan, and the hash join is tried after the nested loops and
\* is kept unless it costs more.
Implement(memo, best, e, order, bound) ==
  LET l == Optimize(memo, best, e.kids[1], InputOrder(e.op, order), bound)
      r == IF l.plan = <<>> THEN l
           ELSE Optimize(memo, l.best, e.kids[2], <<>>, bound)
      loops == IF r.plan = <<>> THEN <<>>
               ELSE Enforce(Over2("NestedLoopJoin", e.op, l.plan[1],
                                  r.plan[1]), order, bound)
      least == IF loops = <<>> THEN bound ELSE loops[1].cost
      hl == Optimize(memo, r.best, e.kids[1], <<>>, least)
      hr == IF hl.plan = <<>> THEN hl
            ELSE Optimize(memo, hl.best, e.kids[2], <<>>, least)
      hash == Enforce(Over2("HashJoin", e.op, hl.plan[1], hr.plan[1]),
                      order, least)
  IN CASE Len(e.kids) = 0 ->
            [best |-> best, plan |-> Enforce(Over0(e.op), order, bound)]
       [] Len(e.kids) = 1 ->
            [best |-> l.best,
             plan |-> IF l.plan = <<>> THEN <<>>
                      ELSE Enforce(Over1(e.op, l.plan[1]), order, bound)]
       [] OTHER ->
            IF ~MayHash(e.op) \/ HashBound(memo, e) >= least
            THEN [best |-> r.best, plan |-> loops]
            ELSE IF hr.plan = <<>>
            THEN [best |-> hr.best, plan |-> <<>>]
            ELSE [best |-> hr.best,
                  plan |-> IF hash = <<>> THEN loops ELSE hash]

\* optimize_relation: no ordering is required and nothing costs too much.
OptimizeRelation(rel) ==
  LET memo == Explore(InsertRelation(<<>>, rel))
  IN Optimize(memo, <<>>, Len(memo), <<>>, Infinity).plan

-----------------------------------------------------------------------------
(* Reference: the least cost of all plans the rules lead to. *)

RECURSIVE AllPlans(_, _, _)
AllPlans(memo, g, order) ==
  LET Lefts(e) == AllPlans(memo, e.kids[1], InputOrder(e.op, order))
      Plans(e) ==
        CASE Len(e.kids) = 0 -> {Over0(e.op)}
          [] Len(e.kids) = 1 -> {Over1(e.op, p) : p \in Lefts(e)}
          [] OTHER ->
               LET pairs == Lefts(e) \X AllPlans(memo, e.kids[2], <<>>) IN
                 {Over2(node, e.op, p[1], p[2]) :
                    node \in {"NestedLoopJoin"} \cup
                               (IF MayHash(e.op) THEN {"HashJoin"} ELSE {}),
                    p \in pairs}
  IN UNION {{Enforce(p, order, Infinity)[1] : p \in Plans(e)} :
            e \in ToSet(memo[g])}

\* The plan found is one of least cost.
FindsCheapest(rel) ==
  LET memo == Explore(InsertRelation(<<>>, rel))
      plans == AllPlans(memo, Len(memo), <<>>)
      found == OptimizeRelation(rel)
  IN found # <<>> /\ found[1] \in plans /\
       \A p \in plans : found[1].cost <= p.cost
=============================================================================
