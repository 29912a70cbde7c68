------------------------------- MODULE Values -------------------------------
(***************************************************************************)
(* The values of minisqlr (BTreeDataType) and what the operations of the   *)
(* virtual machine compute from them (operations.rs).                      *)
(*                                                                         *)
(* A number is an exact fraction num/den: floating point is not rounded    *)
(* here, and neither infinity nor NaN is reached, since a division by zero *)
(* gives null.  A text is its place in the order of texts, 0 the empty     *)
(* one.  A blob is a record of a table, the only blob a register holds.    *)
(***************************************************************************)
EXTENDS Integers, Sequences, SequencesExt, FiniteSetsExt

Null == [type |-> "null", num |-> 0, den |-> 1]
Integer(n) == [type |-> "integer", num |-> n, den |-> 1]
Real(n, d) == [type |-> "real", num |-> n, den |-> d]
Text(place) == [type |-> "text", num |-> place, den |-> 1]
Blob(fields) == [type |-> "blob", fields |-> fields]

IsNumber(v) == v.type \in {"integer", "real"}

\* is_truthy: null, zero and the empty text are false.
IsTruthy(v) == v.num # 0

BoolValue(b) == Integer(IF b THEN 1 ELSE 0)

\* type_rank.
TypeRank(v) == CASE v.type = "null" -> 0
                 [] IsNumber(v) -> 1
                 [] v.type = "text" -> 2

\* compare_values: negative when l is before r, 0 when they are equal.
CompareValues(l, r) ==
  IF TypeRank(l) # TypeRank(r) THEN TypeRank(l) - TypeRank(r)
  ELSE l.num * r.den - r.num * l.den

Comparisons == {"=", "<>", "<", "<=", ">", ">="}
Holds(op, l, r) ==
  LET c == CompareValues(l, r) IN
    CASE op = "=" -> c = 0  [] op = "<>" -> c # 0
      [] op = "<" -> c < 0  [] op = "<=" -> c <= 0
      [] op = ">" -> c > 0  [] op = ">=" -> c >= 0

Connectives == {"and", "or"}
Connected(op, l, r) ==
  IF op = "and" THEN IsTruthy(l) /\ IsTruthy(r) ELSE IsTruthy(l) \/ IsTruthy(r)

\* The fraction n/d in its lowest terms, d > 0.
Reduced(n, d) ==
  LET Divides(k) == n % k = 0 /\ d % k = 0
      gcd == Max({k \in 1..d : Divides(k)})
  IN Real(n \div gcd, d \div gcd)

\* A whole result that is not negative is stored as an integer.
Number(n, d) ==
  LET q == Reduced(n, d) IN
    IF q.den = 1 /\ q.num >= 0 THEN Integer(q.num) ELSE q

\* numeric_binary_into_register, of two numbers.
Sums == {"+", "-", "*"}
Summed(op, l, r) ==
  CASE op = "+" -> Number(l.num * r.den + r.num * l.den, l.den * r.den)
    [] op = "-" -> Number(l.num * r.den - r.num * l.den, l.den * r.den)
    [] op = "*" -> Number(l.num * r.num, l.den * r.den)

\* A quotient is a real, also when it is whole.
Quotient(l, r) ==
  IF r.num > 0 THEN Reduced(l.num * r.den, l.den * r.num)
  ELSE Reduced((-l.num) * r.den, l.den * (-r.num))

\* Divide: the process panics where a number is divided by what is neither a
\* number nor tested for being one.
Panics(op, l, r) == op = "/" /\ IsNumber(l) /\ ~IsNumber(r)

\* What an operation leaves in its register: <<>> when it fails.
Binary(op, l, r) ==
  CASE op \in Comparisons -> <<BoolValue(Holds(op, l, r))>>
    [] op \in Connectives -> <<BoolValue(Connected(op, l, r))>>
    [] op \in Sums -> IF IsNumber(l) /\ IsNumber(r)
                      THEN <<Summed(op, l, r)>> ELSE <<>>
    [] op = "/" -> IF IsNumber(r) /\ r.num = 0 THEN <<Null>>
                   ELSE IF IsNumber(l) /\ IsNumber(r)
                   THEN <<Quotient(l, r)>> ELSE <<>>

\* The negation of a number is a real.
Unary(op, v) ==
  CASE op = "not" -> <<BoolValue(~IsTruthy(v))>>
    [] op = "-" -> IF IsNumber(v) THEN <<Real(-v.num, v.den)>> ELSE <<>>
=============================================================================
