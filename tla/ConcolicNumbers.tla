-------------------------- MODULE ConcolicNumbers --------------------------
(***************************************************************************)
(* The numbers the target computes with (core/int.py, core/bool.py,         *)
(* core/float.py, core/operations/*, core/concolic_range.py).               *)
(*                                                                          *)
(* A concolic value is a pair: the concrete number Python computed and the  *)
(* SMT expression handed to the solver.  The expression is represented by   *)
(* `den', the number it denotes under the inputs of the execution, read as  *)
(* SMT-LIB reads it: the two halves must agree, or the path condition the   *)
(* engine stores is not the condition of the path it ran.  A value without  *)
(* an expression denotes itself.                                            *)
(*                                                                          *)
(* Numbers are counted in halves, so that truncation and floors have        *)
(* something to truncate: the int n is 2n, the bools are 2 and 0.  A float   *)
(* therefore has one binary digit after the point where Python's has some    *)
(* fifty, and rounds like Python's when a product or a quotient needs more.  *)
(* Bound stands for the numbers a float holds exactly: an int too large for  *)
(* one is not met.                                                          *)
(***************************************************************************)
EXTENDS Integers, Sequences

CONSTANTS Inputs,      \* values of the symbolic inputs, in halves
          Literals,    \* constants of the target, in halves
          Bound,       \* largest absolute value kept
          MaxSteps     \* operations of one execution

ASSUME NumbersAssumption ==
    /\ Inputs \subseteq Int
    /\ Literals \subseteq Int
    /\ Bound \in Nat
    /\ MaxSteps \in Nat

VARIABLES acc,       \* the value in hand
          branches,  \* conditions registered with the path tree
          error,     \* the exception that ended the execution, or "none"
          loop,      \* the range being iterated
          steps

vars == <<acc, branches, error, loop, steps>>

-----------------------------------------------------------------------------
(* Python's and SMT-LIB's arithmetic. *)

Whole(h) == h % 2 = 0

Truth(p) == IF p THEN 2 ELSE 0

\* Python rounds a quotient down; no quotient by zero is ever used.
FloorDiv(a, b) ==
    CASE b > 0 -> a \div b
      [] b < 0 -> (-a) \div (-b)
      [] b = 0 -> 0

\* SMT-LIB chooses the quotient that leaves a non-negative remainder.
EuclidDiv(a, b) ==
    CASE b > 0 -> a \div b
      [] b < 0 -> -(a \div (-b))
      [] b = 0 -> 0

Truncate(h) == IF h >= 0 THEN 2 * (h \div 2) ELSE -(2 * ((-h) \div 2))

Arithmetic == {"+", "-", "*", "/", "//", "%"}
Comparisons == {"==", "!=", "<", "<=", ">", ">="}
Divisions == {"/", "//", "%"}

\* The float nearest to a/b, the even one of two that are equally near.
Nearest(a, b) ==
    LET q == FloorDiv(a, b)
        r == IF b > 0 THEN a - b * q ELSE b * q - a
        d == IF b > 0 THEN b ELSE -b
    IN  IF 2 * r > d \/ (2 * r = d /\ ~Whole(q)) THEN q + 1 ELSE q

\* The result of an operator; Quotient is the integer quotient it rests on.  The
\* exact real is followed to the half below it.
Apply(op, a, b, quotient) ==
    CASE op = "+"  -> a + b
      [] op = "-"  -> a - b
      [] op = "*"  -> (a * b) \div 2
      [] op = "/"  -> FloorDiv(2 * a, b)
      [] op = "//" -> 2 * quotient
      [] op = "%"  -> a - b * quotient
      [] op = "==" -> Truth(a = b)
      [] op = "!=" -> Truth(a # b)
      [] op = "<"  -> Truth(a < b)
      [] op = "<=" -> Truth(a <= b)
      [] op = ">"  -> Truth(a > b)
      [] op = ">=" -> Truth(a >= b)

Python(op, a, b) ==
    CASE op = "*" -> Nearest(a * b, 2)
      [] op = "/" -> Nearest(2 * a, b)
      [] OTHER    -> Apply(op, a, b, FloorDiv(a, b))

Smt(op, a, b) == Apply(op, a, b, EuclidDiv(a, b))

\* Python's result is a float beside the real number of the expression.
Rounded(op, a, b) ==
    \/ op = "*" /\ ~Whole(a * b)
    \/ op = "/" /\ b * FloorDiv(2 * a, b) # 2 * a

-----------------------------------------------------------------------------
(* Values *)

Types == {"int", "float", "bool"}

\* `exact' is history: no known gap between the two halves was met on the way.
Value == [type : Types, val : Int, den : Int, exact : BOOLEAN, plain : BOOLEAN]

Concolic(t, v, d, e) == [type |-> t, val |-> v, den |-> d, exact |-> e, plain |-> FALSE]

Plain(t, v) == [type |-> t, val |-> v, den |-> v, exact |-> TRUE, plain |-> TRUE]

WithoutExpression(t, v) == Concolic(t, v, v, TRUE)

ToBool(c) == Concolic("bool", Truth(c.val # 0), Truth(c.den # 0), c.exact)

\* What int(x) would be if the rounding of SMT-LIB were left alone.
ToInt__Floors(c) ==
    Concolic("int", IF c.type = "float" THEN Truncate(c.val) ELSE c.val, 2 * (c.den \div 2), c.exact)

\* SMT-LIB's to_int rounds down: one is added to a negative fraction.
ToInt(c) ==
    IF c.type = "float"
    THEN Concolic("int", Truncate(c.val),
                  2 * (c.den \div 2) + (IF c.den < 0 /\ ~Whole(c.den) THEN 2 ELSE 0),
                  c.exact)
    ELSE Concolic("int", c.val, c.den, c.exact)

ToFloat(c) == Concolic("float", c.val, c.den, c.exact)

ResultType(op, a, b) ==
    CASE op \in Comparisons                          -> "bool"
      [] op = "/" \/ "float" \in {a.type, b.type}    -> "float"
      [] OTHER                                       -> "int"

-----------------------------------------------------------------------------
(* BinaryOperationHandler *)

\* to_concolic_numeric: a concolic operand becomes an int, a plain float stays one.
IntOperand(other) == IF other.plain THEN other ELSE ToInt(other)

\* validate_for_floor_division looks at the operand, whichever side it is on.
Tracked(op, operand) ==
    op \in {"//", "%"} => operand.type # "float" /\ operand.val >= 0

\* The three places where the halves part: a concolic float is cut to an int in
\* the expression only, a negative divisor on the right of a reverse operation is
\* not the operand that is validated, and a float is rounded where the expression
\* keeps the real number.
Gap(op, self, other, reverse) ==
    \/ ~other.plain /\ other.type = "float" /\ ~Whole(other.val)
    \/ reverse /\ op \in {"//", "%"} /\ self.val < 0
    \/ IF reverse THEN Rounded(op, other.val, self.val) ELSE Rounded(op, self.val, other.val)

IntResult(op, self, other, reverse) ==
    LET left     == IF reverse THEN other ELSE self
        right    == IF reverse THEN self ELSE other
        operand  == IntOperand(other)
        concrete == Python(op, left.val, right.val)
        symbolic == IF reverse THEN Smt(op, operand.den, self.den)
                               ELSE Smt(op, self.den, operand.den)
        type     == ResultType(op, self, other)
    IN  IF Tracked(op, operand)
        THEN Concolic(type, concrete, symbolic,
                      self.exact /\ other.exact /\ ~Gap(op, self, other, reverse))
        ELSE WithoutExpression(type, concrete)

Registered(c) == [den |-> Truth(c.den # 0), taken |-> Truth(c.val # 0), exact |-> c.exact]

\* _check_division_by_zero asks the divisor; only a concolic int or float answers
\* with a condition.
ZeroCheck(op, other) ==
    IF op \in Divisions /\ ~other.plain /\ other.type \in {"int", "float"}
    THEN {Registered(other)} ELSE {}

-----------------------------------------------------------------------------
NoLoop == [state |-> "none"]

Init ==
    /\ \E t \in {"int", "float"}, v \in Inputs :
         /\ t = "int" => Whole(v)
         /\ acc = Concolic(t, v, v, TRUE)
    /\ branches = {}
    /\ error = "none"
    /\ loop = NoLoop
    /\ steps = 0

Running == error = "none" /\ loop.state \notin {"open", "reading"} /\ steps < MaxSteps

Becomes(c) ==
    /\ -Bound <= c.val /\ c.val <= Bound
    /\ acc' = c
    /\ error' = "none"
    /\ steps' = steps + 1
    /\ UNCHANGED loop

Raises(e) ==
    /\ error' = e
    /\ steps' = steps + 1
    /\ UNCHANGED <<acc, loop>>

Numbers == {p \in {"int", "float"} \X Literals : p[1] = "int" => Whole(p[2])}

Operands ==
    {Plain(p[1], p[2]) : p \in Numbers} \cup {WithoutExpression(p[1], p[2]) : p \in Numbers}
        \cup {Plain("bool", h) : h \in {0, 2}}

\* Dividing by a float zero goes through _try_reverse_operation, which turns
\* every exception into a TypeError.
ZeroDivision(other) == IF other.type = "float" THEN "TypeError" ELSE "ZeroDivisionError"

\* x op y on a concolic int.
IntForward(op, other) ==
    /\ Running /\ acc.type = "int" /\ ~acc.plain /\ op \in Arithmetic
    /\ branches' = branches \cup ZeroCheck(op, other)
    /\ IF op \in Divisions /\ other.val = 0
       THEN Raises(ZeroDivision(other))
       ELSE Becomes(IntResult(op, acc, other, FALSE))

\* n op x: Python asks the subclass first, so n is a plain int.
IntReverse(op, other) ==
    /\ Running /\ acc.type = "int" /\ ~acc.plain
    /\ other.plain /\ other.type = "int" /\ op \in Arithmetic
    /\ UNCHANGED branches
    /\ IF op \in Divisions /\ acc.val = 0
       THEN Raises("ZeroDivisionError")
       ELSE Becomes(IntResult(op, acc, other, TRUE))

IntCompare(op, other) ==
    /\ Running /\ acc.type = "int" /\ ~acc.plain /\ op \in Comparisons
    /\ Becomes(IntResult(op, acc, other, FALSE))
    /\ UNCHANGED branches

IntUnary ==
    /\ Running /\ acc.type = "int" /\ ~acc.plain
    /\ \/ Becomes(Concolic("int", IF acc.val < 0 THEN -acc.val ELSE acc.val,
                           IF acc.den < 0 THEN -acc.den ELSE acc.den, acc.exact))
       \/ Becomes(Concolic("int", -acc.val, -acc.den, acc.exact))
    /\ UNCHANGED branches

\* The bitwise operations drop the expression; ~x and x << 1 stand for them.
IntUntracked ==
    /\ Running /\ acc.type = "int" /\ ~acc.plain
    /\ \E n \in {-acc.val - 2, 2 * acc.val} : Becomes(WithoutExpression("int", n))
    /\ UNCHANGED branches

\* round(x, -n) rounds the number and keeps the expression of x; here to twos.
IntRound ==
    /\ Running /\ acc.type = "int" /\ ~acc.plain
    /\ \E digits \in {0, 1} :
         LET concrete == IF digits = 0 THEN acc.val ELSE 4 * (acc.val \div 4)
         IN  Becomes(Concolic("int", concrete, acc.den, acc.exact /\ concrete = acc.val))
    /\ UNCHANGED branches

\* Comparisons of a concolic float.  Every operand becomes a float.
FloatCompare(op, other) ==
    /\ Running /\ acc.type = "float" /\ ~acc.plain /\ op \in Comparisons
    /\ Becomes(Concolic("bool", Python(op, acc.val, other.val),
                        Smt(op, acc.den, ToFloat(other).den), acc.exact /\ other.exact))
    /\ UNCHANGED branches

FloatDivide(other) ==
    /\ Running /\ acc.type = "float" /\ ~acc.plain
    /\ UNCHANGED branches
    /\ IF other.val = 0
       THEN Raises("ZeroDivisionError")
       ELSE Becomes(Concolic("float", Python("/", acc.val, other.val),
                             Smt("/", acc.den, ToFloat(other).den),
                             acc.exact /\ other.exact /\ ~Rounded("/", acc.val, other.val)))

\* + - * and their like on a float are float's own: the result is plain.
FloatUntracked(op, other) ==
    /\ Running /\ acc.type = "float" /\ ~acc.plain /\ op \in {"+", "-"}
    /\ Becomes(Plain("float", Python(op, acc.val, other.val)))
    /\ UNCHANGED branches

BoolXor(other) ==
    /\ Running /\ acc.type = "bool" /\ ~acc.plain
    /\ other.val \in {0, 2} /\ other.type # "float"
    /\ Becomes(Concolic(IF other.type = "bool" THEN "bool" ELSE "int",
                        Truth(acc.val # other.val), Truth(acc.den # other.den),
                        acc.exact /\ other.exact))
    /\ UNCHANGED branches

Convert ==
    /\ Running /\ ~acc.plain
    /\ \/ acc.type = "int" /\ (Becomes(ToBool(acc)) \/ Becomes(ToFloat(acc)))
       \/ acc.type = "float" /\ Becomes(ToInt(acc))
       \/ acc.type = "bool" /\ (Becomes(ToInt(acc)) \/ Becomes(ToFloat(acc)))
    /\ UNCHANGED branches

\* The target takes a decision on the value; a float decides without a record.
Decide ==
    /\ Running /\ ~acc.plain /\ acc.type \in {"int", "bool"}
    /\ branches' = branches \cup {Registered(acc)}
    /\ steps' = steps + 1
    /\ UNCHANGED <<acc, error, loop>>

-----------------------------------------------------------------------------
(* ConcolicRange *)

\* The target iterates over range(start, stop, step) with the value as stop.
RangeOpen(start, step) ==
    /\ Running /\ acc.type \in {"int", "bool"} /\ ~acc.plain
    /\ start.type = "int" /\ step.type = "int"
    /\ steps' = steps + 1
    /\ UNCHANGED <<acc, branches>>
    /\ IF step.val = 0
       THEN error' = "ValueError" /\ UNCHANGED loop
       ELSE /\ loop' = [state |-> "open", current |-> ToInt(start), stop |-> ToInt(acc),
                        step |-> ToInt(step), start |-> start.val, yielded |-> <<>>]
            /\ UNCHANGED error

RangeTurn__Ascending ==
    /\ loop.state = "open"
    /\ LET test == IntResult("<", loop.current, loop.stop, FALSE)
       IN  /\ branches' = branches \cup {Registered(test)}
           /\ loop' = IF test.val # 0
                      THEN [loop EXCEPT !.yielded = Append(@, loop.current),
                                        !.current = IntResult("+", @, loop.step, FALSE)]
                      ELSE [loop EXCEPT !.state = "done"]
    /\ UNCHANGED <<acc, error, steps>>

\* One turn of __iter__: the comparison is a branch, the step an addition.  The
\* direction follows the concrete step.
RangeTurn ==
    /\ loop.state = "open"
    /\ LET op   == IF loop.step.val > 0 THEN "<" ELSE ">"
           test == IntResult(op, loop.current, loop.stop, FALSE)
           next == IntResult("+", loop.current, loop.step, FALSE)
       IN  /\ branches' = branches \cup {Registered(test)}
           /\ loop' = IF test.val # 0
                      THEN [loop EXCEPT !.yielded = Append(@, loop.current),
                                        !.current = next]
                      ELSE [loop EXCEPT !.state = "done"]
    /\ UNCHANGED <<acc, error, steps>>

NumberNext ==
    \/ \E op \in Arithmetic \cup Comparisons, other \in Operands :
         \/ IntForward(op, other)
         \/ IntCompare(op, other)
         \/ IntReverse(op, other)
         \/ FloatCompare(op, other)
         \/ FloatUntracked(op, other)
    \/ \E other \in Operands : FloatDivide(other) \/ BoolXor(other)
    \/ IntUnary
    \/ IntUntracked
    \/ IntRound
    \/ Convert
    \/ Decide
    \/ \E start, step \in Operands : RangeOpen(start, step)
    \/ RangeTurn

NumberSpec == Init /\ [][NumberNext]_vars

-----------------------------------------------------------------------------
(* Properties *)

LoopType ==
    \/ loop = NoLoop
    \/ loop \in [state : {"open", "done"}, current : Value, stop : Value, step : Value,
                start : Int, yielded : Seq(Value)]

TypeOK ==
    /\ acc \in Value
    /\ branches \subseteq [den : {0, 2}, taken : {0, 2}, exact : BOOLEAN]
    /\ error \in {"none", "ZeroDivisionError", "TypeError", "ValueError"}
    /\ LoopType
    /\ steps \in 0..MaxSteps

\* The number the target computed is the one its expression denotes under the
\* inputs of the execution, whatever operations led to it (every wrap_concolic of
\* core/), outside the gaps named above.
Coherent == acc.exact => acc.den = acc.val

\* The path condition holds of the inputs that took the path: each registered
\* condition has, in SMT-LIB, the truth value the target saw.
BranchesHold == \A b \in branches : b.exact => b.den = b.taken

\* Iterating over ConcolicRange yields what range yields, no more and no less.
RangeFaithful ==
    loop.state = "done" =>
        /\ \A i \in 1..Len(loop.yielded) :
             /\ loop.yielded[i].val = loop.start + (i - 1) * loop.step.val
             /\ loop.yielded[i].val # loop.stop.val
             /\ (loop.yielded[i].val < loop.stop.val) = (loop.step.val > 0)
        /\ LET last == loop.start + Len(loop.yielded) * loop.step.val
           IN  IF loop.step.val > 0 THEN last >= loop.stop.val ELSE last <= loop.stop.val

=============================================================================
