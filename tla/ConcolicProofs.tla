--------------------------- MODULE ConcolicProofs ---------------------------
(***************************************************************************)
(* For every set of inputs and constants of the target: the value in hand,  *)
(* number or string, is the one its expression denotes, outside the named   *)
(* gaps; every registered condition holds of the input that was executed;   *)
(* and a loop over a range, over the characters of a string or into pieces  *)
(* gives what Python's gives.  The numbers come first: what a step on       *)
(* numbers keeps is used as it stands by the target that computes with      *)
(* strings too.  The second half is about the rewriting that lets these     *)
(* values through: a rewritten target on wrapped arguments does what the    *)
(* original does on plain ones.                                             *)
(***************************************************************************)
EXTENDS ConcolicStrings, TargetRewriting, ProofFacts, TLAPS, SequenceTheorems, FiniteSetTheorems

\* A value whose two halves agree unless a gap was met on the way.
Faithful(c) == c \in Value /\ (c.exact => c.den = c.val)

NumberErrors == {"none", "ZeroDivisionError", "TypeError", "ValueError"}
Branch == [den : {0, 2}, taken : {0, 2}, exact : BOOLEAN]
Ranges == [state : {"open", "done"}, current : Value, stop : Value, step : Value,
           start : Int, yielded : Seq(Value)]

\* The numbers range has given so far, and where it stands.
OnTheWay(v, range) ==
    v # range.stop.val /\ (v < range.stop.val) = (range.step.val > 0)

\* The range keeps three values of its own between two turns; the one in hand is as
\* many steps from the start as numbers were given, each before the stop.
RangeInv ==
    loop.state \in {"open", "done"} =>
        /\ loop \in Ranges
        /\ loop.step.val # 0
        /\ Faithful(loop.current) /\ Faithful(loop.stop) /\ Faithful(loop.step)
        /\ loop.current.val = loop.start + Len(loop.yielded) * loop.step.val
        /\ \A i \in 1..Len(loop.yielded) :
             /\ loop.yielded[i].val = loop.start + (i - 1) * loop.step.val
             /\ OnTheWay(loop.yielded[i].val, loop)
        /\ loop.state = "done" =>
             IF loop.step.val > 0 THEN loop.current.val >= loop.stop.val
                                  ELSE loop.current.val <= loop.stop.val

\* What the operations on numbers keep, whatever else the target computes with.
NumberInv ==
    /\ acc.type \in Types => Faithful(acc)
    /\ branches \subseteq Branch /\ BranchesHold
    /\ RangeInv
    /\ steps \in 0..MaxSteps

\* A target that computes with numbers only.
IInv == NumberInv /\ TypeOK

-----------------------------------------------------------------------------
(* Arithmetic *)

\* The two quotients are integers and agree for a divisor that is not negative.
LEMMA QuotientsAgree ==
    ASSUME NEW a \in Int, NEW b \in Int
    PROVE  /\ FloorDiv(a, b) \in Int
           /\ EuclidDiv(a, b) \in Int
           /\ b >= 0 => FloorDiv(a, b) = EuclidDiv(a, b)
  BY DEF FloorDiv, EuclidDiv

\* Every operator gives an integer, whatever integer quotient it is given.
LEMMA ApplyType ==
    ASSUME NEW op \in Arithmetic \cup Comparisons, NEW a \in Int, NEW b \in Int,
           NEW quotient \in Int
    PROVE  Apply(op, a, b, quotient) \in Int
  <1>1. FloorDiv(2 * a, b) \in Int
    BY QuotientsAgree
  <1>2. CASE op \in Arithmetic
    BY <1>1, <1>2 DEF Apply, Arithmetic, Truth
  <1>3. CASE op \in Comparisons
    BY <1>3 DEF Apply, Comparisons, Truth
  <1>. QED BY <1>2, <1>3

\* Only // and % look at the integer quotient.
LEMMA QuotientUnused ==
    ASSUME NEW op \in Arithmetic \cup Comparisons, op \notin {"//", "%"},
           NEW a \in Int, NEW b \in Int, NEW q \in Int, NEW r \in Int
    PROVE  Apply(op, a, b, q) = Apply(op, a, b, r)
  <1>1. CASE op \in Arithmetic
    BY <1>1 DEF Apply, Arithmetic, Truth
  <1>2. CASE op \in Comparisons
    BY <1>2 DEF Apply, Comparisons, Truth
  <1>. QED BY <1>1, <1>2

\* The nearest float is an integer number of halves, the quotient itself where it is
\* one.
LEMMA NearestExact ==
    ASSUME NEW a \in Int, NEW b \in Int
    PROVE  /\ Nearest(a, b) \in Int
           /\ b * FloorDiv(a, b) = a => Nearest(a, b) = FloorDiv(a, b)
  <1> DEFINE q == FloorDiv(a, b)
             r == IF b > 0 THEN a - b * q ELSE b * q - a
             d == IF b > 0 THEN b ELSE -b
  <1>1. q \in Int /\ (b = 0 => q = 0)
    BY QuotientsAgree DEF FloorDiv
  <1>2. Nearest(a, b) = IF 2 * r > d \/ (2 * r = d /\ ~Whole(q)) THEN q + 1 ELSE q
    BY DEF Nearest
  <1> HIDE DEF q
  <1>3. b * q \in Int
    BY <1>1
  <1>4. ASSUME b * q = a
        PROVE  Nearest(a, b) = q
    <2>1. r = 0 /\ d \in Int /\ d >= 0 /\ (d = 0 => b = 0)
      BY <1>4
    <2>2. d = 0 => Whole(q)
      BY <1>1, <2>1 DEF Whole
    <2> HIDE DEF r, d
    <2>. QED BY <1>2, <2>1, <2>2
  <1>. QED BY <1>1, <1>2, <1>4 DEF q

\* Python's operators and SMT-LIB's give integers, and the same one when no
\* integer quotient by a negative divisor is taken and nothing is rounded.
LEMMA OperatorsAgree ==
    ASSUME NEW op \in Arithmetic \cup Comparisons, NEW a \in Int, NEW b \in Int
    PROVE  /\ Python(op, a, b) \in Int
           /\ Smt(op, a, b) \in Int
           /\ (op \in {"//", "%"} => b >= 0) /\ ~Rounded(op, a, b) =>
                Python(op, a, b) = Smt(op, a, b)
  <1>1. FloorDiv(a, b) \in Int /\ EuclidDiv(a, b) \in Int
        /\ (b >= 0 => FloorDiv(a, b) = EuclidDiv(a, b))
    BY QuotientsAgree
  <1>2. Python(op, a, b) \in Int
    <2>1. Nearest(a * b, 2) \in Int /\ Nearest(2 * a, b) \in Int
      BY NearestExact
    <2>2. Apply(op, a, b, FloorDiv(a, b)) \in Int
      BY <1>1, ApplyType
    <2>. QED BY <2>1, <2>2 DEF Python
  <1>3. Smt(op, a, b) \in Int
    BY <1>1, ApplyType DEF Smt
  <1>4. ASSUME op \in {"//", "%"} => b >= 0, ~Rounded(op, a, b)
        PROVE  Python(op, a, b) = Smt(op, a, b)
    <2>1. CASE op \in {"//", "%"}
      BY <1>1, <1>4, <2>1 DEF Python, Smt
    <2>2. CASE op = "*"
      <3>1. Smt(op, a, b) = (a * b) \div 2 /\ Python(op, a, b) = Nearest(a * b, 2)
        BY <2>2 DEF Smt, Python, Apply
      <3>2. a * b \in Int /\ Whole(a * b)
        BY <1>4, <2>2 DEF Rounded
      <3>3. FloorDiv(a * b, 2) = (a * b) \div 2
        BY <3>2 DEF FloorDiv
      <3>4. 2 * FloorDiv(a * b, 2) = a * b
        BY <3>2, <3>3 DEF Whole
      <3>. QED BY <3>1, <3>2, <3>3, <3>4, NearestExact
    <2>3. CASE op = "/"
      <3>1. Smt(op, a, b) = FloorDiv(2 * a, b) /\ Python(op, a, b) = Nearest(2 * a, b)
        BY <2>3 DEF Smt, Python, Apply
      <3>2. b * FloorDiv(2 * a, b) = 2 * a
        BY <1>4, <2>3 DEF Rounded
      <3>. QED BY <3>1, <3>2, NearestExact
    <2>4. CASE op \notin {"//", "%", "*", "/"}
      BY <1>1, <2>4, QuotientUnused DEF Python, Smt
    <2>. QED BY <2>1, <2>2, <2>3, <2>4
  <1>. QED BY <1>2, <1>3, <1>4

\* Truncation and floor of halves are whole numbers of halves; on a whole number
\* they change nothing.
LEMMA Truncation ==
    ASSUME NEW h \in Int
    PROVE  /\ Truncate(h) \in Int
           /\ 2 * (h \div 2) + (IF h < 0 /\ ~Whole(h) THEN 2 ELSE 0) = Truncate(h)
           /\ Whole(h) => Truncate(h) = h
  BY DEF Truncate, Whole

-----------------------------------------------------------------------------
(* Values *)

\* The conversions keep the two halves together.
LEMMA ConversionsFaithful ==
    ASSUME NEW c, Faithful(c)
    PROVE  Faithful(ToBool(c)) /\ Faithful(ToInt(c)) /\ Faithful(ToFloat(c))
  <1>1. c.val \in Int /\ c.den \in Int /\ c.exact \in BOOLEAN /\ (c.exact => c.den = c.val)
    BY DEF Faithful, Value
  <1>2. Faithful(ToBool(c)) /\ Faithful(ToFloat(c))
    BY <1>1 DEF Faithful, Value, Types, ToBool, ToFloat, Concolic, Truth
  <1>3. Faithful(ToInt(c))
    <2>1. Truncate(c.val) \in Int
          /\ 2 * (c.den \div 2) + (IF c.den < 0 /\ ~Whole(c.den) THEN 2 ELSE 0) = Truncate(c.den)
          /\ Truncate(c.den) \in Int
      BY <1>1, Truncation
    <2>. QED BY <1>1, <2>1 DEF Faithful, Value, Types, ToInt, Concolic
  <1>. QED BY <1>2, <1>3

\* A value without an expression denotes itself.
LEMMA UntrackedFaithful ==
    ASSUME NEW t \in Types, NEW v \in Int
    PROVE  Faithful(WithoutExpression(t, v)) /\ Faithful(Plain(t, v))
  BY DEF Faithful, Value, Types, WithoutExpression, Plain, Concolic

\* The constants of the target denote themselves.
LEMMA OperandsFaithful ==
    ASSUME NEW o \in Operands
    PROVE  Faithful(o)
  <1>1. Numbers \subseteq {"int", "float"} \X Int
    BY NumbersAssumption DEF Numbers
  <1>2. CASE \E p \in Numbers : o = Plain(p[1], p[2]) \/ o = WithoutExpression(p[1], p[2])
    BY <1>1, <1>2, UntrackedFaithful DEF Types
  <1>3. CASE \E h \in {0, 2} : o = Plain("bool", h)
    BY <1>3, UntrackedFaithful DEF Types
  <1>. QED BY <1>2, <1>3 DEF Operands

LEMMA ResultTypes ==
    ASSUME NEW op, NEW a, NEW b
    PROVE  ResultType(op, a, b) \in Types
  BY DEF ResultType, Types

\* A binary operation of a concolic int, forward or reverse, keeps the two halves
\* together unless its operands meet one of the gaps.
LEMMA IntResultFaithful ==
    ASSUME NEW op \in Arithmetic \cup Comparisons, NEW self, NEW other, NEW reverse \in BOOLEAN,
           Faithful(self), Faithful(other)
    PROVE  Faithful(IntResult(op, self, other, reverse))
  <1> DEFINE left     == IF reverse THEN other ELSE self
             right    == IF reverse THEN self ELSE other
             operand  == IntOperand(other)
             concrete == Python(op, left.val, right.val)
             symbolic == IF reverse THEN Smt(op, operand.den, self.den)
                                    ELSE Smt(op, self.den, operand.den)
             type     == ResultType(op, self, other)
             clear    == self.exact /\ other.exact /\ ~Gap(op, self, other, reverse)
  <1>1. /\ self.val \in Int /\ self.den \in Int /\ self.exact \in BOOLEAN
        /\ other.val \in Int /\ other.den \in Int /\ other.exact \in BOOLEAN
        /\ self.exact => self.den = self.val
        /\ other.exact => other.den = other.val
    BY DEF Faithful, Value
  <1>2. Faithful(operand)
    BY ConversionsFaithful DEF IntOperand
  <1>3. operand.den \in Int /\ operand.val \in Int
    BY <1>2 DEF Faithful, Value
  <1>4. concrete \in Int /\ symbolic \in Int
    <2>1. left.val \in Int /\ right.val \in Int
      BY <1>1
    <2>2. concrete \in Int
      BY <2>1, OperatorsAgree
    <2>3. symbolic \in Int
      BY <1>1, <1>3, OperatorsAgree
    <2>. QED BY <2>2, <2>3
  <1>5. type \in Types
    BY ResultTypes
  <1>6. ASSUME clear, Tracked(op, operand)
        PROVE  symbolic = concrete
    <2>1. operand.val = other.val /\ operand.den = other.val
      <3>1. CASE other.plain
        BY <1>1, <1>6, <3>1 DEF IntOperand
      <3>2. CASE ~other.plain /\ other.type = "float"
        <4>1. Whole(other.val)
          BY <1>6, <3>2 DEF Gap
        <4>2. Truncate(other.val) = other.val /\ operand.val = Truncate(other.val)
          BY <1>1, <3>2, <4>1, Truncation DEF IntOperand, ToInt, Concolic
        <4>3. operand.den = Truncate(other.den)
          BY <1>1, <3>2, Truncation DEF IntOperand, ToInt, Concolic
        <4>. QED BY <1>1, <1>6, <4>2, <4>3
      <3>3. CASE ~other.plain /\ other.type # "float"
        BY <1>1, <1>6, <3>3 DEF IntOperand, ToInt, Concolic
      <3>. QED BY <3>1, <3>2, <3>3
    <2>2. op \in {"//", "%"} => right.val >= 0
      <3>1. CASE reverse
        BY <1>1, <1>6, <3>1 DEF Gap
      <3>2. CASE ~reverse
        BY <1>1, <1>6, <2>1, <3>2 DEF Tracked
      <3>. QED BY <3>1, <3>2
    <2>3. symbolic = Smt(op, left.val, right.val)
      BY <1>1, <1>6, <2>1
    <2>4. left.val \in Int /\ right.val \in Int
      BY <1>1
    <2>5. ~Rounded(op, left.val, right.val)
      BY <1>6 DEF Gap
    <2>. QED BY <2>2, <2>3, <2>4, <2>5, OperatorsAgree
  <1>7. clear \in BOOLEAN
    OBVIOUS
  <1>8. IntResult(op, self, other, reverse) =
            IF Tracked(op, operand) THEN Concolic(type, concrete, symbolic, clear)
                                    ELSE WithoutExpression(type, concrete)
    BY DEF IntResult
  <1> HIDE DEF left, right, operand, concrete, symbolic, type, clear
  <1>9. CASE Tracked(op, operand)
    BY <1>4, <1>5, <1>6, <1>7, <1>8, <1>9 DEF Faithful, Value, Concolic
  <1>10. CASE ~Tracked(op, operand)
    BY <1>4, <1>5, <1>8, <1>10, UntrackedFaithful
  <1>. QED BY <1>9, <1>10

-----------------------------------------------------------------------------
(* Steps *)

\* What a comparison of the range sees is the comparison of the two numbers, and its
\* sum is their sum.
LEMMA RangeOperations ==
    ASSUME NEW op \in {"<", ">", "+"}, NEW self, NEW other, Faithful(self), Faithful(other)
    PROVE  IntResult(op, self, other, FALSE).val =
             CASE op = "<" -> Truth(self.val < other.val)
               [] op = ">" -> Truth(self.val > other.val)
               [] op = "+" -> self.val + other.val
  <1>1. IntResult(op, self, other, FALSE).val = Python(op, self.val, other.val)
    BY DEF IntResult, Concolic, WithoutExpression
  <1>. QED BY <1>1 DEF Python, Apply

\* What the invariant says of a step that only replaces the value in hand.
LEMMA BecomesKeeps ==
    ASSUME NumberInv, NEW c, Faithful(c), Running, Becomes(c)
    PROVE  Faithful(acc') /\ error' \in NumberErrors
           /\ RangeInv' /\ loop' = loop /\ steps' \in 0..MaxSteps
  <1>1. acc' = c /\ error' = "none" /\ steps' = steps + 1 /\ loop' = loop
    BY DEF Becomes
  <1>2. steps' \in 0..MaxSteps
    BY <1>1, NumbersAssumption DEF NumberInv, Running
  <1>3. RangeInv'
    BY <1>1 DEF NumberInv, RangeInv, OnTheWay, Faithful
  <1>. QED BY <1>1, <1>2, <1>3 DEF NumberErrors

\* An exception leaves the value and the range as they are.
LEMMA RaisesKeeps ==
    ASSUME NumberInv, Faithful(acc), Running,
           NEW e \in {"ZeroDivisionError", "TypeError", "ValueError"}, Raises(e)
    PROVE  Faithful(acc') /\ error' \in NumberErrors
           /\ RangeInv' /\ loop' = loop /\ steps' \in 0..MaxSteps
  <1>1. acc' = acc /\ error' = e /\ steps' = steps + 1 /\ loop' = loop
    BY DEF Raises
  <1>2. steps' \in 0..MaxSteps
    BY <1>1, NumbersAssumption DEF NumberInv, Running
  <1>3. RangeInv'
    BY <1>1 DEF NumberInv, RangeInv, OnTheWay, Faithful
  <1>. QED BY <1>1, <1>2, <1>3 DEF NumberErrors

\* A faithful condition can be registered.
LEMMA RegisteredHolds ==
    ASSUME NEW c, Faithful(c)
    PROVE  Registered(c) \in Branch
           /\ (Registered(c).exact => Registered(c).den = Registered(c).taken)
  BY DEF Faithful, Value, Registered, Branch, Truth

\* Adding faithful conditions to the registered ones keeps what the invariant
\* says of them.
LEMMA BranchesKeep ==
    ASSUME NumberInv, NEW new \in SUBSET Branch,
           \A b \in new : b.exact => b.den = b.taken,
           branches' = branches \cup new
    PROVE  branches' \subseteq Branch /\ BranchesHold'
  BY DEF NumberInv, BranchesHold, Branch

LEMMA OneBranchKeeps ==
    ASSUME NumberInv, NEW c, Faithful(c), branches' = branches \cup {Registered(c)}
    PROVE  branches' \subseteq Branch /\ BranchesHold'
  <1>1. {Registered(c)} \in SUBSET Branch
    BY RegisteredHolds
  <1>2. \A b \in {Registered(c)} : b.exact => b.den = b.taken
    BY RegisteredHolds
  <1>. QED BY <1>1, <1>2, BranchesKeep

\* What a step on numbers may do.
Keeps == NumberInv' /\ (Faithful(acc') \/ UNCHANGED acc)
                    /\ (error' \in NumberErrors \/ UNCHANGED error)
                    /\ (loop' \in Ranges \/ UNCHANGED loop)

LEMMA Assemble ==
    ASSUME Faithful(acc'), error' \in NumberErrors \/ UNCHANGED error,
           RangeInv', loop' \in Ranges \/ UNCHANGED loop, steps' \in 0..MaxSteps,
           branches' \subseteq Branch, BranchesHold'
    PROVE  Keeps
  BY DEF Keeps, NumberInv, Faithful, BranchesHold

LEMMA SameBranches ==
    ASSUME NumberInv, UNCHANGED branches
    PROVE  branches' \subseteq Branch /\ BranchesHold'
  BY DEF NumberInv, BranchesHold, Branch

LEMMA StepKeeps ==
    ASSUME NumberInv, NumberNext
    PROVE  Keeps
  <1>a. ASSUME Faithful(acc)
        PROVE  /\ acc.val \in Int /\ acc.den \in Int /\ acc.exact \in BOOLEAN
               /\ acc.exact => acc.den = acc.val
    BY <1>a DEF Faithful, Value
  <1>b. acc.type \in {"int", "float", "bool"} => Faithful(acc)
    BY DEF NumberInv, Types
  <1>1. ASSUME NEW op \in Arithmetic \cup Comparisons, NEW other \in Operands,
               IntForward(op, other)
        PROVE  Keeps
    <2>0. /\ Running /\ Faithful(acc)
          /\ acc.val \in Int /\ acc.den \in Int /\ acc.exact \in BOOLEAN
          /\ acc.exact => acc.den = acc.val
      BY <1>a, <1>b, <1>1 DEF IntForward
    <2>1. Faithful(other)
      BY OperandsFaithful
    <2>2. \A b \in ZeroCheck(op, other) : b \in Branch /\ (b.exact => b.den = b.taken)
      BY <2>1, RegisteredHolds DEF ZeroCheck
    <2>3. branches' \subseteq Branch /\ BranchesHold'
      BY <1>1, <2>2, BranchesKeep DEF IntForward
    <2>4. CASE op \in Divisions /\ other.val = 0
      BY <1>1, <2>0, <2>3, <2>4, RaisesKeeps, Assemble DEF IntForward, ZeroDivision
    <2>5. CASE ~(op \in Divisions /\ other.val = 0)
      <3>1. Faithful(IntResult(op, acc, other, FALSE))
        BY <2>0, <2>1, IntResultFaithful
      <3>. QED BY <1>1, <2>0, <2>3, <2>5, <3>1, BecomesKeeps, Assemble DEF IntForward
    <2>. QED BY <2>4, <2>5
  <1>2. ASSUME NEW op \in Arithmetic \cup Comparisons, NEW other \in Operands,
               IntCompare(op, other)
        PROVE  Keeps
    <2>0. /\ Running /\ Faithful(acc)
          /\ acc.val \in Int /\ acc.den \in Int /\ acc.exact \in BOOLEAN
          /\ acc.exact => acc.den = acc.val
      BY <1>a, <1>b, <1>2 DEF IntCompare
    <2>1. Faithful(IntResult(op, acc, other, FALSE))
      BY <2>0, OperandsFaithful, IntResultFaithful
    <2>. QED BY <1>2, <2>0, <2>1, BecomesKeeps, SameBranches, Assemble DEF IntCompare
  <1>3. ASSUME NEW op \in Arithmetic \cup Comparisons, NEW other \in Operands,
               IntReverse(op, other)
        PROVE  Keeps
    <2>0. /\ Running /\ Faithful(acc)
          /\ acc.val \in Int /\ acc.den \in Int /\ acc.exact \in BOOLEAN
          /\ acc.exact => acc.den = acc.val
      BY <1>a, <1>b, <1>3 DEF IntReverse
    <2>1. Faithful(IntResult(op, acc, other, TRUE))
      BY <2>0, OperandsFaithful, IntResultFaithful
    <2>2. CASE op \in Divisions /\ acc.val = 0
      BY <1>3, <2>0, <2>2, RaisesKeeps, SameBranches, Assemble DEF IntReverse
    <2>3. CASE ~(op \in Divisions /\ acc.val = 0)
      BY <1>3, <2>0, <2>1, <2>3, BecomesKeeps, SameBranches, Assemble DEF IntReverse
    <2>. QED BY <2>2, <2>3
  <1>4. ASSUME NEW op \in Arithmetic \cup Comparisons, NEW other \in Operands,
               FloatCompare(op, other)
        PROVE  Keeps
    <2>0. /\ Running /\ Faithful(acc)
          /\ acc.val \in Int /\ acc.den \in Int /\ acc.exact \in BOOLEAN
          /\ acc.exact => acc.den = acc.val
      BY <1>a, <1>b, <1>4 DEF FloatCompare
    <2>1. Faithful(other) /\ op \in Comparisons
      BY <1>4, OperandsFaithful DEF FloatCompare
    <2>2. other.val \in Int /\ other.den \in Int /\ other.exact \in BOOLEAN
          /\ (other.exact => other.den = other.val)
      BY <2>1 DEF Faithful, Value
    <2>3. op \notin {"//", "%"} /\ ~Rounded(op, acc.val, other.val)
      BY <2>1 DEF Comparisons, Rounded
    <2>4. /\ Python(op, acc.val, other.val) \in Int
          /\ Smt(op, acc.den, other.den) \in Int
          /\ Python(op, acc.val, other.val) = Smt(op, acc.val, other.val)
      BY <2>0, <2>2, <2>3, OperatorsAgree
    <2>5. Faithful(Concolic("bool", Python(op, acc.val, other.val),
                            Smt(op, acc.den, ToFloat(other).den), acc.exact /\ other.exact))
      BY <2>0, <2>2, <2>4 DEF Faithful, Value, Types, Concolic, ToFloat
    <2>. QED BY <1>4, <2>0, <2>5, BecomesKeeps, SameBranches, Assemble DEF FloatCompare
  <1>5. ASSUME NEW op \in Arithmetic \cup Comparisons, NEW other \in Operands,
               FloatUntracked(op, other)
        PROVE  Keeps
    <2>0. /\ Running /\ Faithful(acc)
          /\ acc.val \in Int /\ acc.den \in Int /\ acc.exact \in BOOLEAN
          /\ acc.exact => acc.den = acc.val
      BY <1>a, <1>b, <1>5 DEF FloatUntracked
    <2>1. Faithful(other)
      BY OperandsFaithful
    <2>2. Python(op, acc.val, other.val) \in Int
      BY <2>0, <2>1, OperatorsAgree DEF Faithful, Value
    <2>3. Faithful(Plain("float", Python(op, acc.val, other.val)))
      BY <2>2, UntrackedFaithful DEF Types
    <2>. QED BY <1>5, <2>0, <2>3, BecomesKeeps, SameBranches, Assemble DEF FloatUntracked
  <1>6. ASSUME NEW other \in Operands, FloatDivide(other)
        PROVE  Keeps
    <2>0. /\ Running /\ Faithful(acc)
          /\ acc.val \in Int /\ acc.den \in Int /\ acc.exact \in BOOLEAN
          /\ acc.exact => acc.den = acc.val
      BY <1>a, <1>b, <1>6 DEF FloatDivide
    <2>1. Faithful(other)
      BY OperandsFaithful
    <2>2. other.val \in Int /\ other.den \in Int /\ other.exact \in BOOLEAN
          /\ (other.exact => other.den = other.val)
      BY <2>1 DEF Faithful, Value
    <2>3. "/" \in Arithmetic \cup Comparisons /\ "/" \notin {"//", "%"}
      BY DEF Arithmetic
    <2>4. /\ Python("/", acc.val, other.val) \in Int
          /\ Smt("/", acc.den, other.den) \in Int
          /\ ~Rounded("/", acc.val, other.val) =>
               Python("/", acc.val, other.val) = Smt("/", acc.val, other.val)
      BY <2>0, <2>2, <2>3, OperatorsAgree
    <2>5. Faithful(Concolic("float", Python("/", acc.val, other.val),
                            Smt("/", acc.den, ToFloat(other).den),
                            acc.exact /\ other.exact /\ ~Rounded("/", acc.val, other.val)))
      <3>1. Rounded("/", acc.val, other.val) \in BOOLEAN
        BY DEF Rounded
      <3>. QED BY <2>0, <2>2, <2>4, <3>1 DEF Faithful, Value, Types, Concolic, ToFloat
    <2>6. CASE other.val = 0
      BY <1>6, <2>0, <2>6, RaisesKeeps, SameBranches, Assemble DEF FloatDivide
    <2>7. CASE other.val # 0
      BY <1>6, <2>0, <2>5, <2>7, BecomesKeeps, SameBranches, Assemble DEF FloatDivide
    <2>. QED BY <2>6, <2>7
  <1>7. ASSUME NEW other \in Operands, BoolXor(other)
        PROVE  Keeps
    <2>0. /\ Running /\ Faithful(acc)
          /\ acc.val \in Int /\ acc.den \in Int /\ acc.exact \in BOOLEAN
          /\ acc.exact => acc.den = acc.val
      BY <1>a, <1>b, <1>7 DEF BoolXor
    <2>1. other.val \in Int /\ other.den \in Int /\ other.exact \in BOOLEAN
          /\ (other.exact => other.den = other.val)
      BY OperandsFaithful DEF Faithful, Value
    <2>2. Faithful(Concolic(IF other.type = "bool" THEN "bool" ELSE "int",
                            Truth(acc.val # other.val), Truth(acc.den # other.den),
                            acc.exact /\ other.exact))
      BY <2>0, <2>1 DEF Faithful, Value, Types, Concolic, Truth
    <2>. QED BY <1>7, <2>0, <2>2, BecomesKeeps, SameBranches, Assemble DEF BoolXor
  <1>8. CASE IntUnary
    <2>0. /\ Running /\ Faithful(acc)
          /\ acc.val \in Int /\ acc.den \in Int /\ acc.exact \in BOOLEAN
          /\ acc.exact => acc.den = acc.val
      BY <1>a, <1>b, <1>8 DEF IntUnary
    <2>1. Faithful(Concolic("int", IF acc.val < 0 THEN -acc.val ELSE acc.val,
                            IF acc.den < 0 THEN -acc.den ELSE acc.den, acc.exact))
          /\ Faithful(Concolic("int", -acc.val, -acc.den, acc.exact))
      BY <2>0 DEF Faithful, Value, Types, Concolic
    <2>. QED BY <1>8, <2>0, <2>1, BecomesKeeps, SameBranches, Assemble DEF IntUnary
  <1>9. CASE IntUntracked
    <2>0. /\ Running /\ Faithful(acc)
          /\ acc.val \in Int /\ acc.den \in Int /\ acc.exact \in BOOLEAN
          /\ acc.exact => acc.den = acc.val
      BY <1>a, <1>b, <1>9 DEF IntUntracked
    <2>1. -acc.val - 2 \in Int /\ 2 * acc.val \in Int
      BY <2>0
    <2>2. \A n \in {-acc.val - 2, 2 * acc.val} : Faithful(WithoutExpression("int", n))
      BY <2>1, UntrackedFaithful DEF Types
    <2>. QED BY <1>9, <2>0, <2>2, BecomesKeeps, SameBranches, Assemble DEF IntUntracked
  <1>10. CASE IntRound
    <2>0. /\ Running /\ Faithful(acc)
          /\ acc.val \in Int /\ acc.den \in Int /\ acc.exact \in BOOLEAN
          /\ acc.exact => acc.den = acc.val
      BY <1>a, <1>b, <1>10 DEF IntRound
    <2>1. PICK digits \in {0, 1} :
            LET concrete == IF digits = 0 THEN acc.val ELSE 4 * (acc.val \div 4)
            IN  Becomes(Concolic("int", concrete, acc.den, acc.exact /\ concrete = acc.val))
      BY <1>10 DEF IntRound
    <2> DEFINE concrete == IF digits = 0 THEN acc.val ELSE 4 * (acc.val \div 4)
    <2>2. concrete \in Int
      BY <2>0
    <2>3. Becomes(Concolic("int", concrete, acc.den, acc.exact /\ concrete = acc.val))
      BY <2>1
    <2> HIDE DEF concrete
    <2>4. Faithful(Concolic("int", concrete, acc.den, acc.exact /\ concrete = acc.val))
      BY <2>0, <2>2 DEF Faithful, Value, Types, Concolic
    <2>. QED BY <1>10, <2>0, <2>3, <2>4, BecomesKeeps, SameBranches, Assemble DEF IntRound
  <1>11. CASE Convert
    <2>0. /\ Running /\ Faithful(acc)
          /\ acc.val \in Int /\ acc.den \in Int /\ acc.exact \in BOOLEAN
          /\ acc.exact => acc.den = acc.val
      BY <1>a, <1>b, <1>11 DEF Convert
    <2>1. Faithful(ToBool(acc)) /\ Faithful(ToInt(acc)) /\ Faithful(ToFloat(acc))
      BY <2>0, ConversionsFaithful
    <2>. QED BY <1>11, <2>0, <2>1, BecomesKeeps, SameBranches, Assemble DEF Convert
  <1>12. CASE Decide
    <2>0. Running /\ Faithful(acc)
      BY <1>b, <1>12 DEF Decide
    <2>1. /\ steps' = steps + 1 /\ acc' = acc /\ error' = error /\ loop' = loop
          /\ branches' = branches \cup {Registered(acc)} /\ steps < MaxSteps
      BY <1>12 DEF Decide, Running
    <2>2. branches' \subseteq Branch /\ BranchesHold'
      BY <2>0, <2>1, OneBranchKeeps
    <2>3. RangeInv'
      BY <2>1 DEF NumberInv, RangeInv, OnTheWay, Faithful
    <2>4. steps' \in 0..MaxSteps
      BY <2>1, NumbersAssumption DEF NumberInv
    <2>. QED BY <2>0, <2>1, <2>2, <2>3, <2>4, Assemble
  <1>13. ASSUME NEW start \in Operands, NEW step \in Operands, RangeOpen(start, step)
         PROVE  Keeps
    <2>0. /\ Faithful(acc) /\ acc.type \in {"int", "bool"} /\ steps < MaxSteps
          /\ start.type = "int" /\ step.type = "int"
          /\ steps' = steps + 1 /\ acc' = acc /\ branches' = branches
      BY <1>b, <1>13 DEF RangeOpen, Running
    <2>1. Faithful(ToInt(start)) /\ Faithful(ToInt(acc)) /\ Faithful(ToInt(step))
          /\ start.val \in Int /\ step.val \in Int
      BY <2>0, OperandsFaithful, ConversionsFaithful DEF Faithful, Value
    <2>2. ToInt(start).val = start.val /\ ToInt(step).val = step.val
      BY <2>0 DEF ToInt, Concolic
    <2>3. RangeInv' /\ (loop' \in Ranges \/ UNCHANGED loop)
          /\ (error' \in NumberErrors \/ UNCHANGED error)
      <3>1. CASE step.val = 0
        <4>1. loop' = loop /\ error' = "ValueError"
          BY <1>13, <3>1 DEF RangeOpen
        <4>. QED BY <4>1 DEF NumberInv, RangeInv, OnTheWay, Faithful, NumberErrors
      <3>2. CASE step.val # 0
        <4>1. loop' = [state |-> "open", current |-> ToInt(start), stop |-> ToInt(acc),
                       step |-> ToInt(step), start |-> start.val, yielded |-> <<>>]
              /\ error' = error
          BY <1>13, <3>2 DEF RangeOpen
        <4>2. loop' \in Ranges
          BY <2>1, <4>1 DEF Ranges, Faithful
        <4>3. /\ loop'.current = ToInt(start) /\ loop'.stop = ToInt(acc) /\ loop'.step = ToInt(step)
              /\ loop'.start = start.val /\ loop'.state = "open"
              /\ Len(loop'.yielded) = 0
          BY <4>1
        <4>4. loop'.current.val = loop'.start + 0 * loop'.step.val
          BY <2>1, <2>2, <4>3
        <4>5. 1..Len(loop'.yielded) = {}
          BY <4>3
        <4>6. RangeInv'
          BY <2>1, <2>2, <3>2, <4>2, <4>3, <4>4, <4>5 DEF RangeInv, Faithful
        <4>. QED BY <4>1, <4>2, <4>6
      <3>. QED BY <3>1, <3>2
    <2>4. steps' \in 0..MaxSteps
      BY <2>0, NumbersAssumption DEF NumberInv
    <2>. QED BY <2>0, <2>3, <2>4, SameBranches, Assemble
  <1>14. CASE RangeTurn
    <2> DEFINE op   == IF loop.step.val > 0 THEN "<" ELSE ">"
               test == IntResult(op, loop.current, loop.stop, FALSE)
               next == IntResult("+", loop.current, loop.step, FALSE)
    <2>1. /\ loop.state = "open"
          /\ branches' = branches \cup {Registered(test)}
          /\ loop' = IF test.val # 0
                     THEN [loop EXCEPT !.yielded = Append(@, loop.current), !.current = next]
                     ELSE [loop EXCEPT !.state = "done"]
          /\ acc' = acc /\ error' = error /\ steps' = steps
      BY <1>14 DEF RangeTurn
    <2>2. Faithful(loop.current) /\ Faithful(loop.stop) /\ Faithful(loop.step)
          /\ loop \in Ranges /\ RangeInv
      BY <2>1 DEF NumberInv, RangeInv
    <2>3. Faithful(test) /\ Faithful(next)
      BY <2>2, IntResultFaithful DEF Arithmetic, Comparisons
    <2>4. /\ loop.current.val \in Int /\ loop.stop.val \in Int /\ loop.step.val \in Int
          /\ loop.start \in Int /\ loop.yielded \in Seq(Value) /\ loop.current \in Value
      BY <2>2 DEF Faithful, Value, Ranges
    <2>5. test.val = IF loop.step.val > 0 THEN Truth(loop.current.val < loop.stop.val)
                                          ELSE Truth(loop.current.val > loop.stop.val)
      BY <2>2, RangeOperations
    <2>6. next.val = loop.current.val + loop.step.val
      BY <2>2, RangeOperations
    <2> HIDE DEF op, test, next
    <2>7. branches' \subseteq Branch /\ BranchesHold'
      BY <2>1, <2>3, OneBranchKeeps
    <2>8. CASE test.val # 0
      <3>1. /\ loop' = [loop EXCEPT !.yielded = Append(@, loop.current), !.current = next]
            /\ OnTheWay(loop.current.val, loop) /\ loop.step.val # 0
        BY <2>1, <2>2, <2>4, <2>5, <2>8 DEF Truth, OnTheWay, RangeInv
      <3> DEFINE K == Len(loop.yielded)
                 Y == loop'.yielded
      <3>2. K \in Nat /\ Y \in Seq(Value) /\ Len(Y) = K + 1
            /\ (\A i \in 1..K : Y[i] = loop.yielded[i]) /\ Y[K + 1] = loop.current
        BY <2>2, <2>4, <3>1, AppendProperties, LenProperties DEF Ranges
      <3>3. loop' \in Ranges
        BY <2>2, <2>3, <3>1, <3>2 DEF Ranges, Faithful
      <3>4. /\ loop'.current = next /\ loop'.stop = loop.stop /\ loop'.step = loop.step
            /\ loop'.start = loop.start /\ loop'.state = "open"
        BY <2>1, <2>2, <3>1 DEF Ranges
      <3>5. /\ loop.current.val = loop.start + K * loop.step.val
            /\ \A i \in 1..K : /\ loop.yielded[i].val = loop.start + (i - 1) * loop.step.val
                               /\ OnTheWay(loop.yielded[i].val, loop)
        BY <2>1, <2>2 DEF RangeInv
      <3> HIDE DEF K, Y
      <3>6. next.val = loop.start + (K + 1) * loop.step.val
        BY <2>4, <2>6, <3>2, <3>5
      <3>7. ASSUME NEW i \in 1..(K + 1)
            PROVE  Y[i].val = loop.start + (i - 1) * loop.step.val /\ OnTheWay(Y[i].val, loop)
        <4>1. CASE i = K + 1
          <5>1. i - 1 = K
            BY <3>2, <4>1
          <5>. QED BY <3>1, <3>2, <3>5, <4>1, <5>1
        <4>2. CASE i # K + 1
          <5>1. i \in 1..K
            BY <3>2, <4>2
          <5>. QED BY <3>2, <3>5, <5>1
        <4>. QED BY <4>1, <4>2
      <3>8. RangeInv'
        <4>1. /\ Len(loop'.yielded) = K + 1 /\ loop'.step.val # 0
              /\ Faithful(loop'.current) /\ Faithful(loop'.stop) /\ Faithful(loop'.step)
              /\ loop'.current.val = loop'.start + (K + 1) * loop'.step.val
          BY <2>2, <2>3, <3>1, <3>2, <3>4, <3>6 DEF Y
        <4>2. \A i \in 1..(K + 1) :
                /\ loop'.yielded[i].val = loop'.start + (i - 1) * loop'.step.val
                /\ OnTheWay(loop'.yielded[i].val, loop')
          BY <3>4, <3>7 DEF Y, OnTheWay
        <4>. QED BY <3>3, <3>4, <4>1, <4>2 DEF RangeInv, Faithful, OnTheWay
      <3>. QED BY <2>1, <2>7, <3>3, <3>8 DEF Keeps, NumberInv, Faithful
    <2>9. CASE test.val = 0
      <3>1. loop' = [loop EXCEPT !.state = "done"]
        BY <2>1, <2>9
      <3>2. loop' \in Ranges /\ loop'.state = "done" /\ loop'.yielded = loop.yielded
            /\ loop'.current = loop.current /\ loop'.stop = loop.stop /\ loop'.step = loop.step
            /\ loop'.start = loop.start
        BY <2>2, <3>1 DEF Ranges
      <3>3. IF loop.step.val > 0 THEN loop.current.val >= loop.stop.val
                                 ELSE loop.current.val <= loop.stop.val
        BY <2>4, <2>5, <2>9 DEF Truth
      <3>4. RangeInv'
        BY <2>1, <2>2, <3>2, <3>3 DEF RangeInv, OnTheWay, Faithful
      <3>. QED BY <2>1, <2>7, <3>2, <3>4 DEF Keeps, NumberInv, Faithful
    <2>. QED BY <2>8, <2>9
  <1>. QED BY <1>1, <1>2, <1>3, <1>4, <1>5, <1>6, <1>7, <1>8, <1>9, <1>10, <1>11, <1>12,
              <1>13, <1>14 DEF NumberNext

LEMMA NumberInit ==
    ASSUME NEW t \in {"int", "float"}, NEW v \in Inputs, acc = Concolic(t, v, v, TRUE),
           branches = {}, error = "none", loop = NoLoop, steps = 0
    PROVE  NumberInv /\ acc \in Value
  <1>1. acc \in Value /\ acc.den = acc.val
    BY NumbersAssumption DEF Concolic, Value, Types
  <1>2. RangeInv /\ steps \in 0..MaxSteps
    BY NumbersAssumption DEF RangeInv, NoLoop
  <1>. QED BY <1>1, <1>2 DEF NumberInv, Faithful, BranchesHold

-----------------------------------------------------------------------------
\* Every execution of the target on numbers: the value it holds is the one its
\* expression denotes, every registered condition holds of its input, and a range has
\* given what range gives (BinaryOperationHandler.execute, ConcolicFloat, ConcolicBool,
\* ConcolicRange).
THEOREM NumbersInvariant == NumberSpec => []IInv
  <1>1. Init => IInv
    <2> SUFFICES ASSUME Init PROVE IInv
      OBVIOUS
    <2>1. PICK t \in {"int", "float"}, v \in Inputs : acc = Concolic(t, v, v, TRUE)
      BY DEF Init
    <2>2. NumberInv /\ acc \in Value
      BY <2>1, NumberInit DEF Init
    <2>. QED BY <2>2 DEF Init, IInv, NumberInv, TypeOK, LoopType, Branch
  <1>2. IInv /\ [NumberNext]_vars => IInv'
    <2> SUFFICES ASSUME IInv, [NumberNext]_vars PROVE IInv'
      OBVIOUS
    <2>1. CASE NumberNext
      <3>1. Keeps
        BY <2>1, StepKeeps DEF IInv
      <3>2. TypeOK'
        BY <3>1 DEF IInv, TypeOK, LoopType, Keeps, NumberInv, Faithful, Branch, Ranges, NumberErrors
      <3>. QED BY <3>1, <3>2 DEF IInv, Keeps
    <2>2. CASE UNCHANGED vars
      BY <2>2 DEF vars, IInv, NumberInv, TypeOK, BranchesHold, RangeInv, OnTheWay, LoopType, Faithful
    <2>. QED BY <2>1, <2>2
  <1>. QED BY <1>1, <1>2, PTL DEF NumberSpec

\* The type invariant of ConcolicNumbers.
THEOREM NumbersTypeOK == NumberSpec => []TypeOK
  BY NumbersInvariant, PTL DEF IInv

LEMMA NumbersFaithful == NumberInv /\ acc \in Value => Coherent /\ BranchesHold
  BY DEF NumberInv, Coherent, Faithful, Value

\* The number the target computed is the one its expression denotes.
THEOREM NumbersCoherent == NumberSpec => []Coherent
  <1>1. IInv => Coherent
    BY NumbersFaithful DEF IInv, TypeOK
  <1>. QED BY <1>1, NumbersInvariant, PTL

\* The path condition holds of the input that took the path.
THEOREM ConditionsHold == NumberSpec => []BranchesHold
  <1>1. IInv => BranchesHold
    BY DEF IInv, NumberInv
  <1>. QED BY <1>1, NumbersInvariant, PTL

LEMMA RangesFaithful == RangeInv => RangeFaithful
  BY DEF RangeInv, OnTheWay, RangeFaithful


\* A string whose two halves agree unless a gap was met on the way.
StrValue == [type : {"str"}, val : Text, den : Text, exact : BOOLEAN, plain : BOOLEAN]
StrFaithful(c) == c \in StrValue /\ (c.exact => c.den = c.val)

-----------------------------------------------------------------------------
(* Strings *)

LEMMA StrParts ==
    ASSUME NEW s, StrFaithful(s)
    PROVE  /\ s.val \in Text /\ s.den \in Text /\ s.exact \in BOOLEAN /\ s.type = "str"
           /\ s.exact => s.den = s.val
  BY DEF StrFaithful, StrValue

LEMMA NumberParts ==
    ASSUME NEW c, Faithful(c)
    PROVE  /\ c.val \in Int /\ c.den \in Int /\ c.exact \in BOOLEAN /\ c.type \in Types
           /\ c.exact => c.den = c.val
  BY DEF Faithful, Value

LEMMA StrMade ==
    ASSUME NEW v \in Text, NEW d \in Text, NEW e \in BOOLEAN, e => d = v
    PROVE  StrFaithful(Str(v, d, e))
  BY DEF StrFaithful, StrValue, Str

LEMMA UntrackedMade ==
    ASSUME NEW v \in Text
    PROVE  StrFaithful(Untracked(v)) /\ StrFaithful(PlainStr(v))
  BY DEF StrFaithful, StrValue, Str, Untracked, PlainStr

\* The string constants of the target denote themselves.
LEMMA StrOperandsFaithful ==
    ASSUME NEW t \in StrOperands
    PROVE  StrFaithful(t) /\ t.exact
  <1>1. Pieces \subseteq Text
    <2>1. Nat \subseteq Int
      OBVIOUS
    <2>2. Seq(Nat) \subseteq Seq(Int)
      BY <2>1, SeqMonotonic
    <2>. QED BY <2>2, StringsAssumption DEF Text
  <1>2. PICK v \in Pieces : t = PlainStr(v) \/ t = Str(v, v, TRUE)
    BY DEF StrOperands
  <1>3. v \in Text
    BY <1>1
  <1>4. StrFaithful(Str(v, v, TRUE)) /\ StrFaithful(PlainStr(v))
    BY <1>3, UntrackedMade DEF Untracked
  <1>5. Str(v, v, TRUE).exact /\ PlainStr(v).exact
    BY DEF PlainStr, Str
  <1>. QED BY <1>2, <1>4, <1>5

\* A flag is faithful when the two tests agree.
LEMMA FlagMade ==
    ASSUME NEW p \in BOOLEAN, NEW q \in BOOLEAN, NEW e \in BOOLEAN, e => (p <=> q)
    PROVE  Faithful(Flag(p, q, e))
  BY DEF Faithful, Value, Types, Flag, Concolic, Truth

\* A condition that may be registered.
Holds(b) == b \in Branch /\ (b.exact => b.den = b.taken)

LEMMA ConditionMade ==
    ASSUME NEW p \in BOOLEAN, NEW q \in BOOLEAN, NEW e \in BOOLEAN, e => (p <=> q)
    PROVE  Holds(Condition(p, q, e))
  BY FlagMade, RegisteredHolds DEF Condition, Holds

LEMMA CountMade ==
    ASSUME NEW n \in Int, NEW m \in Int, NEW e \in BOOLEAN, e => n = m
    PROVE  Faithful(Count(n, m, e))
  BY DEF Faithful, Value, Types, Count, Concolic

LEMMA IndicesFaithful ==
    ASSUME NEW i \in Indices
    PROVE  Faithful(i) /\ i.exact
  <1>1. i \in Operands
    BY DEF Indices
  <1>2. i.exact
    BY <1>1 DEF Operands, Plain, WithoutExpression, Concolic
  <1>. QED BY <1>1, <1>2, OperandsFaithful

LEMMA BoundsFaithful ==
    ASSUME NEW s, StrFaithful(s)
    PROVE  /\ Faithful(Zero) /\ Zero.exact /\ Zero.val = 0 /\ At0(Zero.val) = 0 /\ At0(Zero.den) = 0
           /\ Faithful(WholeLength(s)) /\ WholeLength(s).exact
           /\ At0(WholeLength(s).val) = Len(s.val)
           /\ WholeLength(s).val = 2 * Len(s.val)
  <1> DEFINE L == Len(s.val)
  <1>1. L \in Int
    BY StrParts, TextFacts
  <1>2. WholeLength(s) = Count(L, L, TRUE)
    BY DEF WholeLength
  <1> HIDE DEF L
  <1>3. Faithful(Zero) /\ Zero.exact /\ Zero.val = 0 /\ At0(Zero.val) = 0 /\ At0(Zero.den) = 0
    <2>1. Faithful(Count(0, 0, TRUE))
      BY DEF Faithful, Value, Types, Count, Concolic
    <2>2. Zero.val = 0 /\ Zero.den = 0 /\ Zero.exact
      BY DEF Zero, Count, Concolic
    <2>3. 0 \div 2 = 0
      OBVIOUS
    <2>4. At0(Zero.val) = 0 /\ At0(Zero.den) = 0
      BY <2>2, <2>3, Zenon DEF At0
    <2>. QED BY <2>1, <2>2, <2>4 DEF Zero
  <1>4. Faithful(Count(L, L, TRUE)) /\ Count(L, L, TRUE).exact /\ At0(Count(L, L, TRUE).val) = L
        /\ Count(L, L, TRUE).val = 2 * L
    <2>1. Count(L, L, TRUE).val = 2 * L /\ Count(L, L, TRUE).exact
      BY DEF Count, Concolic
    <2>2. (2 * L) \div 2 = L
      BY <1>1
    <2>. QED BY <1>1, <2>1, <2>2, CountMade DEF At0
  <1>. QED BY <1>2, <1>3, <1>4 DEF L

-----------------------------------------------------------------------------
(* Positions and slices *)

\* A position counted from the start is the one Python clamps the index to.
LEMMA PositionFaithful ==
    ASSUME NEW s, StrFaithful(s), NEW i, Faithful(i)
    PROVE  /\ FromStart(i, s).val \in Int /\ FromStart(i, s).den \in Int
           /\ At0(FromStart(i, s).val) = Clamp(At0(i.val), Len(s.val))
           /\ At0(FromStart(i, s).val) \in Nat
           /\ FromStart(i, s).val >= 0
           /\ s.exact /\ i.exact => FromStart(i, s).den = FromStart(i, s).val
  <1> DEFINE L == Len(s.val)
             D == Len(s.den)
             k == FromStart(i, s)
  <1>1. /\ L \in Nat /\ D \in Nat /\ i.val \in Int /\ i.den \in Int
        /\ i.exact => i.den = i.val
        /\ s.exact => D = L
    BY StrParts, NumberParts, TextFacts
  <1>2. k = IF i.val >= 0 THEN i
            ELSE IF i.val + 2 * L < 0 THEN Count(0, 0, TRUE)
            ELSE Concolic("int", i.val + 2 * L, i.den + 2 * D, i.exact /\ s.exact)
    BY DEF FromStart
  <1> HIDE DEF k, L, D
  <1>3. /\ k.val = IF i.val >= 0 THEN i.val ELSE IF i.val + 2 * L < 0 THEN 0 ELSE i.val + 2 * L
        /\ k.den = IF i.val >= 0 THEN i.den ELSE IF i.val + 2 * L < 0 THEN 0 ELSE i.den + 2 * D
    BY <1>2 DEF Count, Concolic
  <1>4. At0(k.val) = Clamp(At0(i.val), L) /\ At0(k.val) \in Nat /\ k.val >= 0
    BY <1>1, <1>3 DEF At0, Clamp
  <1>. QED BY <1>1, <1>3, <1>4 DEF k, L, D

\* A concolic slice is Python's slice, and its expression denotes it.
LEMMA SubFaithful ==
    ASSUME NEW s, StrFaithful(s), NEW a, Faithful(a), NEW b, Faithful(b)
    PROVE  /\ StrFaithful(Sub(s, a, b))
           /\ Sub(s, a, b).val = Slice(s.val, At0(a.val), At0(b.val))
  <1> DEFINE L == Len(s.val)
             i == FromStart(a, s)
             j == FromStart(b, s)
             p == At0(a.val)
             q == At0(b.val)
             v == Slice(s.val, p, q)
             d == Substr(s.den, At0(i.den), At0(j.den) - At0(i.den))
             e == s.exact /\ a.exact /\ b.exact
  <1>1. /\ s.val \in Text /\ s.den \in Text /\ s.exact \in BOOLEAN /\ (s.exact => s.den = s.val)
        /\ a.exact \in BOOLEAN /\ b.exact \in BOOLEAN /\ a.val \in Int /\ b.val \in Int
    BY StrParts, NumberParts
  <1>2. p \in Int /\ q \in Int
    BY <1>1 DEF At0
  <1>3. /\ i.den \in Int /\ i.val \in Int /\ At0(i.val) = Clamp(p, L)
        /\ s.exact /\ a.exact => i.den = i.val
    BY PositionFaithful
  <1>4. /\ j.den \in Int /\ j.val \in Int /\ At0(j.val) = Clamp(q, L)
        /\ s.exact /\ b.exact => j.den = j.val
    BY PositionFaithful
  <1>5. Sub(s, a, b) = IF i.val = 0 /\ At0(j.val) = L THEN s ELSE Str(v, d, e)
    BY DEF Sub
  <1> HIDE DEF i, j, p, q
  <1>6. /\ v \in Text /\ v = Substr(s.val, Clamp(p, L), Clamp(q, L) - Clamp(p, L))
        /\ Clamp(p, L) = 0 /\ Clamp(q, L) = L => v = s.val
    BY <1>1, <1>2, SliceProperties
  <1>7. d \in Text
    <2>1. At0(i.den) \in Int /\ At0(j.den) - At0(i.den) \in Int
      BY <1>3, <1>4 DEF At0
    <2>. QED BY <1>1, <2>1, SubstrProperties
  <1>8. e => d = v
    BY <1>1, <1>3, <1>4, <1>6
  <1>9. CASE i.val = 0 /\ At0(j.val) = L
    <2>1. Clamp(p, L) = 0 /\ Clamp(q, L) = L
      BY <1>3, <1>4, <1>9 DEF At0
    <2>. QED BY <1>5, <1>6, <1>9, <2>1 DEF p, q
  <1>10. CASE ~(i.val = 0 /\ At0(j.val) = L)
    <2>1. Sub(s, a, b) = Str(v, d, e) /\ e \in BOOLEAN
      BY <1>1, <1>5, <1>10
    <2> HIDE DEF v, d, e
    <2>2. StrFaithful(Str(v, d, e)) /\ Str(v, d, e).val = v
      BY <1>6, <1>7, <1>8, <2>1, StrMade DEF Str
    <2>. QED BY <2>1, <2>2 DEF v, p, q
  <1>. QED BY <1>9, <1>10

-----------------------------------------------------------------------------
(* Searching *)

\* The position Python gives for the first occurrence.
PyFind(s, t, a, b) ==
    LET found == Found(s, t, a, b)
    IN  IF found = {} THEN -1 ELSE Min(found)

\* find gives the position Python finds, and its expression denotes it.
LEMMA FindFaithful ==
    ASSUME NEW s, StrFaithful(s), NEW t, StrFaithful(t),
           NEW start, Faithful(start), start.exact, NEW end, Faithful(end)
    PROVE  /\ Faithful(FindIn(s, t, start, end).value)
           /\ Holds(FindIn(s, t, start, end).branch)
           /\ FindIn(s, t, start, end).value.val
                = 2 * PyFind(s.val, t.val, At0(start.val), At0(end.val))
  <1> DEFINE region == Sub(s, start, end)
             found  == Found(s.val, t.val, At0(start.val), At0(end.val))
             index  == IF found = {} THEN -1 ELSE Min(found)
             m == At0(start.den) + IndexOf(region.den, t.den, 0)
             e == region.exact /\ t.exact
                  /\ (start.val = 0 \/ (start.val > 0 /\ found # {}))
             p == At0(start.val)
             q == At0(end.val)
             i == Clamp(p, Len(s.val))
             to == Least(Clamp(q, Len(s.val)), Len(s.val))
  <1>1. /\ FindIn(s, t, start, end).value = Count(index, m, e)
        /\ FindIn(s, t, start, end).branch =
             Condition(Has(region.val, t.val), Has(region.den, t.den), region.exact /\ t.exact)
    BY DEF FindIn
  <1>2. /\ s.val \in Text /\ t.val \in Text /\ t.den \in Text /\ (t.exact => t.den = t.val)
        /\ t.exact \in BOOLEAN
        /\ start.val \in Int /\ start.den = start.val /\ end.val \in Int
    BY StrParts, NumberParts
  <1>3. StrFaithful(region) /\ region.val = Slice(s.val, p, q)
    BY SubFaithful
  <1>4. /\ region.val \in Text /\ region.den \in Text /\ region.exact \in BOOLEAN
        /\ region.exact => region.den = region.val
    BY <1>3, StrParts
  <1>5. p \in Int /\ q \in Int /\ (start.val >= 0 => p >= 0) /\ (start.val = 0 => p = 0)
    BY <1>2 DEF At0
  <1>6. Len(s.val) \in Nat
    BY <1>2, TextFacts
  <1>7. /\ found \in SUBSET Nat
        /\ found # {} => i <= to
    BY <1>2, <1>5, FoundInRegion
  <1>8. i <= to => IndexOf(region.val, t.val, 0) = IF found = {} THEN -1 ELSE Min(found) - i
    BY <1>2, <1>3, <1>5, FirstInRegion
  <1>9. IndexOf(region.den, t.den, 0) \in Int
    BY <1>2, <1>4, IndexOfProperties
  <1>10. found # {} => Min(found) \in Nat
    BY <1>7, MinProperties
  <1>11. index \in Int /\ m \in Int
    BY <1>2, <1>9, <1>10 DEF At0
  <1>12. At0(start.den) = p
    BY <1>2
  <1> HIDE DEF region, found, p, q
  <1>13. start.val >= 0 => i = p
    BY <1>5 DEF Clamp
  <1>14. to >= 0
    BY <1>5, <1>6 DEF Clamp, Least
  <1>15. ASSUME e PROVE m = index
    <2>1. IndexOf(region.den, t.den, 0) = IndexOf(region.val, t.val, 0)
      BY <1>2, <1>4, <1>15
    <2>2. i <= to /\ i = p
      BY <1>2, <1>5, <1>7, <1>13, <1>14, <1>15
    <2>3. IndexOf(region.val, t.val, 0) = IF found = {} THEN -1 ELSE Min(found) - p
      BY <1>8, <2>2
    <2>4. CASE found = {}
      <3>1. p = 0
        BY <1>2, <1>5, <1>15, <2>4
      <3>. QED BY <1>12, <2>1, <2>3, <2>4, <3>1
    <2>5. CASE found # {}
      BY <1>5, <1>10, <1>12, <2>1, <2>3, <2>5
    <2>. QED BY <2>4, <2>5
  <1>16. e \in BOOLEAN
    BY <1>2, <1>4
  <1> HIDE DEF index, m, e
  <1>17. Faithful(Count(index, m, e)) /\ Count(index, m, e).val = 2 * index
    BY <1>11, <1>15, <1>16, CountMade DEF Count, Concolic
  <1>18. Holds(Condition(Has(region.val, t.val), Has(region.den, t.den), region.exact /\ t.exact))
    <2>1. /\ Has(region.val, t.val) \in BOOLEAN /\ Has(region.den, t.den) \in BOOLEAN
          /\ (region.exact /\ t.exact) \in BOOLEAN
          /\ region.exact /\ t.exact => (Has(region.val, t.val) <=> Has(region.den, t.den))
      <3>1. Has(region.val, t.val) \in BOOLEAN /\ Has(region.den, t.den) \in BOOLEAN
        BY DEF Has
      <3>2. region.exact /\ t.exact => (Has(region.val, t.val) <=> Has(region.den, t.den))
        BY <1>2, <1>4
      <3>. QED BY <1>2, <1>4, <3>1, <3>2
    <2>. QED BY <2>1, ConditionMade
  <1>19. index = PyFind(s.val, t.val, p, q)
    BY DEF PyFind, index, found, p, q
  <1>. QED BY <1>1, <1>17, <1>18, <1>19 DEF p, q

\* index gives the position Python finds; from a start of 0 its expression denotes it.
LEMMA IndexFaithful ==
    ASSUME NEW s, StrFaithful(s), NEW t, StrFaithful(t),
           NEW start, Faithful(start), NEW end, Faithful(end),
           NEW found, found = Found(s.val, t.val, At0(start.val), At0(end.val)), found # {},
           NEW region, region = Sub(s, start, end)
    PROVE  Faithful(Count(Min(found), IndexOf(region.den, t.den, 0),
                          region.exact /\ t.exact /\ start.val = 0))
  <1> DEFINE p == At0(start.val)
             q == At0(end.val)
             i == Clamp(p, Len(s.val))
             to == Least(Clamp(q, Len(s.val)), Len(s.val))
             e == region.exact /\ t.exact /\ start.val = 0
  <1>2. /\ s.val \in Text /\ t.val \in Text /\ t.den \in Text /\ (t.exact => t.den = t.val)
        /\ t.exact \in BOOLEAN /\ start.val \in Int /\ end.val \in Int
    BY StrParts, NumberParts
  <1>3. StrFaithful(region) /\ region.val = Slice(s.val, p, q)
    BY SubFaithful
  <1>4. /\ region.val \in Text /\ region.den \in Text /\ region.exact \in BOOLEAN
        /\ region.exact => region.den = region.val
    BY <1>3, StrParts
  <1>5. p \in Int /\ q \in Int /\ (start.val = 0 => p = 0)
    BY <1>2 DEF At0
  <1>6. found \in SUBSET Nat /\ i <= to
    BY <1>2, <1>5, FoundInRegion
  <1>7. IndexOf(region.val, t.val, 0) = Min(found) - i
    BY <1>2, <1>3, <1>5, <1>6, FirstInRegion
  <1>8. IndexOf(region.den, t.den, 0) \in Int
    BY <1>2, <1>4, IndexOfProperties
  <1>9. Min(found) \in Int /\ e \in BOOLEAN
    BY <1>2, <1>4, <1>6, MinProperties
  <1> HIDE DEF p, q
  <1>10. start.val = 0 => i = 0
    BY <1>5 DEF Clamp
  <1>11. e => Min(found) = IndexOf(region.den, t.den, 0)
    BY <1>2, <1>4, <1>7, <1>9, <1>10
  <1> HIDE DEF e
  <1>. QED BY <1>8, <1>9, <1>11, CountMade DEF e

-----------------------------------------------------------------------------
(* Stripping *)

\* As many cuts as asked for, while the string begins with a character of the class.
LEMMA CutLeftProperties ==
    ASSUME NEW d \in Text, NEW chars, NEW n \in Nat
    PROVE  /\ CutLeft(d, chars, n) \in Text
           /\ \A m : Leads(d, chars, m) /\ n <= m => CutLeft(d, chars, n) = SubSeq(d, n + 1, Len(d))
  <1> DEFINE step == [k \in 1..n |-> [v \in Text |-> IF v # <<>> /\ v[1] \in chars THEN Tail(v) ELSE v]]
             Is(f) == f = [k \in 0..n |->
                             IF k = 0 THEN d
                             ELSE IF f[k - 1] # <<>> /\ f[k - 1][1] \in chars THEN Tail(f[k - 1])
                             ELSE f[k - 1]]
             cut == CHOOSE f : Is(f)
             L == Len(d)
  <1>1. \A v \in Text : v # <<>> => Tail(v) \in Text
    BY HeadTailProperties DEF Text
  <1>2. Steps(step, Text, n)
    BY <1>1 DEF Steps
  <1>3. PICK f : Follows(f, Text, n, d, step)
    <2> HIDE DEF step
    <2>. QED BY <1>2, RecursionUpTo, Zenon
  <1>4. Is(f)
    <2>1. \A k \in 1..n : k - 1 \in 0..n /\ k \in 0..n /\ k # 0
      OBVIOUS
    <2>2. \A k \in 1..n : f[k - 1] \in Text
      BY <1>3, <2>1 DEF Follows
    <2>3. \A k \in 1..n : f[k] = IF f[k - 1] # <<>> /\ f[k - 1][1] \in chars THEN Tail(f[k - 1])
                                 ELSE f[k - 1]
      BY <1>3, <2>2 DEF Follows
    <2>4. \A k \in 0..n : k = 0 \/ k \in 1..n
      OBVIOUS
    <2>. QED BY <1>3, <2>3, <2>4 DEF Follows
  <1>5. Is(cut)
    <2> HIDE DEF Is
    <2>. QED BY <1>4, Zenon
  <1>6. CutLeft(d, chars, n) = cut[n]
    BY Zenon DEF CutLeft
  <1> HIDE DEF cut
  <1>7. cut = [k \in 0..n |-> cut[k]] /\ cut[0] = d
    <2>1. 0 \in 0..n
      OBVIOUS
    <2>2. cut[0] = d
      BY <1>5, <2>1
    <2>3. cut = [k \in 0..n |-> cut[k]]
      BY <1>5
    <2>. QED BY <2>2, <2>3
  <1>8. \A k \in 1..n : cut[k] = IF cut[k - 1] # <<>> /\ cut[k - 1][1] \in chars THEN Tail(cut[k - 1])
                                 ELSE cut[k - 1]
    <2>1. \A k \in 1..n : k \in 0..n /\ k # 0
      OBVIOUS
    <2>. QED BY <1>5, <2>1
  <1> HIDE DEF Is
  <1>9. cut \in [0..n -> Text]
    <2>1. ASSUME NEW k \in 1..n, cut[k - 1] \in Text PROVE cut[k] \in Text
      BY <1>1, <1>8, <2>1
    <2>2. cut[0] \in Text
      BY <1>7
    <2>. QED BY <1>7, <2>1, <2>2, StaysUpTo, Zenon
  <1>10. CutLeft(d, chars, n) \in Text
    BY <1>6, <1>9
  <1>11. ASSUME NEW m, Leads(d, chars, m), n <= m
         PROVE  cut[n] = SubSeq(d, n + 1, L)
    <2>0. /\ L \in Nat /\ m \in 0..L /\ \A k \in 1..m : d[k] \in chars
          /\ \A k \in 1..L : d[k] \in Int
      BY <1>11, TextFacts DEF Leads
    <2>1. cut[0] = SubSeq(d, 0 + 1, L)
      <3>1. SubSeq(d, 1, L) = d /\ 0 + 1 = 1
        BY SubSeqFull DEF Text
      <3>. QED BY <1>7, <3>1
    <2> HIDE DEF L
    <2> DEFINE Good == {k \in 1..n : cut[k] = SubSeq(d, k + 1, L)}
    <2>2. ASSUME NEW k \in 1..n, cut[k - 1] = SubSeq(d, k, L)
          PROVE  cut[k] = SubSeq(d, k + 1, L)
      <3>1. k \in 1..L /\ k \in 1..m /\ L \in k..L
        BY <1>11, <2>0
      <3>2. Head(SubSeq(d, k, L)) = d[k] /\ Tail(SubSeq(d, k, L)) = SubSeq(d, k + 1, L)
        BY <3>1, HeadTailOfSubSeq DEF Text, L
      <3>3. SubSeq(d, k, L) # <<>> /\ SubSeq(d, k, L)[1] = d[k]
        <4>1. \A i \in k..L : d[i] \in Int
          BY <2>0
        <4>2. /\ SubSeq(d, k, L) \in Seq(Int)
              /\ Len(SubSeq(d, k, L)) = IF k <= L THEN L - k + 1 ELSE 0
              /\ \A i \in 1..L - k + 1 : SubSeq(d, k, L)[i] = d[k + i - 1]
          BY <2>0, <4>1, SubSeqProperties
        <4>3. L - k + 1 # 0 /\ k <= L /\ 1 \in 1..L - k + 1 /\ k + 1 - 1 = k
          BY <2>0, <3>1
        <4>4. Len(SubSeq(d, k, L)) # 0 /\ SubSeq(d, k, L)[1] = d[k]
          BY <4>2, <4>3
        <4>5. Len(<<>>) = 0
          OBVIOUS
        <4>. QED BY <4>4, <4>5, Zenon
      <3>4. d[k] \in chars
        BY <2>0, <3>1
      <3>. QED BY <1>8, <2>2, <3>2, <3>3, <3>4
    <2>3. \A k \in 1..n : (\A j \in 1..k - 1 : j \in Good) => k \in Good
      <3> SUFFICES ASSUME NEW k \in 1..n, \A j \in 1..k - 1 : j \in Good PROVE k \in Good
        OBVIOUS
      <3>1. cut[k - 1] = SubSeq(d, k, L)
        <4>1. CASE k = 1
          <5>1. k - 1 = 0 /\ 0 + 1 = k
            BY <4>1
          <5>. QED BY <2>1, <5>1
        <4>2. CASE k # 1
          <5>1. k - 1 \in 1..k - 1 /\ k - 1 + 1 = k
            BY <4>2
          <5>2. k - 1 \in Good
            BY <5>1
          <5>. QED BY <5>1, <5>2
        <4>. QED BY <4>1, <4>2
      <3>. QED BY <2>2, <3>1
    <2>4. \A k \in 1..n : k \in Good
      <3> HIDE DEF Good
      <3>. QED BY <2>3, InductionUpTo
    <2>5. CASE n = 0
      BY <2>1, <2>5
    <2>6. CASE n # 0
      <3>1. n \in 1..n
        BY <2>6
      <3>. QED BY <2>4, <3>1
    <2>. QED BY <2>5, <2>6
  <1>. QED BY <1>6, <1>10, <1>11

\* The cuts the concrete string needed leave what stripping leaves.
LEMMA CutsStrip ==
    ASSUME NEW s \in Text, NEW chars
    PROVE  /\ Len(s) - Len(StripLeft(s, chars)) \in Nat
           /\ CutLeft(s, chars, Len(s) - Len(StripLeft(s, chars))) = StripLeft(s, chars)
  <1>1. PICK m : /\ Leads(s, chars, m)
                 /\ StripLeft(s, chars) = SubSeq(s, m + 1, Len(s))
                 /\ Len(StripLeft(s, chars)) = Len(s) - m
    BY StripLeftProperties, Zenon
  <1>2. m \in Nat /\ Len(s) - Len(StripLeft(s, chars)) = m
    <2> DEFINE L == Len(s)
               S == Len(StripLeft(s, chars))
    <2>1. L \in Nat /\ m \in 0..L /\ S = L - m
      BY <1>1, TextFacts DEF Leads
    <2> HIDE DEF L, S
    <2>2. m \in Nat /\ L - S = m
      BY <2>1
    <2>. QED BY <2>2 DEF L, S
  <1>3. m <= m
    BY <1>2
  <1>4. CutLeft(s, chars, m) = SubSeq(s, m + 1, Len(s))
    BY <1>1, <1>2, <1>3, CutLeftProperties
  <1>. QED BY <1>1, <1>2, <1>4

\* Stripping by two classes as many characters is stripping the same characters.
LEMMA SameStrip ==
    ASSUME NEW s \in Text, NEW c, NEW d, Len(StripLeft(s, c)) = Len(StripLeft(s, d))
    PROVE  StripLeft(s, c) = StripLeft(s, d)
  <1>1. PICK m : /\ Leads(s, c, m) /\ StripLeft(s, c) = SubSeq(s, m + 1, Len(s))
                 /\ Len(StripLeft(s, c)) = Len(s) - m
    BY StripLeftProperties, Zenon
  <1>2. PICK n : /\ Leads(s, d, n) /\ StripLeft(s, d) = SubSeq(s, n + 1, Len(s))
                 /\ Len(StripLeft(s, d)) = Len(s) - n
    BY StripLeftProperties, Zenon
  <1>3. m = n
    <2> DEFINE L == Len(s)
    <2>1. L \in Nat /\ m \in 0..L /\ n \in 0..L /\ L - m = L - n
      BY <1>1, <1>2, TextFacts DEF Leads
    <2> HIDE DEF L
    <2>. QED BY <2>1
  <1>. QED BY <1>1, <1>2, <1>3

LEMMA StripTypes ==
    ASSUME NEW s \in Text, NEW chars
    PROVE  /\ StripLeft(s, chars) \in Text /\ StripRight(s, chars) \in Text
           /\ Len(s) - Len(StripRight(s, chars)) \in Nat
           /\ Len(Reverse(s)) - Len(StripLeft(Reverse(s), chars)) = Len(s) - Len(StripRight(s, chars))
           /\ Len(StripRight(s, chars)) = Len(StripLeft(Reverse(s), chars))
  <1>1. Reverse(s) \in Text /\ Len(Reverse(s)) = Len(s)
    BY ReverseType
  <1>2. StripLeft(Reverse(s), chars) \in Text /\ StripLeft(s, chars) \in Text
    BY <1>1, StripLeftProperties, Zenon
  <1>3. Reverse(StripLeft(Reverse(s), chars)) \in Text
        /\ Len(Reverse(StripLeft(Reverse(s), chars))) = Len(StripLeft(Reverse(s), chars))
    BY <1>2, ReverseType
  <1>4. Len(Reverse(s)) - Len(StripLeft(Reverse(s), chars)) \in Nat
    BY <1>1, CutsStrip
  <1>. QED BY <1>1, <1>2, <1>3, <1>4 DEF StripRight

\* lstrip and rstrip give what Python gives, and their expressions denote it where the
\* default class and the one of the expression strip the same characters.
LEMMA StripsFaithful ==
    ASSUME NEW s, StrFaithful(s), NEW chars
    PROVE  /\ StrFaithful(LStrip(s, chars))
           /\ StrFaithful(RStrip(s, chars))
  <1> DEFINE c == Concretely(chars)
             d == Symbolically(chars)
             L == Len(s.val)
             r == Reverse(s.val)
             v == StripLeft(s.val, c)
             cuts == L - Len(StripLeft(s.val, d))
             w == StripRight(s.val, c)
             back == L - Len(StripRight(s.val, d))
  <1>1. s.val \in Text /\ s.den \in Text /\ s.exact \in BOOLEAN /\ (s.exact => s.den = s.val)
    BY StrParts
  <1>2. /\ v \in Text /\ w \in Text /\ cuts \in Nat /\ back \in Nat
    BY <1>1, CutsStrip, StripTypes
  <1>3. CutLeft(s.den, d, cuts) \in Text
    BY <1>1, <1>2, CutLeftProperties
  <1>4. CutRight(s.den, d, back) \in Text
    <2>1. Reverse(s.den) \in Text
      BY <1>1, ReverseType
    <2>2. CutLeft(Reverse(s.den), d, back) \in Text
      BY <1>2, <2>1, CutLeftProperties
    <2>. QED BY <2>2, ReverseType DEF CutRight
  <1>5. ASSUME s.exact, cuts = L - Len(v)
        PROVE  CutLeft(s.den, d, cuts) = v
    <2>1. CutLeft(s.den, d, cuts) = StripLeft(s.val, d)
      BY <1>1, <1>5, CutsStrip
    <2>2. Len(StripLeft(s.val, d)) = Len(v)
      <3> DEFINE p == Len(StripLeft(s.val, d))
                 q == Len(v)
      <3>1. L \in Nat /\ p \in Nat /\ q \in Nat /\ L - p = L - q
        <4>1. L \in Nat /\ p \in Nat /\ q \in Nat
          BY <1>1, StripTypes, TextFacts
        <4>. QED BY <1>5, <4>1
      <3> HIDE DEF L, p, q
      <3>2. p = q
        BY <3>1
      <3>. QED BY <3>2 DEF p, q
    <2>. QED BY <1>1, <2>1, <2>2, SameStrip
  <1>6. ASSUME s.exact, back = L - Len(w)
        PROVE  CutRight(s.den, d, back) = w
    <2>1. r \in Text
      BY <1>1, ReverseType
    <2>2. CutLeft(r, d, back) = StripLeft(r, d)
      <3>1. back = Len(r) - Len(StripLeft(r, d))
        BY <1>1, StripTypes
      <3>. QED BY <2>1, <3>1, CutsStrip
    <2>3. Len(StripLeft(r, d)) = Len(StripLeft(r, c))
      <3> DEFINE p == Len(StripLeft(r, d))
                 q == Len(StripLeft(r, c))
      <3>1. p = Len(StripRight(s.val, d)) /\ q = Len(w)
        BY <1>1, StripTypes
      <3>2. L \in Nat /\ p \in Nat /\ q \in Nat
        BY <1>1, <2>1, StripTypes, TextFacts
      <3>3. L - p = L - q
        BY <1>6, <3>1
      <3> HIDE DEF L, p, q
      <3>4. p = q
        BY <3>2, <3>3
      <3>. QED BY <3>4 DEF p, q
    <2>4. StripLeft(r, d) = StripLeft(r, c)
      BY <2>1, <2>3, SameStrip
    <2>5. s.den = s.val
      BY <1>1, <1>6
    <2>. QED BY <2>2, <2>4, <2>5 DEF CutRight, StripRight
  <1>7. /\ LStrip(s, chars) = Str(v, CutLeft(s.den, d, cuts), s.exact /\ cuts = L - Len(v))
        /\ RStrip(s, chars) = Str(w, CutRight(s.den, d, back), s.exact /\ back = L - Len(w))
    BY DEF LStrip, RStrip
  <1> HIDE DEF c, d, v, w, cuts, back, L
  <1>8. StrFaithful(Str(v, CutLeft(s.den, d, cuts), s.exact /\ cuts = L - Len(v)))
    <2>1. (s.exact /\ cuts = L - Len(v)) \in BOOLEAN
      BY <1>1
    <2>. QED BY <1>2, <1>3, <1>5, <2>1, StrMade
  <1>9. StrFaithful(Str(w, CutRight(s.den, d, back), s.exact /\ back = L - Len(w)))
    <2>1. (s.exact /\ back = L - Len(w)) \in BOOLEAN
      BY <1>1
    <2>. QED BY <1>2, <1>4, <1>6, <2>1, StrMade
  <1>. QED BY <1>7, <1>8, <1>9

-----------------------------------------------------------------------------
(* Reading numbers *)

\* What int(text) reads of a string is a string.
LEMMA ReadTypes ==
    ASSUME NEW s \in Text
    PROVE  InAscii(s) \in Text /\ Trimmed(s) \in Text /\ Numerals(s) \in Text
  <1>1. Len(s) \in Nat /\ \A i \in 1..Len(s) : s[i] \in Int
    BY TextFacts
  <1>2. \A c \in Beyond("decimal") : 48 + Unicode[c].numeral \in Int
    <2>1. \A c \in Beyond("decimal") : Unicode[c].numeral \in 0..9
      BY UnicodeAssumption, SMTT(30) DEF Beyond, Character
    <2>. QED BY <2>1
  <1>3. InAscii(s) \in Text
    <2> DEFINE at(i) == CASE s[i] \in Beyond("decimal") -> 48 + Unicode[s[i]].numeral
                          [] s[i] \in Beyond("blank")   -> Space
                          [] OTHER                     -> s[i]
    <2>1. \A i \in 1..Len(s) : at(i) \in Int
      BY <1>1, <1>2 DEF Space
    <2>2. InAscii(s) = [i \in 1..Len(s) |-> at(i)]
      BY DEF InAscii
    <2> HIDE DEF at
    <2>. QED BY <1>1, <2>1, <2>2, IsASeq DEF Text
  <1>4. Trimmed(s) \in Text
    BY <1>3, StripTypes DEF Trimmed
  <1>5. StartsWith(Trimmed(s), <<PlusSign>>) => Tail(Trimmed(s)) \in Text
    <2> DEFINE t == Trimmed(s)
    <2>1. t # <<>> => Tail(t) \in Text
      BY <1>4, HeadTailProperties DEF Text
    <2>2. StartsWith(t, <<PlusSign>>) => t # <<>>
      <3>1. <<PlusSign>> \in Text /\ Len(<<PlusSign>>) = 1
        BY DEF Text, PlusSign
      <3>2. Len(t) \in Nat /\ (t = <<>> <=> Len(t) = 0)
        BY <1>4, TextFacts
      <3>3. StartsWith(t, <<PlusSign>>) => 0 + Len(<<PlusSign>>) <= Len(t)
        BY DEF StartsWith, OccursAt
      <3> HIDE DEF t
      <3>. QED BY <3>1, <3>2, <3>3
    <2>. QED BY <2>1, <2>2
  <1>6. Numerals(s) \in Text
    BY <1>4, <1>5, UnsignedProperties DEF Numerals
  <1>. QED BY <1>3, <1>4, <1>6

\* A strict literal is made of ASCII's digits: int(text) reads it as it stands.
LEMMA LiteralTrimmed ==
    ASSUME NEW s \in Text, StrictLiteral(s)
    PROVE  /\ Trimmed(s) = s /\ Numerals(s) = Unsigned(s)
           /\ ReplaceEach(Numerals(s), <<Underscore>>, <<>>) = Unsigned(s)
  <1>0. \A k \in 1..Len(s) : s[k] = Minus \/ s[k] \in Digit
    BY UnsignedProperties DEF StrictLiteral, All
  <1>1. \A k \in 1..Len(s) : s[k] \notin IntBlank
    BY <1>0 DEF IntBlank, Space, Minus, Digit
  <1>a. InAscii(s) = s
    <2>1. \A k \in 1..Len(s) : s[k] \in 0..127
      BY <1>0 DEF Minus, Digit
    <2>2. \A k \in 1..Len(s) : s[k] \notin Beyond("decimal") /\ s[k] \notin Beyond("blank")
      BY <2>1, UnicodeAssumption DEF Beyond
    <2>3. InAscii(s) = [i \in 1..Len(s) |-> s[i]]
      BY <2>2 DEF InAscii
    <2>4. s = [i \in 1..Len(s) |-> s[i]]
      <3>1. DOMAIN s = 1..Len(s) /\ s = [i \in DOMAIN s |-> s[i]]
        BY LenProperties DEF Text
      <3>. QED BY <3>1
    <2>. QED BY <2>3, <2>4
  <1>2. Reverse(s) \in Text /\ \A k \in 1..Len(Reverse(s)) : Reverse(s)[k] \notin IntBlank
    <2> DEFINE L == Len(s)
    <2>1. /\ L \in Nat /\ Reverse(s) \in Text /\ Len(Reverse(s)) = L
          /\ \A i \in 1..L : Reverse(s)[i] = s[L - i + 1]
      BY ReverseType, TextFacts
    <2>2. \A i \in 1..L : s[i] \notin IntBlank
      BY <1>1
    <2> HIDE DEF L
    <2>3. \A i \in 1..L : L - i + 1 \in 1..L
      BY <2>1
    <2>. QED BY <2>1, <2>2, <2>3
  <1>3. StripRight(s, IntBlank) = s
    BY <1>2, StripLeftNothing, ReverseTwice DEF StripRight
  <1>4. Trimmed(s) = s
    BY <1>a, <1>1, <1>3, StripLeftNothing DEF Trimmed
  <1>5. ~StartsWith(s, <<PlusSign>>)
    <2>1. <<PlusSign>> \in Text /\ Len(<<PlusSign>>) = 1 /\ <<PlusSign>>[1] = PlusSign
      BY DEF Text, PlusSign
    <2>2. ASSUME OccursAt(s, <<PlusSign>>, 0) PROVE FALSE
      <3>1. 0 + 1 <= Len(s) /\ s[0 + 1] = PlusSign
        BY <2>1, <2>2, OccursProperties
      <3>2. Len(s) \in Nat
        BY TextFacts
      <3>3. s[1] = Minus \/ s[1] \in Digit
        BY <1>0, <3>1, <3>2
      <3>. QED BY <3>1, <3>3 DEF PlusSign, Minus, Digit
    <2>. QED BY <2>2 DEF StartsWith
  <1>6. Numerals(s) = Unsigned(s)
    BY <1>4, <1>5 DEF Numerals
  <1>7. Unsigned(s) \in Text /\ \A k \in 1..Len(Unsigned(s)) : Unsigned(s)[k] # Underscore
    <2>1. Unsigned(s) \in Text /\ DOMAIN Unsigned(s) = 1..Len(Unsigned(s))
      BY UnsignedProperties, TextFacts
    <2>2. \A k \in 1..Len(Unsigned(s)) : Unsigned(s)[k] \in Digit
      BY <2>1 DEF StrictLiteral, All, ToSet
    <2>. QED BY <2>1, <2>2 DEF Digit, Underscore
  <1>8. ReplaceEach(Unsigned(s), <<Underscore>>, <<>>) = Unsigned(s)
    BY <1>7, NowhereReplaced DEF Underscore
  <1>. QED BY <1>4, <1>6, <1>8

\* int(text) gives the number its expression denotes, of a strict literal.
LEMMA StrToIntFaithful ==
    ASSUME NEW s, StrFaithful(s)
    PROVE  Faithful(StrToIntValue(s))
  <1> DEFINE n == IntOf(s.val)
             m == Sign(s.den) * StrToInt(Unsigned(s.den))
             e == s.exact /\ StrictLiteral(s.val)
  <1>1. s.val \in Text /\ s.den \in Text /\ s.exact \in BOOLEAN /\ (s.exact => s.den = s.val)
    BY StrParts
  <1>2. n \in Int
    <2>1. Numerals(s.val) \in Text /\ <<Underscore>> \in Text /\ <<>> \in Text
      BY <1>1, ReadTypes DEF Text, Underscore
    <2>2. Number(ReplaceEach(Numerals(s.val), <<Underscore>>, <<>>)) \in Int
      BY <2>1, ReplaceEachType, NumberType
    <2>. QED BY <2>2 DEF IntOf, Sign
  <1>3. m \in Int
    BY <1>1, UnsignedProperties, NumberType DEF Sign
  <1>4. ASSUME e PROVE n = m
    <2>1. /\ Trimmed(s.val) = s.val /\ s.den = s.val
          /\ ReplaceEach(Numerals(s.val), <<Underscore>>, <<>>) = Unsigned(s.val)
      BY <1>1, <1>4, LiteralTrimmed
    <2>2. StrToInt(Unsigned(s.val)) = Number(Unsigned(s.val))
      BY <1>4 DEF StrToInt, StrictLiteral
    <2>. QED BY <2>1, <2>2 DEF IntOf
  <1>5. e \in BOOLEAN
    BY <1>1 DEF StrictLiteral, All
  <1> HIDE DEF n, m, e
  <1>6. Faithful(Count(n, m, e))
    BY <1>2, <1>3, <1>4, <1>5, CountMade
  <1>. QED BY <1>6 DEF StrToIntValue, n, m, e

\* The test int(text) registers holds of the input.
LEMMA IntegerTestHolds ==
    ASSUME NEW s, StrFaithful(s)
    PROVE  Holds(IntegerTest(s))
  <1> DEFINE body == IF EndsWith(s.val, <<Newline>>) THEN Front(s.val) ELSE s.val
             p == All(Unsigned(body), PyDecimal)
             q == All(Unsigned(s.den), Digit)
             e == s.exact /\ body = s.val /\ Lacks(s.val, PyDecimal \ Digit)
  <1>1. p \in BOOLEAN /\ q \in BOOLEAN
    BY DEF All
  <1>2. s.val \in Text /\ s.exact \in BOOLEAN /\ (s.exact => s.den = s.val)
    BY StrParts
  <1>a. Lacks(s.val, PyDecimal \ Digit) \in BOOLEAN
    BY DEF Lacks
  <1>b. ASSUME Lacks(s.val, PyDecimal \ Digit)
        PROVE  All(Unsigned(s.val), PyDecimal) <=> All(Unsigned(s.val), Digit)
    <2>1. ToSet(Unsigned(s.val)) \subseteq ToSet(s.val)
      BY <1>2, UnsignedProperties
    <2>2. Digit \subseteq PyDecimal
      BY DEF PyDecimal
    <2>. QED BY <1>b, <2>1, <2>2, Zenon DEF All, Lacks
  <1> HIDE DEF body
  <1>3. e \in BOOLEAN /\ (e => (p <=> q))
    BY <1>2, <1>a, <1>b
  <1> HIDE DEF p, q, e
  <1>4. Holds(Condition(p, q, e))
    BY <1>1, <1>3, ConditionMade
  <1>. QED BY <1>4 DEF IntegerTest, body, p, q, e

-----------------------------------------------------------------------------
(* Replacing *)

\* The strings, and the conditions, that are what their expressions denote.
Strs == {c \in StrValue : c.exact => c.den = c.val}
Held == {b \in Branch : b.exact => b.den = b.taken}

LEMMA Members ==
    /\ \A c : c \in Strs <=> StrFaithful(c)
    /\ \A b : b \in Held <=> Holds(b)
  BY DEF Strs, Held, StrFaithful, Holds

LEMMA ConcatFaithful ==
    ASSUME NEW s, StrFaithful(s), NEW t, StrFaithful(t)
    PROVE  StrFaithful(Concat(s, t)) /\ Concat(s, t).val = s.val \o t.val
  <1>1. /\ s.val \in Text /\ s.den \in Text /\ s.exact \in BOOLEAN /\ (s.exact => s.den = s.val)
        /\ t.val \in Text /\ t.den \in Text /\ t.exact \in BOOLEAN /\ (t.exact => t.den = t.val)
    BY StrParts
  <1>2. s.val \o t.val \in Text /\ s.den \o t.den \in Text
    BY <1>1, TextsJoin
  <1>3. (s.exact /\ t.exact) \in BOOLEAN /\ (s.exact /\ t.exact => s.den \o t.den = s.val \o t.val)
    BY <1>1
  <1>. QED BY <1>2, <1>3, StrMade DEF Concat, Str

LEMMA SizeFaithful ==
    ASSUME NEW s, StrFaithful(s)
    PROVE  Faithful(Size(s)) /\ Size(s).val = 2 * Len(s.val)
  <1>1. /\ Len(s.val) \in Int /\ Len(s.den) \in Int /\ s.exact \in BOOLEAN
        /\ s.exact => Len(s.val) = Len(s.den)
    BY StrParts, TextFacts
  <1>. QED BY <1>1, CountMade DEF Size, Count, Concolic

LEMMA PlusFaithful ==
    ASSUME NEW i, Faithful(i), NEW j, Faithful(j)
    PROVE  Faithful(Plus(i, j)) /\ Plus(i, j).val = i.val + j.val
  <1>1. /\ i.val \in Int /\ i.den \in Int /\ i.exact \in BOOLEAN /\ (i.exact => i.den = i.val)
        /\ j.val \in Int /\ j.den \in Int /\ j.exact \in BOOLEAN /\ (j.exact => j.den = j.val)
    BY NumberParts
  <1>. QED BY <1>1 DEF Faithful, Value, Types, Plus, Concolic

\* A search of the whole string.
LEMMA FindWhole ==
    ASSUME NEW s, StrFaithful(s), NEW t, StrFaithful(t)
    PROVE  /\ Faithful(Find(s, t).value) /\ Holds(Find(s, t).branch)
           /\ Find(s, t).value.val =
                LET found == Occurrences(s.val, t.val, 0)
                IN  2 * (IF found = {} THEN -1 ELSE Min(found))
  <1> DEFINE L == Len(s.val)
  <1>1. /\ Faithful(Zero) /\ Zero.exact /\ At0(Zero.val) = 0
        /\ Faithful(WholeLength(s)) /\ At0(WholeLength(s).val) = L
    BY BoundsFaithful
  <1>2. /\ Faithful(Find(s, t).value) /\ Holds(Find(s, t).branch)
        /\ Find(s, t).value.val = 2 * PyFind(s.val, t.val, 0, L)
    <2>1. Find(s, t) = FindIn(s, t, Zero, WholeLength(s))
      BY DEF Find
    <2>2. /\ Faithful(FindIn(s, t, Zero, WholeLength(s)).value)
          /\ Holds(FindIn(s, t, Zero, WholeLength(s)).branch)
          /\ FindIn(s, t, Zero, WholeLength(s)).value.val
               = 2 * PyFind(s.val, t.val, At0(Zero.val), At0(WholeLength(s).val))
      <3>1. Faithful(Zero) /\ Zero.exact
        BY <1>1
      <3>2. Faithful(WholeLength(s))
        BY <1>1
      <3> HIDE DEF L
      <3>. QED BY ONLY <3>1, <3>2, StrFaithful(s), StrFaithful(t), FindFaithful
    <2>. QED BY <1>1, <2>1, <2>2, Zenon
  <1>3. Found(s.val, t.val, 0, L) = Occurrences(s.val, t.val, 0)
    <2>1. s.val \in Text /\ t.val \in Text /\ L \in Nat /\ Len(t.val) \in Nat
      BY StrParts, TextFacts
    <2>2. Clamp(0, L) = 0 /\ Least(Clamp(L, L), L) = L
      BY <2>1 DEF Clamp, Least
    <2>3. Found(s.val, t.val, 0, L) = {j \in 0..(L - Len(t.val)) : OccursAt(s.val, t.val, j)}
      BY <2>2 DEF Found
    <2>4. \A j : OccursAt(s.val, t.val, j) => j + Len(t.val) <= L
      BY DEF OccursAt
    <2>5. Occurrences(s.val, t.val, 0) = {j \in 0..L : OccursAt(s.val, t.val, j)}
      BY DEF Occurrences
    <2> DEFINE M == Len(t.val)
    <2> HIDE DEF L, M
    <2>6. \A j \in Nat : j \in 0..(L - M) <=> j \in 0..L /\ j + M <= L
      BY <2>1 DEF M
    <2>7. ASSUME NEW j, OccursAt(s.val, t.val, j)
          PROVE  j \in 0..(L - M) <=> j \in 0..L
      BY <2>1, <2>4, <2>6, <2>7 DEF M
    <2>8. Found(s.val, t.val, 0, L) = {j \in 0..(L - M) : OccursAt(s.val, t.val, j)}
      BY <2>3 DEF M
    <2>. QED BY <2>5, <2>7, <2>8
  <1>. QED BY <1>2, <1>3 DEF PyFind

\* The rest of a string after a position.
LEMMA AfterFaithful ==
    ASSUME NEW s, StrFaithful(s), NEW t, Faithful(t), NEW i, Faithful(i)
    PROVE  /\ StrFaithful(After(s, t, i))
           /\ After(s, t, i).val = Slice(s.val, At0(i.val + t.val), Len(s.val))
  <1>1. Faithful(Plus(i, t)) /\ Plus(i, t).val = i.val + t.val
    BY PlusFaithful
  <1>2. Faithful(WholeLength(s)) /\ At0(WholeLength(s).val) = Len(s.val)
    BY BoundsFaithful
  <1>3. /\ StrFaithful(Sub(s, Plus(i, t), WholeLength(s)))
        /\ Sub(s, Plus(i, t), WholeLength(s)).val
             = Slice(s.val, At0(Plus(i, t).val), At0(WholeLength(s).val))
    BY <1>1, <1>2, SubFaithful, Zenon
  <1>. QED BY <1>1, <1>2, <1>3 DEF After

\* A bounded replace puts together strings that are what their expressions denote, and
\* the conditions it registers on the way hold.
LEMMA BoundedReplaceFaithful ==
    ASSUME NEW s, StrFaithful(s), NEW old, StrFaithful(old), NEW new, StrFaithful(new),
           NEW count \in Nat
    PROVE  /\ StrFaithful(BoundedReplace(s, old, new, count).value)
           /\ \A b \in BoundedReplace(s, old, new, count).branches : Holds(b)
  <1> DEFINE V == [done : Strs, current : Strs, branches : SUBSET Held]
             base == [done |-> Untracked(<<>>), current |-> s, branches |-> {}]
             at(r) == Find(r.current, old)
             seen(r) == r.branches \cup {at(r).branch}
             next(r) == IF at(r).value.val = -2 THEN [r EXCEPT !.branches = seen(r)]
                        ELSE [done     |-> Concat(Concat(r.done, Sub(r.current, Zero, at(r).value)), new),
                              current  |-> After(r.current, Size(old), at(r).value),
                              branches |-> seen(r)]
             step == [k \in 1..count |-> [r \in V |-> next(r)]]
             Is(f) == f = [k \in 0..count |-> IF k = 0 THEN base ELSE next(f[k - 1])]
             turn == CHOOSE f : Is(f)
  <1>1. base \in V
    <2>0. <<>> \in Text
      BY DEF Text
    <2>1. StrFaithful(Untracked(<<>>))
      BY <2>0, UntrackedMade, Zenon
    <2>2. Untracked(<<>>) \in Strs /\ s \in Strs
      BY <2>1, Members
    <2>. QED BY <2>2
  <1>2. ASSUME NEW r \in V PROVE next(r) \in V
    <2>1. StrFaithful(r.done) /\ StrFaithful(r.current) /\ r.branches \subseteq Held
      BY Members
    <2>2. Faithful(at(r).value) /\ Holds(at(r).branch)
      BY <2>1, FindWhole
    <2>3. seen(r) \in SUBSET Held
      BY <2>1, <2>2, Members
    <2>4. StrFaithful(Sub(r.current, Zero, at(r).value))
      BY <2>1, <2>2, BoundsFaithful, SubFaithful
    <2>5. StrFaithful(After(r.current, Size(old), at(r).value))
      BY <2>1, <2>2, SizeFaithful, AfterFaithful
    <2>6. StrFaithful(Concat(Concat(r.done, Sub(r.current, Zero, at(r).value)), new))
      BY <2>1, <2>4, ConcatFaithful
    <2> HIDE DEF seen, at
    <2>. QED BY <2>3, <2>5, <2>6, Members
  <1>3. BoundedReplace(s, old, new, count) =
          [value |-> Concat(turn[count].done, turn[count].current), branches |-> turn[count].branches]
    BY Zenon DEF BoundedReplace
  <1> HIDE DEF next, base
  <1>4. Steps(step, V, count)
    BY <1>2 DEF Steps
  <1>5. PICK f : Follows(f, V, count, base, step)
    <2> HIDE DEF step, V
    <2>. QED BY <1>1, <1>4, RecursionUpTo, Zenon
  <1>6. Is(f)
    <2> HIDE DEF V
    <2>1. \A n \in 1..count : n - 1 \in 0..count /\ n \in 0..count /\ n # 0
      OBVIOUS
    <2>2. \A n \in 1..count : f[n - 1] \in V
      BY <1>5, <2>1 DEF Follows
    <2>3. \A n \in 1..count : f[n] = next(f[n - 1])
      BY <1>5, <2>2 DEF Follows
    <2>4. \A n \in 0..count : n = 0 \/ n \in 1..count
      OBVIOUS
    <2>. QED BY <1>5, <2>3, <2>4 DEF Follows
  <1>7. Is(turn)
    <2> HIDE DEF Is
    <2>. QED BY <1>6, Zenon
  <1> HIDE DEF turn
  <1>8. turn = [n \in 0..count |-> turn[n]] /\ turn[0] = base
    <2>1. 0 \in 0..count
      OBVIOUS
    <2>2. turn[0] = base
      BY <1>7, <2>1
    <2>3. turn = [n \in 0..count |-> turn[n]]
      BY <1>7
    <2>. QED BY <2>2, <2>3
  <1>9. \A n \in 1..count : turn[n] = next(turn[n - 1])
    <2>1. \A n \in 1..count : n \in 0..count /\ n # 0
      OBVIOUS
    <2>. QED BY <1>7, <2>1
  <1> HIDE DEF Is
  <1>10. turn \in [0..count -> V]
    <2> HIDE DEF V
    <2>1. ASSUME NEW n \in 1..count, turn[n - 1] \in V PROVE turn[n] \in V
      BY <1>2, <1>9, <2>1
    <2>2. turn[0] \in V
      BY <1>1, <1>8
    <2>. QED BY <1>8, <2>1, <2>2, StaysUpTo, Zenon
  <1>11. turn[count] \in V
    BY <1>10
  <1>12. StrFaithful(turn[count].done) /\ StrFaithful(turn[count].current)
         /\ \A b \in turn[count].branches : Holds(b)
    BY <1>11, Members
  <1>13. StrFaithful(Concat(turn[count].done, turn[count].current))
    BY <1>12, ConcatFaithful, Zenon
  <1>. QED BY <1>3, <1>12, <1>13

LEMMA VerifiedFaithful ==
    ASSUME NEW s, StrFaithful(s), NEW concrete \in Text
    PROVE  StrFaithful(Verified(s, concrete))
  BY UntrackedMade DEF Verified

-----------------------------------------------------------------------------
(* Joining strings *)

\* One string more is joined at the end.
LEMMA FlattenAppend ==
    ASSUME NEW q \in Seq(Text), NEW x \in Text
    PROVE  FlattenSeq(Append(q, x)) = FlattenSeq(q) \o x
  <1> DEFINE L == Len(q)
             p == Append(q, x)
  <1>1. /\ p \in Seq(Text) /\ p # <<>> /\ Len(p) = L + 1
        /\ \A i \in 1..L : p[i] = q[i]
        /\ p[L + 1] = x
    BY AppendProperties
  <1>2. L \in Nat
    BY LenProperties
  <1>3. PICK f : JoinedUpTo(f, p) /\ FlattenSeq(p) = f[Len(p)]
    <2> HIDE DEF p
    <2>. QED BY <1>1, FlattenJoins, Zenon
  <1> HIDE DEF p
  <1>4. /\ f \in [1..L + 1 -> Text] /\ f[1] = p[1] /\ FlattenSeq(p) = f[L + 1]
        /\ \A i \in 2..L + 1 : f[i] = f[i - 1] \o p[i]
    BY <1>1, <1>3 DEF JoinedUpTo
  <1>5. CASE q = <<>>
    <2>1. L = 0 /\ FlattenSeq(q) = <<>>
      BY <1>5 DEF FlattenSeq
    <2>2. FlattenSeq(p) = x
      BY <1>1, <1>4, <2>1
    <2>3. <<>> \o x = x
      BY ConcatEmptySeq DEF Text
    <2>. QED BY <2>1, <2>2, <2>3 DEF p
  <1>6. CASE q # <<>>
    <2>1. PICK g : JoinedUpTo(g, q) /\ FlattenSeq(q) = g[L]
      BY <1>6, FlattenJoins, Zenon
    <2>2. L # 0
      BY <1>6, EmptySeq
    <2>3. /\ g[1] = q[1]
          /\ \A i \in 2..L : g[i] = g[i - 1] \o q[i]
      BY <2>1 DEF JoinedUpTo
    <2> HIDE DEF L
    <2>4. 1 \in 1..L /\ L \in 1..L /\ L + 1 \in 2..L + 1 /\ L + 1 - 1 = L
      BY <1>2, <2>2
    <2>5. f[1] = g[1]
      BY <1>1, <1>4, <2>3, <2>4
    <2>6. \A i \in 2..L : f[i] = f[i - 1] \o q[i]
      <3>1. \A i \in 2..L : i \in 1..L /\ i \in 2..L + 1
        BY <1>2
      <3>2. ASSUME NEW i \in 2..L PROVE f[i] = f[i - 1] \o q[i]
        <4>1. f[i] = f[i - 1] \o p[i] /\ p[i] = q[i]
          BY <1>1, <1>4, <3>1
        <4>. QED BY <4>1
      <3>. QED BY <3>2
    <2>7. f[L] = g[L]
      <3>1. \A i \in 1..L : f[i] = g[i]
        <4>1. JoinsOn(f, q, L) /\ JoinsOn(g, q, L)
          BY <2>3, <2>6 DEF JoinsOn
        <4>2. \A i \in 1..L : f[i] = g[i]
          BY <1>2, <2>5, <4>1, JoinedSame
        <4>. QED BY <4>2
      <3>. QED BY <2>4, <3>1
    <2>8. f[L + 1] = f[L] \o x
      <3> DEFINE K == L + 1
      <3>1. \A i \in 2..K : f[i] = f[i - 1] \o p[i]
        BY <1>4
      <3>2. K \in 2..K /\ K - 1 = L /\ p[K] = x
        BY <1>1, <2>4
      <3> HIDE DEF K
      <3>3. f[K] = f[K - 1] \o p[K]
        BY <3>1, <3>2
      <3>. QED BY <3>2, <3>3 DEF K
    <2>. QED BY <1>4, <2>1, <2>7, <2>8 DEF p, L
  <1>. QED BY <1>5, <1>6

LEMMA RepeatType ==
    ASSUME NEW n \in Int, NEW v \in Text
    PROVE  FlattenSeq([i \in 1..n |-> v]) \in Text
  <1>1. [i \in 1..n |-> v] \in Seq(Text)
    <2>1. CASE n \in Nat
      BY <2>1, IsASeq
    <2>2. CASE n \notin Nat
      <3>1. 1..n = 1..0 /\ 0 \in Nat
        BY <2>2
      <3>2. [i \in 1..0 |-> v] \in Seq(Text)
        BY <3>1, IsASeq
      <3>. QED BY <3>1, <3>2
    <2>. QED BY <2>1, <2>2
  <1>. QED BY <1>1, FlattenType

-----------------------------------------------------------------------------
(* Splitting *)

First(p, v, t) == p \in Occurrences(v, t, 0) /\ \A j \in Occurrences(v, t, 0) : p <= j

\* What is before and what is after the first occurrence.
CutsAt(h, r, v, t, p) ==
    First(p, v, t) /\ h = Slice(v, 0, p) /\ r = Slice(v, p + Len(t), Len(v))

\* A string cut at the first occurrence of a separator.
LEMMA CutAtFirst ==
    ASSUME NEW v \in Text, NEW t \in Text, t # <<>>, NEW p, NEW h, NEW r, CutsAt(h, r, v, t, p)
    PROVE  /\ h \in Text /\ r \in Text
           /\ v = (h \o t) \o r
           /\ ~Has(h, t)
           /\ Len(r) <= Len(v) - 1
  <1>0. First(p, v, t) /\ h = Slice(v, 0, p) /\ r = Slice(v, p + Len(t), Len(v))
    BY DEF CutsAt
  <1> DEFINE L == Len(v)
             M == Len(t)
  <1>1. L \in Nat /\ M \in Nat /\ M # 0
    BY TextFacts
  <1>2. p \in Nat /\ OccursAt(v, t, p)
    BY <1>0, <1>1 DEF Occurrences, First
  <1>3. p + M <= L /\ \A k \in 1..M : v[p + k] = t[k]
    BY <1>2, OccursProperties
  <1>4. h = Substr(v, 0, p) /\ r = Substr(v, p + M, L - (p + M))
    <2>1. 0 \in Int /\ p \in Int /\ p + M \in Int /\ L \in Int
      BY <1>1, <1>2
    <2>2. Slice(v, 0, p) = Substr(v, Clamp(0, L), Clamp(p, L) - Clamp(0, L))
      BY <2>1, SliceProperties
    <2>3. Slice(v, p + M, L) = Substr(v, Clamp(p + M, L), Clamp(L, L) - Clamp(p + M, L))
      BY <2>1, SliceProperties
    <2> HIDE DEF L, M
    <2>4. Clamp(0, L) = 0 /\ Clamp(p, L) = p /\ Clamp(p + M, L) = p + M /\ Clamp(L, L) = L
          /\ p - 0 = p
      BY <1>1, <1>2 DEF Clamp
    <2>. QED BY <1>0, <2>2, <2>3, <2>4 DEF L, M
  <1>5. h \in Text /\ Len(h) = p /\ \A k \in 1..p : h[k] = v[k]
    <2>1. p \in Int /\ 0 \in Int
      BY <1>2
    <2>2. h \in Text
      BY <1>4, <2>1, SubstrProperties
    <2>3. CASE p = 0
      <3>1. h = <<>>
        BY <1>4, <2>1, <2>3, SubstrProperties
      <3>2. Len(h) = 0
        BY <3>1
      <3>. QED BY <2>2, <2>3, <3>2
    <2>4. CASE p # 0
      <3>1. /\ Len(h) = Least(0 + p, L) - 0
            /\ \A k \in 1..Least(0 + p, L) - 0 : h[k] = v[0 + k]
        <4>1. 0 <= 0 /\ 0 < L /\ 0 < p
          BY <1>1, <1>2, <1>3, <2>4
        <4>. QED BY <1>4, <2>1, <4>1, SubstrProperties
      <3> HIDE DEF L
      <3>2. Least(0 + p, L) - 0 = p /\ \A k \in 1..p : 0 + k = k
        BY <1>1, <1>2, <1>3 DEF Least
      <3>. QED BY <2>2, <3>1, <3>2
    <2>. QED BY <2>3, <2>4
  <1> DEFINE N == L - (p + M)
  <1>6. r \in Text /\ Len(r) = N /\ \A k \in 1..N : r[k] = v[p + M + k]
    <2>1. p + M \in Int /\ N \in Int
      BY <1>1, <1>2
    <2>2. r \in Text
      BY <1>4, <2>1, SubstrProperties
    <2>3. CASE N = 0
      <3>1. r = <<>>
        BY <1>4, <2>1, <2>3, SubstrProperties
      <3>2. Len(r) = 0
        BY <3>1
      <3>. QED BY <2>2, <2>3, <3>2
    <2>4. CASE N # 0
      <3>1. /\ Len(r) = Least(p + M + N, L) - (p + M)
            /\ \A k \in 1..Least(p + M + N, L) - (p + M) : r[k] = v[p + M + k]
        <4>1. 0 <= p + M /\ p + M < L /\ 0 < N
          BY <1>1, <1>2, <1>3, <2>4
        <4>. QED BY <1>4, <2>1, <4>1, SubstrProperties
      <3> HIDE DEF L, M
      <3>2. Least(p + M + N, L) - (p + M) = N
        BY <1>1, <1>2, <1>3 DEF Least
      <3>. QED BY <2>2, <3>1, <3>2
    <2>. QED BY <2>3, <2>4
  <1> HIDE DEF L, M
  <1>7. v = (h \o t) \o r
    <2> DEFINE w == h \o t
               z == w \o r
    <2>1. /\ w \in Seq(Int) /\ Len(w) = p + M
          /\ \A i \in 1..p + M : w[i] = IF i <= p THEN h[i] ELSE t[i - p]
      BY <1>5, ConcatProperties DEF Text, M
    <2> HIDE DEF w
    <2>2. /\ z \in Seq(Int) /\ Len(z) = p + M + N
          /\ \A i \in 1..p + M + N : z[i] = IF i <= p + M THEN w[i] ELSE r[i - (p + M)]
      <3>1. /\ w \o r \in Seq(Int)
            /\ Len(w \o r) = Len(w) + Len(r)
            /\ \A i \in 1 .. Len(w) + Len(r) : (w \o r)[i] =
                  IF i <= Len(w) THEN w[i] ELSE r[i - Len(w)]
        BY <1>6, <2>1, ConcatProperties DEF Text
      <3>2. Len(w) = p + M /\ Len(r) = N
        BY <1>6, <2>1
      <3>. QED BY <3>1, <3>2
    <2> HIDE DEF z
    <2>3. p + M + N = L
      BY <1>1, <1>2
    <2>4. ASSUME NEW i \in 1..L PROVE v[i] = z[i]
      <3>1. CASE i <= p
        <4>1. i \in 1..p /\ i \in 1..p + M /\ i <= p + M
          BY <1>1, <1>2, <3>1
        <4>. QED BY <1>5, <2>1, <2>2, <2>3, <3>1, <4>1
      <3>2. CASE ~(i <= p) /\ i <= p + M
        <4>1. i - p \in 1..M /\ i \in 1..p + M /\ p + (i - p) = i
          BY <1>1, <1>2, <3>2
        <4>2. z[i] = t[i - p]
          BY <2>1, <2>2, <2>3, <3>2, <4>1
        <4>. QED BY <1>3, <4>1, <4>2 DEF M
      <3>3. CASE ~(i <= p + M)
        <4>1. i - (p + M) \in 1..N /\ p + M + (i - (p + M)) = i
          BY <1>1, <1>2, <3>3
        <4>2. z[i] = r[i - (p + M)]
          BY <2>2, <2>3, <3>3
        <4>. QED BY <1>6, <4>1, <4>2
      <3>. QED BY <3>1, <3>2, <3>3
    <2>5. Len(v) = Len(z)
      BY <2>2, <2>3 DEF L
    <2>6. v = z
      BY <2>2, <2>4, <2>5, SeqEqual DEF Text, L
    <2>. QED BY <2>6 DEF z, w
  <1>8. ~Has(h, t)
    <2> SUFFICES ASSUME NEW j \in Occurrences(h, t, 0) PROVE FALSE
      BY DEF Has
    <2>1. j \in Nat /\ OccursAt(h, t, j)
      BY <1>2, <1>5 DEF Occurrences
    <2>2. j + M <= p /\ \A k \in 1..M : h[j + k] = t[k]
      BY <1>5, <2>1, OccursProperties DEF M
    <2>3. j + M <= L /\ \A k \in 1..M : v[j + k] = t[k]
      <3>1. j + M <= L
        BY <1>1, <1>2, <1>3, <2>1, <2>2 DEF L, M
      <3>2. ASSUME NEW k \in 1..M PROVE v[j + k] = t[k]
        <4>1. j + k \in 1..p
          BY <1>1, <1>2, <2>1, <2>2
        <4>. QED BY <1>5, <2>2, <4>1
      <3>. QED BY <3>1, <3>2
    <2>4. OccursAt(v, t, j)
      BY <2>1, <2>3, OccursProperties DEF L, M
    <2>5. j \in Occurrences(v, t, 0)
      <3>1. j \in 0..L
        BY <1>1, <2>1, <2>3
      <3>. QED BY <2>4, <3>1 DEF Occurrences, L
    <2>6. p <= j
      BY <1>0, <2>5 DEF First
    <2>. QED BY <1>1, <1>2, <2>1, <2>2, <2>6
  <1>9. N <= L - 1
    BY <1>1, <1>2
  <1>. QED BY <1>5, <1>6, <1>7, <1>8, <1>9 DEF L

\* The pieces with the separator before each but the first.
Joint(parts, sep) == [i \in 1..Len(parts) |-> (IF i = 1 THEN <<>> ELSE sep) \o parts[i].val]

LEMMA JointAppend ==
    ASSUME NEW parts \in Seq(Strs), NEW c \in Strs, NEW sep \in Text
    PROVE  /\ Joint(parts, sep) \in Seq(Text)
           /\ Joint(Append(parts, c), sep)
                = Append(Joint(parts, sep), (IF Len(parts) = 0 THEN <<>> ELSE sep) \o c.val)
  <1> DEFINE L == Len(parts)
             p == Append(parts, c)
             x == (IF L = 0 THEN <<>> ELSE sep) \o c.val
             q == Append(Joint(parts, sep), x)
             j == Joint(p, sep)
  <1>1. <<>> \in Text /\ \A d \in Strs : d.val \in Text
    BY Members, StrParts DEF Text
  <1>2. \A s \in Seq(Strs) : Joint(s, sep) \in Seq(Text) /\ Len(Joint(s, sep)) = Len(s)
    <2> SUFFICES ASSUME NEW s \in Seq(Strs)
                 PROVE  Joint(s, sep) \in Seq(Text) /\ Len(Joint(s, sep)) = Len(s)
      OBVIOUS
    <2>1. Len(s) \in Nat /\ \A i \in 1..Len(s) : s[i].val \in Text
      BY <1>1, LenProperties, ElementOfSeq
    <2>2. \A i \in 1..Len(s) : (IF i = 1 THEN <<>> ELSE sep) \o s[i].val \in Text
      BY <1>1, <2>1, TextsJoin
    <2>3. Joint(s, sep) \in Seq(Text)
      BY <2>1, <2>2, IsASeq DEF Joint
    <2>4. DOMAIN Joint(s, sep) = 1..Len(s)
      BY DEF Joint
    <2>. QED BY <2>1, <2>3, <2>4, LenProperties
  <1>3. /\ p \in Seq(Strs) /\ Len(p) = L + 1 /\ L \in Nat
        /\ \A i \in 1..L : p[i] = parts[i]
        /\ p[L + 1] = c
    BY AppendProperties, LenProperties
  <1> HIDE DEF L
  <1>4. x \in Text
    BY <1>1, TextsJoin
  <1> HIDE DEF x
  <1>5. /\ q \in Seq(Text) /\ Len(q) = L + 1
        /\ \A i \in 1..L : q[i] = Joint(parts, sep)[i]
        /\ q[L + 1] = x
    BY <1>2, <1>4, AppendProperties DEF L
  <1>6. j \in Seq(Text) /\ Len(j) = L + 1
    BY <1>2, <1>3
  <1>7. \A i \in 1..L + 1 : j[i] = (IF i = 1 THEN <<>> ELSE sep) \o p[i].val
    BY <1>3 DEF Joint
  <1>8. \A i \in 1..L : Joint(parts, sep)[i] = (IF i = 1 THEN <<>> ELSE sep) \o parts[i].val
    BY DEF Joint, L
  <1> HIDE DEF q, j, p
  <1>9. ASSUME NEW i \in 1..L + 1 PROVE j[i] = q[i]
    <2>1. CASE i = L + 1
      <3>1. i = 1 <=> L = 0
        BY <1>3, <2>1
      <3>2. (IF i = 1 THEN <<>> ELSE sep) = (IF L = 0 THEN <<>> ELSE sep)
        BY <3>1
      <3>3. j[i] = (IF i = 1 THEN <<>> ELSE sep) \o p[i].val
        BY <1>7
      <3>4. p[i] = c /\ q[i] = x
        BY <1>3, <1>5, <2>1
      <3>5. j[i] = (IF L = 0 THEN <<>> ELSE sep) \o c.val
        BY <3>2, <3>3, <3>4
      <3>6. x = (IF L = 0 THEN <<>> ELSE sep) \o c.val
        BY DEF x
      <3>7. q[i] = x
        BY <3>4
      <3>. QED BY ONLY <3>5, <3>6, <3>7, Zenon
    <2>2. CASE i # L + 1
      <3>1. i \in 1..L
        BY <1>3, <2>2
      <3>2. j[i] = (IF i = 1 THEN <<>> ELSE sep) \o p[i].val
        BY <1>7
      <3>3. p[i] = parts[i] /\ q[i] = Joint(parts, sep)[i]
        BY <1>3, <1>5, <3>1
      <3>4. Joint(parts, sep)[i] = (IF i = 1 THEN <<>> ELSE sep) \o parts[i].val
        BY <1>8, <3>1
      <3>. QED BY ONLY <3>2, <3>3, <3>4, Zenon
    <2>. QED BY <2>1, <2>2
  <1>10. j = q
    BY <1>5, <1>6, <1>9, SeqEqual
  <1>. QED BY <1>2, <1>10 DEF j, q, p, x, L

\* Cutting the last piece at a separator leaves what the pieces are joined to.
LEMMA CutRejoins ==
    ASSUME NEW b \in Seq(Strs), NEW c \in Strs, NEW d \in Strs, NEW e \in Strs, NEW sep \in Text,
           c.val = (d.val \o sep) \o e.val
    PROVE  FlattenSeq(Joint(Append(Append(b, d), e), sep)) = FlattenSeq(Joint(Append(b, c), sep))
  <1> DEFINE P == IF Len(b) = 0 THEN <<>> ELSE sep
             J == Joint(b, sep)
             X == FlattenSeq(J)
             D == d.val
             E == e.val
  <1>1. <<>> \in Text /\ c.val \in Text /\ D \in Text /\ E \in Text
    BY Members, StrParts DEF Text
  <1>2. Append(b, d) \in Seq(Strs) /\ Len(Append(b, d)) # 0
    <2>1. Append(b, d) \in Seq(Strs) /\ Len(Append(b, d)) = Len(b) + 1 /\ Len(b) \in Nat
      BY AppendProperties, LenProperties
    <2>. QED BY <2>1
  <1>3. /\ J \in Seq(Text)
        /\ Joint(Append(b, d), sep) = Append(J, P \o D)
        /\ Joint(Append(b, c), sep) = Append(J, P \o c.val)
        /\ Joint(Append(Append(b, d), e), sep) = Append(Append(J, P \o D), sep \o E)
    BY <1>2, JointAppend
  <1> HIDE DEF J, D, E
  <1>4. P \in Text
    BY <1>1
  <1> HIDE DEF P
  <1>5. P \o D \in Text /\ P \o c.val \in Text /\ sep \o E \in Text
    BY <1>1, <1>4, TextsJoin
  <1>6. X \in Text /\ Append(J, P \o D) \in Seq(Text)
    BY <1>3, <1>5, FlattenType, AppendProperties
  <1>7. FlattenSeq(Append(J, P \o D)) = X \o (P \o D)
    BY <1>3, <1>5, FlattenAppend
  <1>8. FlattenSeq(Append(Append(J, P \o D), sep \o E)) = (X \o (P \o D)) \o (sep \o E)
    BY <1>5, <1>6, <1>7, FlattenAppend
  <1>9. FlattenSeq(Append(J, P \o c.val)) = X \o (P \o c.val)
    BY <1>3, <1>5, FlattenAppend
  <1> HIDE DEF X
  <1>10. (X \o (P \o D)) \o (sep \o E) = X \o ((P \o D) \o (sep \o E))
    BY <1>5, <1>6, TextsAssociate
  <1>11. (P \o D) \o (sep \o E) = P \o (D \o (sep \o E))
    BY <1>1, <1>4, <1>5, TextsAssociate
  <1>12. (D \o sep) \o E = D \o (sep \o E)
    BY <1>1, TextsAssociate
  <1>. QED BY <1>3, <1>8, <1>9, <1>10, <1>11, <1>12 DEF D, E

\* Where split stands after k turns: the pieces cut off so far and the rest are joined
\* to the string, nothing is left to look for in the pieces, and either the end is
\* reached or every turn made a cut, each from a shorter rest.
Cut == [before : Seq(Strs), rest : Strs, branches : SUBSET Held]

Ended(r, sep, max) == Len(r.before) = max \/ ~Has(r.rest.val, sep)

CutSoFar(r, k, s, sep, max) ==
    /\ r \in Cut
    /\ FlattenSeq(Joint(Append(r.before, r.rest), sep)) = s
    /\ \A i \in 1..Len(r.before) : ~Has(r.before[i].val, sep)
    /\ max >= 0 => Len(r.before) <= max
    /\ Ended(r, sep, max) \/ (Len(r.before) = k /\ Len(r.rest.val) <= Len(s) - k)

LEMMA FlattenOne ==
    ASSUME NEW c \in Strs, NEW sep \in Text
    PROVE  FlattenSeq(Joint(Append(<<>>, c), sep)) = c.val
  <1>1. <<>> \in Seq(Strs) /\ Len(<<>>) = 0
    BY EmptySeq
  <1>2. c.val \in Text /\ <<>> \in Text
    BY Members, StrParts DEF Text
  <1>3. Joint(<<>>, sep) \in Seq(Text) /\ Len(Joint(<<>>, sep)) = 0
    <2>1. Joint(<<>>, sep) \in Seq(Text)
      BY <1>1, JointAppend
    <2>2. DOMAIN Joint(<<>>, sep) = 1..0
      BY <1>1 DEF Joint
    <2> DEFINE M == Len(Joint(<<>>, sep))
    <2>3. M \in Nat /\ 1..M = 1..0
      BY <2>1, <2>2, LenProperties
    <2> HIDE DEF M
    <2>4. M = 0
      BY <2>3
    <2>. QED BY <2>1, <2>4 DEF M
  <1>4. Joint(<<>>, sep) = <<>>
    BY <1>3, EmptySeq
  <1>5. Joint(Append(<<>>, c), sep) = Append(<<>>, <<>> \o c.val)
    <2>1. Joint(Append(<<>>, c), sep)
            = Append(Joint(<<>>, sep), (IF Len(<<>>) = 0 THEN <<>> ELSE sep) \o c.val)
      BY <1>1, JointAppend, Zenon
    <2>2. (IF Len(<<>>) = 0 THEN <<>> ELSE sep) = <<>>
      BY <1>1, Zenon
    <2>. QED BY <1>4, <2>1, <2>2, Zenon
  <1>6. <<>> \o c.val = c.val
    BY <1>2, ConcatEmptySeq DEF Text
  <1>7. <<>> \in Seq(Text) /\ FlattenSeq(<<>>) = <<>>
    BY EmptySeq DEF FlattenSeq
  <1>8. FlattenSeq(Append(<<>>, c.val)) = <<>> \o c.val
    BY <1>2, <1>7, FlattenAppend
  <1>. QED BY <1>5, <1>6, <1>8

LEMMA SplitTurn ==
    ASSUME NEW sep, StrFaithful(sep), NEW max \in Int, NEW r \in Cut,
           NEW at, at = Find(r.rest, sep),
           NEW seen, seen = r.branches \cup {at.branch},
           NEW next, next = IF Len(r.before) = max \/ at.value.val = -2
                            THEN [r EXCEPT !.branches = seen]
                            ELSE [before   |-> Append(r.before, Sub(r.rest, Zero, at.value)),
                                  rest     |-> After(r.rest, WholeLength(sep), at.value),
                                  branches |-> seen]
    PROVE  /\ next \in Cut
           /\ \A s \in Text, k \in Nat :
                sep.val # <<>> /\ CutSoFar(r, k, s, sep.val, max)
                  => CutSoFar(next, k + 1, s, sep.val, max)
  <1> DEFINE v == r.rest.val
             t == sep.val
             O == Occurrences(v, t, 0)
             p == Min(O)
             piece == Sub(r.rest, Zero, at.value)
             rest == After(r.rest, WholeLength(sep), at.value)
  <1>1. /\ r.before \in Seq(Strs) /\ r.rest \in Strs /\ r.branches \subseteq Held
        /\ StrFaithful(r.rest)
    BY Members DEF Cut
  <1>2. v \in Text /\ t \in Text
    BY <1>1, StrParts
  <1>3. /\ Faithful(at.value) /\ Holds(at.branch)
        /\ at.value.val = 2 * (IF O = {} THEN -1 ELSE p)
    BY <1>1, FindWhole
  <1>4. seen \in SUBSET Held
    BY <1>1, <1>3, Members
  <1>5. /\ Faithful(Zero) /\ At0(Zero.val) = 0
        /\ Faithful(WholeLength(sep)) /\ WholeLength(sep).val = 2 * Len(t)
    BY BoundsFaithful
  <1>6. /\ StrFaithful(piece) /\ piece.val = Slice(v, 0, At0(at.value.val))
    <2>1. StrFaithful(piece) /\ piece.val = Slice(v, At0(Zero.val), At0(at.value.val))
      <3>1. StrFaithful(r.rest) /\ Faithful(Zero) /\ Faithful(at.value)
        BY <1>1, <1>3, <1>5
      <3>. QED BY ONLY <3>1, SubFaithful
    <2>. QED BY <1>5, <2>1
  <1>7. StrFaithful(rest) /\ rest.val = Slice(v, At0(at.value.val + 2 * Len(t)), Len(v))
    <2>1. /\ StrFaithful(rest)
          /\ rest.val = Slice(v, At0(at.value.val + WholeLength(sep).val), Len(v))
      BY <1>1, <1>3, <1>5, AfterFaithful, Zenon
    <2>. QED BY <1>5, <2>1
  <1>8. piece \in Strs /\ rest \in Strs
    BY <1>6, <1>7, Members
  <1>9. Append(r.before, piece) \in Seq(Strs) /\ Len(Append(r.before, piece)) = Len(r.before) + 1
        /\ Len(r.before) \in Nat
        /\ (\A i \in 1..Len(r.before) : Append(r.before, piece)[i] = r.before[i])
        /\ Append(r.before, piece)[Len(r.before) + 1] = piece
    BY <1>1, <1>8, AppendProperties, LenProperties
  <1>10. O \in SUBSET Nat /\ (O # {} => p \in O /\ \A j \in O : p <= j)
    <2>1. O \in SUBSET Nat
      BY <1>2, TextFacts DEF Occurrences
    <2>. QED BY <2>1, MinProperties
  <1>11. O = {} <=> ~Has(v, t)
    BY DEF Has
  <1>12. next = IF Len(r.before) = max \/ at.value.val = -2
                THEN [r EXCEPT !.branches = seen]
                ELSE [before |-> Append(r.before, piece), rest |-> rest, branches |-> seen]
    OBVIOUS
  <1> HIDE DEF O, p, piece, rest
  <1>13. at.value.val = -2 <=> O = {}
    <2>1. O # {} => p \in Nat
      BY <1>10
    <2>. QED BY <1>3, <2>1
  <1>14. CASE Len(r.before) = max \/ at.value.val = -2
    <2>1. next = [r EXCEPT !.branches = seen]
      BY <1>12, <1>14, Zenon
    <2>2. next \in Cut /\ next.before = r.before /\ next.rest = r.rest
      BY <1>4, <2>1 DEF Cut
    <2>3. Ended(next, t, max)
      BY <1>11, <1>13, <1>14, <2>2 DEF Ended
    <2> HIDE DEF v, t
    <2>. QED BY <2>2, <2>3 DEF CutSoFar, t
  <1>15. CASE ~(Len(r.before) = max \/ at.value.val = -2)
    <2>1. next = [before |-> Append(r.before, piece), rest |-> rest, branches |-> seen]
      BY <1>12, <1>15, Zenon
    <2>2. /\ next \in Cut /\ next.before = Append(r.before, piece) /\ next.rest = rest
      BY <1>4, <1>8, <1>9, <2>1 DEF Cut
    <2>3. O # {} /\ p \in Nat /\ At0(at.value.val) = p /\ At0(at.value.val + 2 * Len(t)) = p + Len(t)
      <3> DEFINE M == Len(t)
      <3>1. M \in Nat /\ O # {} /\ at.value.val = 2 * p /\ p \in Nat
        BY <1>2, <1>3, <1>10, <1>13, <1>15, TextFacts
      <3> HIDE DEF M
      <3>2. (2 * p) \div 2 = p /\ (2 * p + 2 * M) \div 2 = p + M
        BY <3>1
      <3>. QED BY <3>1, <3>2 DEF At0, M
    <2>4. ASSUME t # <<>>
          PROVE  v = (piece.val \o t) \o rest.val /\ ~Has(piece.val, t)
                 /\ Len(rest.val) <= Len(v) - 1
      <3>1. First(p, v, t)
        BY <1>10, <2>3 DEF O, First
      <3>2. piece.val = Slice(v, 0, p) /\ rest.val = Slice(v, p + Len(t), Len(v))
        BY <1>6, <1>7, <2>3
      <3>3. CutsAt(piece.val, rest.val, v, t, p)
        BY <3>1, <3>2 DEF CutsAt
      <3> HIDE DEF v, t
      <3>4. ASSUME NEW h, NEW e, CutsAt(h, e, v, t, p)
            PROVE  v = (h \o t) \o e /\ ~Has(h, t) /\ Len(e) <= Len(v) - 1
        <4>1. v \in Text /\ t \in Text
          BY <1>2
        <4>2. t # <<>>
          BY <2>4
        <4>3. CutsAt(h, e, v, t, p)
          BY <3>4
        <4>. QED BY ONLY <4>1, <4>2, <4>3, CutAtFirst
      <3>. QED BY ONLY <3>3, <3>4, Zenon
    <2>5. ASSUME NEW s \in Text, NEW k \in Nat, t # <<>>, CutSoFar(r, k, s, t, max)
          PROVE  CutSoFar(next, k + 1, s, t, max)
      <3>1. /\ FlattenSeq(Joint(Append(r.before, r.rest), t)) = s
            /\ \A i \in 1..Len(r.before) : ~Has(r.before[i].val, t)
            /\ max >= 0 => Len(r.before) <= max
            /\ Len(r.before) = k /\ Len(v) <= Len(s) - k
        BY <1>11, <1>13, <1>15, <2>5 DEF CutSoFar, Ended
      <3>2. FlattenSeq(Joint(Append(next.before, next.rest), t)) = s
        <4>1. r.rest.val = (piece.val \o t) \o rest.val
          BY <2>4, <2>5
        <4>2. FlattenSeq(Joint(Append(Append(r.before, piece), rest), t))
                = FlattenSeq(Joint(Append(r.before, r.rest), t))
          <5>1. /\ r.before \in Seq(Strs) /\ r.rest \in Strs /\ piece \in Strs /\ rest \in Strs
                /\ t \in Text
            BY <1>1, <1>2, <1>8, Zenon
          <5> HIDE DEF v, t, piece, rest
          <5>. QED BY ONLY <4>1, <5>1, CutRejoins
        <4>. QED BY <2>2, <3>1, <4>2
      <3> DEFINE B == next.before
                 K == Len(r.before)
      <3>3. /\ Len(B) = K + 1 /\ K \in Nat /\ K = k
            /\ \A i \in 1..K : B[i] = r.before[i]
            /\ B[K + 1] = piece
        BY <1>9, <2>2, <3>1
      <3>4. \A i \in 1..K : ~Has(r.before[i].val, t)
        BY <3>1
      <3>5. max >= 0 => K < max
        BY <1>15, <3>1
      <3> HIDE DEF B, K
      <3>6. \A i \in 1..K + 1 : ~Has(B[i].val, t)
        <4> SUFFICES ASSUME NEW i \in 1..K + 1 PROVE ~Has(B[i].val, t)
          OBVIOUS
        <4>1. CASE i = K + 1
          BY <2>4, <2>5, <3>3, <4>1
        <4>2. CASE i # K + 1
          <5>1. i \in 1..K
            BY <3>3, <4>2
          <5>. QED BY <3>3, <3>4, <5>1
        <4>. QED BY <4>1, <4>2
      <3>7. Len(rest.val) <= Len(s) - (k + 1)
        <4> DEFINE a == Len(rest.val)
                   b == Len(v)
                   c == Len(s)
        <4>1. a \in Int /\ b \in Int /\ c \in Int
          BY <1>2, <1>7, StrParts, TextFacts
        <4>2. a <= b - 1 /\ b <= c - k
          BY <2>4, <2>5, <3>1
        <4> HIDE DEF a, b, c
        <4>3. a <= c - (k + 1)
          BY <4>1, <4>2
        <4>. QED BY <4>3 DEF a, c
      <3>8. max >= 0 => K + 1 <= max
        BY <3>3, <3>5
      <3>9. Len(B) = k + 1
        BY <3>3
      <3>. QED BY <2>2, <3>2, <3>3, <3>6, <3>7, <3>8, <3>9 DEF CutSoFar, B
    <2>. QED BY <2>2, <2>5
  <1>. QED BY <1>14, <1>15

\* What SplitFaithful asks of the pieces.
SplitsInto(parts, of, sep, max) ==
    /\ parts \in Seq(Strs)
    /\ FlattenSeq(Joint(parts, sep)) = of
    /\ \A i \in 1..(Len(parts) - 1) : ~Has(parts[i].val, sep)
    /\ max >= 0 => Len(parts) <= max + 1
    /\ Len(parts) - 1 # max => ~Has(parts[Len(parts)].val, sep)

\* When the end is reached, the pieces cut off and the rest are what was asked for.
LEMMA EndedSplits ==
    ASSUME NEW r, NEW k, NEW s, NEW sep, NEW max \in Int, CutSoFar(r, k, s, sep, max),
           Ended(r, sep, max)
    PROVE  SplitsInto(Append(r.before, r.rest), s, sep, max)
  <1> DEFINE P == Append(r.before, r.rest)
             K == Len(r.before)
  <1>1. r.before \in Seq(Strs) /\ r.rest \in Strs
    BY DEF CutSoFar, Cut
  <1>2. /\ P \in Seq(Strs) /\ Len(P) = K + 1 /\ K \in Nat
        /\ \A i \in 1..K : P[i] = r.before[i]
        /\ P[K + 1] = r.rest
    BY <1>1, AppendProperties, LenProperties
  <1>3. /\ FlattenSeq(Joint(P, sep)) = s
        /\ \A i \in 1..K : ~Has(r.before[i].val, sep)
        /\ max >= 0 => K <= max
        /\ K = max \/ ~Has(r.rest.val, sep)
    BY DEF CutSoFar, Ended
  <1> HIDE DEF P, K
  <1>4. Len(P) - 1 = K
    BY <1>2
  <1>5. \A i \in 1..(Len(P) - 1) : ~Has(P[i].val, sep)
    BY <1>2, <1>3, <1>4
  <1>6. max >= 0 => Len(P) <= max + 1
    BY <1>2, <1>3
  <1>7. Len(P) - 1 # max => ~Has(P[Len(P)].val, sep)
    BY <1>2, <1>3, <1>4
  <1>8. SplitsInto(P, s, sep, max)
    BY <1>2, <1>3, <1>5, <1>6, <1>7 DEF SplitsInto
  <1>. QED BY <1>8 DEF P

\* split gives Python's pieces, each what its expression denotes, and the conditions
\* it registers on the way hold.
LEMMA SplitProperties ==
    ASSUME NEW s, StrFaithful(s), NEW sep, StrFaithful(sep), sep.val # <<>>, NEW max \in Int
    PROVE  /\ SplitsInto(Split(s, sep, max).parts, s.val, sep.val, max)
           /\ \A b \in Split(s, sep, max).branches : Holds(b)
  <1> DEFINE N == Len(s.val) + 1
             base == [before |-> <<>>, rest |-> s, branches |-> {}]
             at(r) == Find(r.rest, sep)
             seen(r) == r.branches \cup {at(r).branch}
             next(r) == IF Len(r.before) = max \/ at(r).value.val = -2
                        THEN [r EXCEPT !.branches = seen(r)]
                        ELSE [before   |-> Append(r.before, Sub(r.rest, Zero, at(r).value)),
                              rest     |-> After(r.rest, WholeLength(sep), at(r).value),
                              branches |-> seen(r)]
             step == [k \in 1..N |-> [r \in Cut |-> next(r)]]
             Is(f) == f = [k \in 0..N |-> IF k = 0 THEN base ELSE next(f[k - 1])]
             turn == CHOOSE f : Is(f)
             SoFar(r, k) == CutSoFar(r, k, s.val, sep.val, max)
  <1>1. s.val \in Text /\ sep.val \in Text /\ s \in Strs /\ N \in Nat /\ N # 0
    BY StrParts, Members, TextFacts
  <1>2. base \in Cut /\ SoFar(base, 0)
    <2>1. base \in Cut /\ base.before = <<>> /\ base.rest = s
      BY <1>1, EmptySeq DEF Cut
    <2>2. FlattenSeq(Joint(Append(<<>>, s), sep.val)) = s.val
      BY <1>1, FlattenOne
    <2> DEFINE a == Len(<<>>)
               L == Len(s.val)
    <2>3. a = 0 /\ L \in Nat
      BY <1>1, TextFacts, EmptySeq
    <2>4. \A i \in 1..a : FALSE
      BY <2>3
    <2> HIDE DEF a, L, base
    <2>5. (max >= 0 => a <= max) /\ L <= L - 0
      BY <2>3
    <2>. QED BY <2>1, <2>2, <2>3, <2>4, <2>5 DEF CutSoFar, a, L
  <1>3. ASSUME NEW r \in Cut
        PROVE  next(r) \in Cut /\ \A k \in Nat : SoFar(r, k) => SoFar(next(r), k + 1)
    <2>1. /\ next(r) \in Cut
          /\ \A t \in Text, k \in Nat :
                sep.val # <<>> /\ CutSoFar(r, k, t, sep.val, max)
                  => CutSoFar(next(r), k + 1, t, sep.val, max)
      BY SplitTurn
    <2> HIDE DEF next
    <2>. QED BY <1>1, <2>1
  <1>4. Split(s, sep, max) =
          [parts |-> Append(turn[N].before, turn[N].rest), branches |-> turn[N].branches]
    BY Zenon DEF Split
  <1> HIDE DEF next, base, SoFar, N
  <1>5. Steps(step, Cut, N)
    BY <1>3 DEF Steps
  <1>6. PICK f : Follows(f, Cut, N, base, step)
    <2> HIDE DEF step
    <2>. QED BY <1>1, <1>2, <1>5, RecursionUpTo, Zenon
  <1>7. Is(f)
    <2>1. \A n \in 1..N : n - 1 \in 0..N /\ n \in 0..N /\ n # 0
      BY <1>1
    <2>2. \A n \in 1..N : f[n - 1] \in Cut
      BY <1>6, <2>1 DEF Follows
    <2>3. \A n \in 1..N : f[n] = next(f[n - 1])
      BY <1>6, <2>2 DEF Follows
    <2>4. \A n \in 0..N : n = 0 \/ n \in 1..N
      BY <1>1
    <2>. QED BY <1>6, <2>3, <2>4 DEF Follows
  <1>8. Is(turn)
    <2> HIDE DEF Is
    <2>. QED BY <1>7, Zenon
  <1> HIDE DEF turn
  <1>9. turn[0] = base
    <2>1. 0 \in 0..N
      BY <1>1
    <2>. QED BY <1>8, <2>1
  <1>10. \A n \in 1..N : turn[n] = next(turn[n - 1])
    <2>1. \A n \in 1..N : n \in 0..N /\ n # 0
      BY <1>1
    <2>. QED BY <1>8, <2>1
  <1> HIDE DEF Is
  <1> DEFINE Good == {n \in 1..N : SoFar(turn[n], n)}
  <1>11. \A r, k : SoFar(r, k) => r \in Cut
    BY DEF SoFar, CutSoFar
  <1>12. \A n \in 1..N : (\A k \in 1..n - 1 : k \in Good) => n \in Good
    <2> SUFFICES ASSUME NEW n \in 1..N, \A k \in 1..n - 1 : k \in Good PROVE n \in Good
      OBVIOUS
    <2> DEFINE m == n - 1
    <2>1. m = 0 \/ m \in 1..m
      BY <1>1
    <2>2. m \in Nat /\ m + 1 = n
      BY <1>1
    <2>3. turn[n] = next(turn[m])
      BY <1>10
    <2>4. SoFar(turn[m], m)
      <3>1. CASE m = 0
        <4> HIDE DEF m
        <4>. QED BY <1>2, <1>9, <3>1
      <3>2. CASE m \in 1..m
        BY <3>2
      <3>. QED BY <2>1, <3>1, <3>2
    <2>5. turn[m] \in Cut
      BY <1>11, <2>4
    <2> HIDE DEF m
    <2>6. SoFar(next(turn[m]), m + 1)
      BY <1>3, <2>2, <2>4, <2>5
    <2>7. SoFar(turn[n], n)
      BY <2>2, <2>3, <2>6
    <2>. QED BY <2>7
  <1>13. \A n \in 1..N : n \in Good
    <2> HIDE DEF Good
    <2>. QED BY <1>1, <1>12, InductionUpTo
  <1>14. N \in 1..N
    BY <1>1
  <1>15. SoFar(turn[N], N)
    BY <1>13, <1>14
  <1> DEFINE l == turn[N]
  <1>16. CutSoFar(l, N, s.val, sep.val, max)
    BY <1>15 DEF SoFar
  <1> HIDE DEF l
  <1>17. l \in Cut /\ l.branches \subseteq Held
    BY <1>16 DEF CutSoFar, Cut
  <1>18. Ended(l, sep.val, max)
    <2> SUFFICES ASSUME ~Ended(l, sep.val, max) PROVE FALSE
      OBVIOUS
    <2> DEFINE a == Len(l.rest.val)
               L == Len(s.val)
    <2>1. a <= L - N
      BY <1>16 DEF CutSoFar
    <2>2. a \in Nat
      <3>1. l.rest.val \in Text
        BY <1>17, Members, StrParts DEF Cut
      <3>. QED BY <3>1, TextFacts
    <2>3. L \in Nat /\ N = L + 1
      BY <1>1, TextFacts DEF N
    <2> HIDE DEF a, L
    <2>. QED BY <2>1, <2>2, <2>3
  <1>19. SplitsInto(Append(l.before, l.rest), s.val, sep.val, max)
    BY <1>16, <1>18, EndedSplits
  <1>20. \A b \in l.branches : Holds(b)
    BY <1>17, Members
  <1>. QED BY <1>4, <1>19, <1>20 DEF l

-----------------------------------------------------------------------------
(* Counting, affixes and the other values that operations give *)

\* What is left of a string from a position on.
LEMMA SuffixLength ==
    ASSUME NEW s \in Text, NEW a \in Int
    PROVE  Len(Slice(s, a, Len(s))) = IF Clamp(a, Len(s)) < Len(s) THEN Len(s) - Clamp(a, Len(s)) ELSE 0
  <1> DEFINE L == Len(s)
             from == Clamp(a, L)
             r == Slice(s, a, L)
  <1>1. L \in Nat
    BY TextFacts
  <1>2. r = Substr(s, from, Clamp(L, L) - from)
    BY <1>1, SliceProperties
  <1> HIDE DEF L, r
  <1>3. from \in Nat /\ Clamp(L, L) = L
    BY <1>1 DEF Clamp
  <1>4. r = Substr(s, from, L - from)
    BY <1>2, <1>3
  <1> HIDE DEF from
  <1>5. CASE from < L
    <2>1. 0 <= from /\ from < L /\ 0 < L - from /\ L - from \in Int /\ from \in Int
      BY <1>1, <1>3, <1>5
    <2>2. Len(r) = Least(from + (L - from), L) - from
      BY <1>4, <2>1, SubstrProperties DEF L
    <2>3. Least(from + (L - from), L) - from = L - from
      BY <1>1, <1>3 DEF Least
    <2>. QED BY <1>5, <2>2, <2>3 DEF r, from, L
  <1>6. CASE ~(from < L)
    <2>1. ~(0 <= from /\ from < L /\ 0 < L - from) /\ L - from \in Int /\ from \in Int
      BY <1>1, <1>3, <1>6
    <2>2. r = <<>>
      BY <1>4, <2>1, SubstrProperties DEF L
    <2>3. Len(r) = 0
      BY <2>2
    <2>. QED BY <1>6, <2>3 DEF r, from, L
  <1>. QED BY <1>5, <1>6

\* The number of occurrences Python counts in s[a:], and what the expression says.
CountedIn(region, t) ==
    IF Len(t) <= 0 THEN 1 + Len(region)
    ELSE EuclidDiv(Len(region) - Len(ReplaceEach(region, t, <<>>)), Len(t))

LEMMA CountsAgree ==
    ASSUME NEW s \in Text, NEW t \in Text, NEW a \in Int
    PROVE  /\ CountOf(s, t, a, Len(s)) \in Int
           /\ ~(t = <<>> /\ Clamp(a, Len(s)) > Len(s))
                => CountOf(s, t, a, Len(s)) = CountedIn(Slice(s, a, Len(s)), t)
  <1> DEFINE L == Len(s)
             M == Len(t)
             R == Slice(s, a, L)
             n == Len(R)
             k == Len(ReplaceEach(R, t, <<>>))
             from == Clamp(a, L)
             c == CountOf(s, t, a, L)
             d == CountedIn(R, t)
  <1>1. L \in Nat /\ M \in Nat /\ (t = <<>> <=> M = 0)
    BY TextFacts
  <1>2. n \in Nat /\ k \in Nat
    <2>1. R \in Text /\ <<>> \in Text
      BY <1>1, SliceProperties, EmptySeq DEF Text
    <2>. QED BY <2>1, ReplaceEachType, TextFacts
  <1>3. n = IF from < L THEN L - from ELSE 0
    BY SuffixLength
  <1>4. c = IF t = <<>> THEN (IF Least(Clamp(L, L), L) - from + 1 < 0 THEN 0
                              ELSE Least(Clamp(L, L), L) - from + 1)
            ELSE (n - k) \div M
    BY Zenon DEF CountOf
  <1>5. d = IF M <= 0 THEN 1 + n ELSE EuclidDiv(n - k, M)
    BY DEF CountedIn
  <1> HIDE DEF L, M, n, k, c, d
  <1>6. from \in Nat /\ Clamp(L, L) = L /\ Least(L, L) = L
    BY <1>1 DEF Clamp, Least
  <1> HIDE DEF from
  <1>7. c \in Int
    BY <1>1, <1>2, <1>4, <1>6
  <1>8. ~(t = <<>> /\ from > L) => c = d
    <2>1. CASE t = <<>>
      <3>1. M <= 0 /\ d = 1 + n
        BY <1>1, <1>5, <2>1
      <3>2. c = IF L - from + 1 < 0 THEN 0 ELSE L - from + 1
        BY <1>4, <1>6, <2>1
      <3>. QED BY <1>1, <1>3, <1>6, <2>1, <3>1, <3>2
    <2>2. CASE t # <<>>
      <3>1. c = (n - k) \div M /\ M > 0
        BY <1>1, <1>4, <2>2
      <3>2. d = EuclidDiv(n - k, M)
        BY <1>1, <1>5, <3>1
      <3>3. EuclidDiv(n - k, M) = (n - k) \div M
        BY <1>1, <1>2, <3>1 DEF EuclidDiv
      <3>. QED BY <3>1, <3>2, <3>3
    <2>. QED BY <2>1, <2>2
  <1>. QED BY <1>7, <1>8 DEF c, d, from, L

\* count gives Python's number wherever the empty string is not counted past the end.
LEMMA CountFaithful ==
    ASSUME NEW s, StrFaithful(s), NEW t, StrFaithful(t), NEW a, Faithful(a),
           NEW region, region = Sub(s, a, WholeLength(s))
    PROVE  /\ Faithful(Count(CountOf(s.val, t.val, At0(a.val), At0(WholeLength(s).val)),
                             IF Len(t.den) <= 0 THEN 1 + Len(region.den)
                             ELSE EuclidDiv(Len(region.den)
                                            - Len(ReplaceEach(region.den, t.den, <<>>)), Len(t.den)),
                             region.exact /\ t.exact /\ ~Inverted(s, t, a)))
           /\ Holds(Condition(Has(region.val, t.val), Has(region.den, t.den),
                              region.exact /\ t.exact))
  <1> DEFINE A == At0(a.val)
             c == CountOf(s.val, t.val, A, At0(WholeLength(s).val))
             d == CountedIn(region.den, t.den)
             e == region.exact /\ t.exact /\ ~Inverted(s, t, a)
  <1>1. /\ s.val \in Text /\ t.val \in Text /\ t.den \in Text /\ t.exact \in BOOLEAN
        /\ t.exact => t.den = t.val
    BY StrParts
  <1>2. At0(WholeLength(s).val) = Len(s.val) /\ Faithful(WholeLength(s))
    BY BoundsFaithful
  <1>3. StrFaithful(region) /\ region.val = Slice(s.val, A, Len(s.val))
    BY <1>2, SubFaithful
  <1>4. /\ region.val \in Text /\ region.den \in Text /\ region.exact \in BOOLEAN
        /\ region.exact => region.den = region.val
    BY <1>3, StrParts
  <1>5. A \in Int
    BY NumberParts DEF At0
  <1>6. c \in Int /\ (~Inverted(s, t, a) => c = CountedIn(region.val, t.val))
    <2> DEFINE L == Len(s.val)
    <2>1. c = CountOf(s.val, t.val, A, L)
      BY <1>2
    <2>2. Inverted(s, t, a) <=> t.val = <<>> /\ Clamp(A, L) > L
      BY DEF Inverted
    <2> HIDE DEF c, A
    <2>3. /\ CountOf(s.val, t.val, A, L) \in Int
          /\ ~(t.val = <<>> /\ Clamp(A, L) > L)
               => CountOf(s.val, t.val, A, L) = CountedIn(Slice(s.val, A, L), t.val)
      BY <1>1, <1>5, CountsAgree
    <2>. QED BY <1>3, <2>1, <2>2, <2>3
  <1>7. d \in Int
    <2> DEFINE n == Len(region.den)
               k == Len(ReplaceEach(region.den, t.den, <<>>))
               M == Len(t.den)
    <2>1. n \in Nat /\ k \in Nat /\ M \in Nat
      <3>1. <<>> \in Text
        BY DEF Text
      <3>. QED BY <1>1, <1>4, <3>1, ReplaceEachType, TextFacts
    <2>2. d = IF M <= 0 THEN 1 + n ELSE EuclidDiv(n - k, M)
      BY DEF CountedIn
    <2> HIDE DEF n, k, M, d
    <2>3. EuclidDiv(n - k, M) \in Int
      BY <2>1, QuotientsAgree
    <2>. QED BY <2>1, <2>2, <2>3
  <1>8. Faithful(Count(c, d, e))
    <2>1. e \in BOOLEAN
      BY <1>1, <1>4 DEF Inverted
    <2>2. e => c = d
      BY <1>1, <1>4, <1>6
    <2> HIDE DEF c, d, e
    <2>. QED BY <1>6, <1>7, <2>1, <2>2, CountMade
  <1>9. Holds(Condition(Has(region.val, t.val), Has(region.den, t.den), region.exact /\ t.exact))
    <2>1. Has(region.val, t.val) \in BOOLEAN /\ Has(region.den, t.den) \in BOOLEAN
      BY DEF Has
    <2>2. (region.exact /\ t.exact) \in BOOLEAN
      BY <1>1, <1>4
    <2>3. region.exact /\ t.exact => (Has(region.val, t.val) <=> Has(region.den, t.den))
      BY <1>1, <1>4
    <2>. QED BY <2>1, <2>2, <2>3, ConditionMade
  <1>. QED BY <1>8, <1>9 DEF CountedIn

\* A test on a region and an affix.
LEMMA AffixFaithful ==
    ASSUME NEW s, StrFaithful(s), NEW t, StrFaithful(t), NEW a, Faithful(a),
           NEW region, region = Sub(s, a, WholeLength(s))
    PROVE  LET e == region.exact /\ t.exact /\ ~Inverted(s, t, a)
           IN  /\ Faithful(Flag(StartsWith(region.val, t.val) /\ ~Inverted(s, t, a),
                                StartsWith(region.den, t.den), e))
               /\ Faithful(Flag(EndsWith(region.val, t.val) /\ ~Inverted(s, t, a),
                                EndsWith(region.den, t.den), e))
  <1> DEFINE e == region.exact /\ t.exact /\ ~Inverted(s, t, a)
  <1>1. Faithful(WholeLength(s))
    BY BoundsFaithful
  <1>2. StrFaithful(region)
    BY <1>1, SubFaithful
  <1>3. /\ t.exact \in BOOLEAN /\ (t.exact => t.den = t.val)
        /\ region.exact \in BOOLEAN /\ (region.exact => region.den = region.val)
        /\ Inverted(s, t, a) \in BOOLEAN
    BY <1>2, StrParts DEF Inverted
  <1>4. e \in BOOLEAN
    BY <1>3
  <1>5. /\ \A v, w : StartsWith(v, w) \in BOOLEAN
        /\ \A v, w : EndsWith(v, w) \in BOOLEAN
    BY DEF StartsWith, EndsWith, OccursAt
  <1>6. /\ e => (StartsWith(region.val, t.val) /\ ~Inverted(s, t, a) <=> StartsWith(region.den, t.den))
        /\ e => (EndsWith(region.val, t.val) /\ ~Inverted(s, t, a) <=> EndsWith(region.den, t.den))
    BY <1>3
  <1> HIDE DEF e
  <1>7. (StartsWith(region.val, t.val) /\ ~Inverted(s, t, a)) \in BOOLEAN
        /\ (EndsWith(region.val, t.val) /\ ~Inverted(s, t, a)) \in BOOLEAN
    BY <1>3, <1>5
  <1>8. Faithful(Flag(StartsWith(region.val, t.val) /\ ~Inverted(s, t, a),
                      StartsWith(region.den, t.den), e))
    BY <1>4, <1>5, <1>6, <1>7, FlagMade
  <1>9. Faithful(Flag(EndsWith(region.val, t.val) /\ ~Inverted(s, t, a),
                      EndsWith(region.den, t.den), e))
    BY <1>4, <1>5, <1>6, <1>7, FlagMade
  <1>. QED BY <1>8, <1>9 DEF e

-----------------------------------------------------------------------------
(* The invariant of the target that computes with strings *)

\* A loop over the characters of a string keeps the string and a position of its own;
\* it has given as many characters as the position says, each the one at its place.
Readings == [state : {"reading", "read"}, of : Strs, index : Value, yielded : Seq(Strs)]

ReadingInv ==
    loop.state \in {"reading", "read"} =>
        /\ loop \in Readings
        /\ Faithful(loop.index) /\ loop.index.exact
        /\ loop.index.val = 2 * Len(loop.yielded)
        /\ Len(loop.yielded) <= Len(loop.of.val)
        /\ \A i \in 1..Len(loop.yielded) : loop.yielded[i].val = <<loop.of.val[i]>>
        /\ loop.state = "read" => Len(loop.yielded) = Len(loop.of.val)

PiecesInv ==
    loop.state = "pieces" => SplitsInto(loop.parts, loop.of, loop.sep, loop.max)

\* A value of either kind.
Kept(c) == Faithful(c) \/ StrFaithful(c)

StrInv == NumberInv /\ Kept(acc) /\ ReadingInv /\ PiecesInv

LEMMA KeptParts ==
    ASSUME NEW c, Kept(c)
    PROVE  /\ c.type = "str" => StrFaithful(c)
           /\ c.type # "str" => Faithful(c)
           /\ c.type \in Types => Faithful(c)
           /\ c.exact => c.den = c.val
  <1>1. Faithful(c) => c.type \in Types /\ c.type # "str" /\ (c.exact => c.den = c.val)
    BY DEF Faithful, Value, Types
  <1>2. StrFaithful(c) => c.type = "str" /\ c.type \notin Types /\ (c.exact => c.den = c.val)
    BY DEF StrFaithful, StrValue, Types
  <1>. QED BY <1>1, <1>2 DEF Kept

\* What the loop keeps is left alone by a step that does not touch it.
LEMMA SameLoop ==
    ASSUME StrInv, UNCHANGED loop
    PROVE  RangeInv' /\ ReadingInv' /\ PiecesInv'
  BY DEF StrInv, NumberInv, RangeInv, OnTheWay, Faithful, ReadingInv, PiecesInv

LEMMA HoldsKeep ==
    ASSUME StrInv, NEW new, \A b \in new : Holds(b), branches' = branches \cup new
    PROVE  branches' \subseteq Branch /\ BranchesHold'
  BY DEF StrInv, NumberInv, BranchesHold, Branch, Holds

LEMMA OneHolds ==
    ASSUME StrInv, NEW b, Holds(b), branches' = branches \cup {b}
    PROVE  branches' \subseteq Branch /\ BranchesHold'
  BY DEF StrInv, NumberInv, BranchesHold, Branch, Holds

LEMMA SameHolds ==
    ASSUME StrInv, UNCHANGED branches
    PROVE  branches' \subseteq Branch /\ BranchesHold'
  BY DEF StrInv, NumberInv, BranchesHold, Branch

LEMMA MoreSteps ==
    ASSUME StrInv, OnString \/ Running, steps' = steps + 1
    PROVE  steps' \in 0..MaxSteps
  BY NumbersAssumption DEF StrInv, NumberInv, OnString, Running

LEMMA StrAssemble ==
    ASSUME Kept(acc'), branches' \subseteq Branch, BranchesHold', RangeInv', ReadingInv', PiecesInv',
           steps' \in 0..MaxSteps
    PROVE  StrInv'
  <1>1. acc'.type \in Types => Faithful(acc')
    BY KeptParts
  <1>2. Faithful(acc)' <=> Faithful(acc')
    BY DEF Faithful
  <1>3. Kept(acc)' <=> Kept(acc')
    BY DEF Kept, Faithful, StrFaithful
  <1>. QED BY <1>1, <1>2, <1>3 DEF StrInv, NumberInv

\* A step that gives a value.
LEMMA YieldsKeep ==
    ASSUME StrInv, OnString \/ Running, NEW c, Kept(c), Yields(c),
           branches' \subseteq Branch, BranchesHold'
    PROVE  StrInv'
  <1>1. acc' = c /\ steps' = steps + 1 /\ loop' = loop
    BY DEF Yields
  <1>. QED BY <1>1, MoreSteps, SameLoop, StrAssemble

LEMMA RaisesKeep ==
    ASSUME StrInv, OnString \/ Running, NEW e, Raises(e), branches' \subseteq Branch, BranchesHold'
    PROVE  StrInv'
  <1>1. acc' = acc /\ steps' = steps + 1 /\ loop' = loop
    BY DEF Raises
  <1>2. Kept(acc')
    BY <1>1 DEF StrInv
  <1>. QED BY <1>1, <1>2, MoreSteps, SameLoop, StrAssemble

\* The string in hand.
LEMMA InHand ==
    ASSUME StrInv, OnString
    PROVE  /\ StrFaithful(acc) /\ acc.val \in Text /\ acc.den \in Text /\ acc.exact \in BOOLEAN
           /\ acc.exact => acc.den = acc.val
  BY KeptParts, StrParts DEF StrInv, OnString

\* A step on numbers keeps the loop over a string or opens a range.
LEMMA NumberStep ==
    ASSUME StrInv, NumberNext
    PROVE  StrInv'
  <1>1. Keeps
    BY StepKeeps DEF StrInv
  <1>2. CASE loop' \in Ranges
    <2>1. loop'.state \in {"open", "done"}
      BY <1>2 DEF Ranges
    <2>2. ReadingInv' /\ PiecesInv'
      BY <2>1 DEF ReadingInv, PiecesInv
    <2>. QED BY <1>1, <2>2 DEF Keeps, StrInv, Kept, Faithful, StrFaithful
  <1>3. CASE UNCHANGED loop
    <2>1. ReadingInv' /\ PiecesInv'
      BY <1>3, SameLoop
    <2>. QED BY <1>1, <2>1 DEF Keeps, StrInv, Kept, Faithful, StrFaithful
  <1>. QED BY <1>1, <1>2, <1>3 DEF Keeps

-----------------------------------------------------------------------------
(* The operations *)

LEMMA JoiningKeeps ==
    ASSUME StrInv, Joining
    PROVE  StrInv'
  <1>1. OnString /\ UNCHANGED branches
    BY DEF Joining
  <1>2. /\ StrFaithful(acc) /\ acc.val \in Text /\ acc.den \in Text /\ acc.exact \in BOOLEAN
        /\ acc.exact => acc.den = acc.val
    BY <1>1, InHand
  <1>3. branches' \subseteq Branch /\ BranchesHold'
    BY <1>1, SameHolds
  <1>4. ASSUME NEW t \in StrOperands, Yields(Concat(acc, t)) \/ Yields(Concat(t, acc))
        PROVE  StrInv'
    <2>1. StrFaithful(Concat(acc, t)) /\ StrFaithful(Concat(t, acc))
      BY <1>2, StrOperandsFaithful, ConcatFaithful
    <2>2. Kept(Concat(acc, t)) /\ Kept(Concat(t, acc))
      BY <2>1 DEF Kept
    <2>. QED BY <1>1, <1>3, <1>4, <2>2, YieldsKeep
  <1>5. ASSUME NEW n \in {-1, 0, 1, 2},
               Yields(Str(FlattenSeq([i \in 1..n |-> acc.val]),
                          FlattenSeq([i \in 1..n |-> acc.den]), acc.exact))
        PROVE  StrInv'
    <2> DEFINE v == FlattenSeq([i \in 1..n |-> acc.val])
               d == FlattenSeq([i \in 1..n |-> acc.den])
    <2>0. n \in Int
      OBVIOUS
    <2>1. v \in Text /\ d \in Text
      BY <1>2, <2>0, RepeatType
    <2>2. acc.exact => d = v
      BY <1>2
    <2>3. Yields(Str(v, d, acc.exact))
      BY <1>5
    <2> HIDE DEF v, d
    <2>4. Kept(Str(v, d, acc.exact))
      BY <1>2, <2>1, <2>2, StrMade DEF Kept
    <2>. QED BY <1>1, <1>3, <2>3, <2>4, YieldsKeep
  <1>. QED BY <1>4, <1>5 DEF Joining

\* Order is tracked only where Python and the expression agree on it.
LEMMA OrderingFaithful ==
    ASSUME NEW s, StrFaithful(s), NEW t, StrFaithful(t)
    PROVE  Faithful(Ordering(s, t))
  <1>1. /\ s.exact \in BOOLEAN /\ (s.exact => s.den = s.val)
        /\ t.exact \in BOOLEAN /\ (t.exact => t.den = t.val)
    BY StrParts
  <1>2. \A v, w : Precedes(v, w) \in BOOLEAN
    BY DEF Precedes
  <1>3. Faithful(Flag(Precedes(s.val, t.val), Precedes(s.den, t.den), s.exact /\ t.exact))
    <2>1. (s.exact /\ t.exact) \in BOOLEAN
      BY <1>1
    <2>2. s.exact /\ t.exact => (Precedes(s.val, t.val) <=> Precedes(s.den, t.den))
      BY <1>1
    <2>. QED BY <1>2, <2>1, <2>2, FlagMade
  <1>4. Faithful(WithoutExpression("bool", Truth(Precedes(s.val, t.val))))
    BY UntrackedFaithful DEF Truth, Types
  <1>. QED BY <1>3, <1>4 DEF Ordering

LEMMA ComparingKeeps ==
    ASSUME StrInv, Comparing
    PROVE  StrInv'
  <1>1. OnString /\ UNCHANGED branches
    BY DEF Comparing
  <1>2. /\ StrFaithful(acc) /\ acc.exact \in BOOLEAN
        /\ acc.exact => acc.den = acc.val
    BY <1>1, InHand
  <1>3. branches' \subseteq Branch /\ BranchesHold'
    BY <1>1, SameHolds
  <1>4. PICK t \in StrOperands :
          LET e == acc.exact /\ t.exact
          IN  \/ Yields(Flag(Has(acc.val, t.val), Has(acc.den, t.den), e))
              \/ Yields(Flag(acc.val = t.val, acc.den = t.den, e))
              \/ Yields(Flag(acc.val # t.val, acc.den # t.den, e))
              \/ Yields(Ordering(acc, t))
              \/ Yields(Ordering(t, acc))
    BY DEF Comparing
  <1> DEFINE e == acc.exact /\ t.exact
  <1>5. StrFaithful(t) /\ t.exact \in BOOLEAN /\ (t.exact => t.den = t.val)
    BY StrOperandsFaithful, StrParts
  <1>6. e \in BOOLEAN
    BY <1>2, <1>5
  <1>7. Kept(Flag(Has(acc.val, t.val), Has(acc.den, t.den), e))
    <2>1. Has(acc.val, t.val) \in BOOLEAN /\ Has(acc.den, t.den) \in BOOLEAN
      BY DEF Has
    <2>2. e => (Has(acc.val, t.val) <=> Has(acc.den, t.den))
      BY <1>2, <1>5
    <2> HIDE DEF e
    <2>. QED BY <1>6, <2>1, <2>2, FlagMade DEF Kept
  <1>8. Kept(Flag(acc.val = t.val, acc.den = t.den, e))
    <2>1. (acc.val = t.val) \in BOOLEAN /\ (acc.den = t.den) \in BOOLEAN
      OBVIOUS
    <2>2. e => (acc.val = t.val <=> acc.den = t.den)
      BY <1>2, <1>5
    <2> HIDE DEF e
    <2>. QED BY <1>6, <2>1, <2>2, FlagMade DEF Kept
  <1>9. Kept(Flag(acc.val # t.val, acc.den # t.den, e))
    <2>1. (acc.val # t.val) \in BOOLEAN /\ (acc.den # t.den) \in BOOLEAN
      OBVIOUS
    <2>2. e => (acc.val # t.val <=> acc.den # t.den)
      BY <1>2, <1>5
    <2> HIDE DEF e
    <2>. QED BY <1>6, <2>1, <2>2, FlagMade DEF Kept
  <1>10. Kept(Ordering(acc, t)) /\ Kept(Ordering(t, acc))
    BY <1>2, <1>5, OrderingFaithful DEF Kept
  <1>. QED BY <1>1, <1>3, <1>4, <1>7, <1>8, <1>9, <1>10, YieldsKeep

LEMMA MeasuringKeeps ==
    ASSUME StrInv, Measuring
    PROVE  StrInv'
  <1>1. OnString /\ UNCHANGED branches
        /\ (Yields(Size(acc)) \/ Yields(Flag(acc.val # <<>>, acc.den # <<>>, acc.exact)))
    BY DEF Measuring
  <1>2. StrFaithful(acc) /\ acc.exact \in BOOLEAN /\ (acc.exact => acc.den = acc.val)
    BY <1>1, InHand
  <1>3. branches' \subseteq Branch /\ BranchesHold'
    BY <1>1, SameHolds
  <1>4. Kept(Size(acc))
    BY <1>2, SizeFaithful DEF Kept
  <1>5. Kept(Flag(acc.val # <<>>, acc.den # <<>>, acc.exact))
    <2>1. (acc.val # <<>>) \in BOOLEAN /\ (acc.den # <<>>) \in BOOLEAN
          /\ (acc.exact => (acc.val # <<>> <=> acc.den # <<>>))
      BY <1>2
    <2>. QED BY <1>2, <2>1, FlagMade DEF Kept
  <1>. QED BY <1>1, <1>3, <1>4, <1>5, YieldsKeep

\* One character of a string, at a position counted from either end.
LEMMA IndexingKeeps ==
    ASSUME StrInv, NEW i \in Indices, Indexing(i)
    PROVE  StrInv'
  <1> DEFINE k == FromStart(i, acc)
             v == Substr(acc.val, At0(k.val), 1)
             d == Substr(acc.den, At0(k.den), 1)
             asked == Condition(Len(acc.val) > At0(i.val), Len(acc.den) > At0(i.den),
                                acc.exact /\ i.exact)
  <1>1. /\ OnString
        /\ branches' = branches \cup {asked}
        /\ Yields(Str(v, d, acc.exact /\ i.exact)) \/ Raises("IndexError")
    BY DEF Indexing
  <1>2. /\ StrFaithful(acc) /\ acc.val \in Text /\ acc.den \in Text /\ acc.exact \in BOOLEAN
        /\ acc.exact => acc.den = acc.val
    BY <1>1, InHand
  <1>3. /\ Faithful(i) /\ i.exact \in BOOLEAN /\ (i.exact => i.den = i.val)
    BY IndicesFaithful, NumberParts
  <1>4. /\ k.val \in Int /\ k.den \in Int
        /\ acc.exact /\ i.exact => k.den = k.val
    BY <1>2, <1>3, PositionFaithful
  <1> DEFINE e == acc.exact /\ i.exact
  <1>5. e \in BOOLEAN
    BY <1>2, <1>3
  <1>6. StrFaithful(Str(v, d, e))
    <2>1. At0(k.val) \in Int /\ At0(k.den) \in Int
      BY <1>4 DEF At0
    <2>2. v \in Text /\ d \in Text
      <3>1. 1 \in Int
        OBVIOUS
      <3> HIDE DEF k
      <3>. QED BY <1>2, <2>1, <3>1, SubstrProperties
    <2>3. e => d = v
      BY <1>2, <1>4
    <2> HIDE DEF v, d, e
    <2>. QED BY <1>5, <2>2, <2>3, StrMade
  <1>7. Holds(asked)
    <2> DEFINE p == Len(acc.val) > At0(i.val)
               q == Len(acc.den) > At0(i.den)
    <2>1. p \in BOOLEAN /\ q \in BOOLEAN
      OBVIOUS
    <2>2. e => (p <=> q)
      BY <1>2, <1>3
    <2> HIDE DEF p, q, e
    <2>3. Holds(Condition(p, q, e))
      BY <1>5, <2>1, <2>2, ConditionMade
    <2>. QED BY <2>3 DEF p, q, e
  <1> HIDE DEF asked, v, d
  <1>8. branches' \subseteq Branch /\ BranchesHold'
    BY <1>1, <1>7, OneHolds
  <1>9. Kept(Str(v, d, acc.exact /\ i.exact))
    BY <1>6 DEF Kept
  <1>. QED BY <1>1, <1>8, <1>9, YieldsKeep, RaisesKeep

LEMMA SlicingKeeps ==
    ASSUME StrInv, Slicing
    PROVE  StrInv'
  <1>1. OnString /\ UNCHANGED branches
    BY DEF Slicing
  <1>2. StrFaithful(acc) /\ acc.val \in Text
    BY <1>1, InHand
  <1>3. branches' \subseteq Branch /\ BranchesHold'
    BY <1>1, SameHolds
  <1>4. ASSUME NEW a \in Indices, NEW b \in Indices,
               \/ Yields(Sub(acc, a, b))
               \/ Yields(Sub(acc, a, WholeLength(acc)))
               \/ Yields(Sub(acc, Zero, b))
        PROVE  StrInv'
    <2>1. Faithful(a) /\ Faithful(b) /\ Faithful(Zero) /\ Faithful(WholeLength(acc))
      BY <1>2, IndicesFaithful, BoundsFaithful
    <2>2. Kept(Sub(acc, a, b)) /\ Kept(Sub(acc, a, WholeLength(acc))) /\ Kept(Sub(acc, Zero, b))
      BY <1>2, <2>1, SubFaithful DEF Kept
    <2>. QED BY <1>1, <1>3, <1>4, <2>2, YieldsKeep
  <1>5. ASSUME Yields(Untracked(Reverse(acc.val)))
        PROVE  StrInv'
    <2>1. Reverse(acc.val) \in Text
      BY <1>2, ReverseType
    <2>2. Kept(Untracked(Reverse(acc.val)))
      BY <2>1, UntrackedMade DEF Kept
    <2>. QED BY <1>1, <1>3, <1>5, <2>2, YieldsKeep
  <1>. QED BY <1>4, <1>5 DEF Slicing

LEMMA FindingKeeps ==
    ASSUME StrInv, Finding
    PROVE  StrInv'
  <1>1. OnString
    BY DEF Finding
  <1>2. StrFaithful(acc)
    BY <1>1, InHand
  <1>3. PICK t \in StrOperands, a \in Indices, b \in Indices :
          \E at \in {FindIn(acc, t, a, b), FindIn(acc, t, a, WholeLength(acc)), Find(acc, t)} :
            branches' = branches \cup {at.branch} /\ Yields(at.value)
    BY DEF Finding
  <1>4. PICK at \in {FindIn(acc, t, a, b), FindIn(acc, t, a, WholeLength(acc)), Find(acc, t)} :
          branches' = branches \cup {at.branch} /\ Yields(at.value)
    BY <1>3
  <1>5. /\ StrFaithful(t) /\ Faithful(a) /\ a.exact /\ Faithful(b)
        /\ Faithful(Zero) /\ Zero.exact /\ Faithful(WholeLength(acc))
    BY <1>2, StrOperandsFaithful, IndicesFaithful, BoundsFaithful
  <1>6. Faithful(FindIn(acc, t, a, b).value) /\ Holds(FindIn(acc, t, a, b).branch)
    BY <1>2, <1>5, FindFaithful
  <1>7. /\ Faithful(FindIn(acc, t, a, WholeLength(acc)).value)
        /\ Holds(FindIn(acc, t, a, WholeLength(acc)).branch)
    BY <1>2, <1>5, FindFaithful
  <1>8. Faithful(Find(acc, t).value) /\ Holds(Find(acc, t).branch)
    BY <1>2, <1>5, FindFaithful DEF Find
  <1>9. Kept(at.value) /\ Holds(at.branch)
    BY <1>6, <1>7, <1>8 DEF Kept
  <1>10. branches' \subseteq Branch /\ BranchesHold'
    BY <1>4, <1>9, OneHolds
  <1>. QED BY <1>1, <1>4, <1>9, <1>10, YieldsKeep

LEMMA IndexingOfKeeps ==
    ASSUME StrInv, NEW t \in StrOperands, NEW a \in Indices, IndexingOf(t, a)
    PROVE  StrInv'
  <1> DEFINE end    == WholeLength(acc)
             region == Sub(acc, a, end)
             found  == Found(acc.val, t.val, At0(a.val), At0(end.val))
             c      == Count(Min(found), IndexOf(region.den, t.den, 0),
                             region.exact /\ t.exact /\ a.val = 0)
  <1>1. /\ OnString /\ UNCHANGED branches
        /\ IF found = {} THEN Raises("ValueError") ELSE Yields(c)
    BY DEF IndexingOf
  <1>2. StrFaithful(acc) /\ StrFaithful(t) /\ Faithful(a) /\ Faithful(end)
    BY <1>1, InHand, StrOperandsFaithful, IndicesFaithful, BoundsFaithful
  <1>3. branches' \subseteq Branch /\ BranchesHold'
    BY <1>1, SameHolds
  <1>4. found # {} => Faithful(c)
    BY <1>2, IndexFaithful
  <1> HIDE DEF found, c
  <1>5. CASE found = {}
    BY <1>1, <1>3, <1>5, RaisesKeep
  <1>6. CASE found # {}
    BY <1>1, <1>3, <1>4, <1>6, YieldsKeep DEF Kept
  <1>. QED BY <1>5, <1>6

LEMMA CountingKeeps ==
    ASSUME StrInv, NEW t \in StrOperands, NEW a \in Indices, Counting(t, a)
    PROVE  StrInv'
  <1> DEFINE end    == WholeLength(acc)
             region == Sub(acc, a, end)
             c      == Count(CountOf(acc.val, t.val, At0(a.val), At0(end.val)),
                             IF Len(t.den) <= 0 THEN 1 + Len(region.den)
                             ELSE EuclidDiv(Len(region.den)
                                            - Len(ReplaceEach(region.den, t.den, <<>>)), Len(t.den)),
                             region.exact /\ t.exact /\ ~Inverted(acc, t, a))
             asked  == Condition(Has(region.val, t.val), Has(region.den, t.den),
                                 region.exact /\ t.exact)
  <1>1. /\ OnString
        /\ branches' = branches \cup {asked}
        /\ Yields(c)
    BY DEF Counting
  <1>2. StrFaithful(acc) /\ StrFaithful(t) /\ Faithful(a)
    BY <1>1, InHand, StrOperandsFaithful, IndicesFaithful
  <1>3. Faithful(c) /\ Holds(asked)
    BY <1>2, CountFaithful
  <1> HIDE DEF c, asked
  <1>4. branches' \subseteq Branch /\ BranchesHold'
    BY <1>1, <1>3, OneHolds
  <1>. QED BY <1>1, <1>3, <1>4, YieldsKeep DEF Kept

LEMMA AffixesKeep ==
    ASSUME StrInv, NEW t \in StrOperands, NEW a \in Indices, Affixes(t, a)
    PROVE  StrInv'
  <1> DEFINE region == Sub(acc, a, WholeLength(acc))
             e      == region.exact /\ t.exact /\ ~Inverted(acc, t, a)
             starts == Flag(StartsWith(region.val, t.val) /\ ~Inverted(acc, t, a),
                            StartsWith(region.den, t.den), e)
             ends   == Flag(EndsWith(region.val, t.val) /\ ~Inverted(acc, t, a),
                            EndsWith(region.den, t.den), e)
  <1>1. OnString /\ UNCHANGED branches /\ (Yields(starts) \/ Yields(ends))
    BY DEF Affixes
  <1>2. StrFaithful(acc) /\ StrFaithful(t) /\ Faithful(a)
    BY <1>1, InHand, StrOperandsFaithful, IndicesFaithful
  <1>3. Faithful(starts) /\ Faithful(ends)
    BY <1>2, AffixFaithful
  <1> HIDE DEF starts, ends
  <1>4. branches' \subseteq Branch /\ BranchesHold'
    BY <1>1, SameHolds
  <1>5. Kept(starts) /\ Kept(ends)
    BY <1>3 DEF Kept
  <1>. QED BY <1>1, <1>4, <1>5, YieldsKeep

\* Replacing nothing: the expression leaves the string alone, Python puts the new string
\* between the characters.
LEMMA ReplacingAllKeeps ==
    ASSUME StrInv, NEW old \in StrOperands, NEW new \in StrOperands, ReplacingAll(old, new)
    PROVE  StrInv'
  <1> DEFINE v == PyReplace(acc.val, old.val, new.val)
             d == ReplaceEach(acc.den, old.den, new.den)
             e == acc.exact /\ old.exact /\ new.exact /\ (old.val = <<>> => new.val = <<>>)
  <1>1. OnString /\ UNCHANGED branches /\ Yields(Str(v, d, e))
    BY DEF ReplacingAll
  <1>2. /\ acc.val \in Text /\ acc.den \in Text /\ acc.exact \in BOOLEAN
        /\ acc.exact => acc.den = acc.val
    BY <1>1, InHand
  <1>3. /\ old.val \in Text /\ old.den \in Text /\ old.exact \in BOOLEAN
        /\ old.exact => old.den = old.val
        /\ new.val \in Text /\ new.den \in Text /\ new.exact \in BOOLEAN
        /\ new.exact => new.den = new.val
    BY StrOperandsFaithful, StrParts
  <1>4. v \in Text /\ d \in Text
    BY <1>2, <1>3, PyReplaceType, ReplaceEachType
  <1>5. e \in BOOLEAN
    BY <1>2, <1>3
  <1>6. ASSUME e PROVE d = v
    <2>1. d = ReplaceEach(acc.val, old.val, new.val) /\ (old.val = <<>> => new.val = <<>>)
      BY <1>2, <1>3, <1>6
    <2>2. CASE old.val = <<>>
      <3>1. v = WithBetween(acc.val, <<>>)
        BY <2>1, <2>2 DEF PyReplace
      <3>2. <<>> \in Text
        BY DEF Text
      <3>3. v = acc.val
        BY <1>2, <3>1, <3>2, WithBetweenProperties
      <3>4. ReplaceEach(acc.val, old.val, new.val) = acc.val
        BY <1>2, <1>3, <2>2, ReplaceEachType
      <3>. QED BY <2>1, <3>3, <3>4
    <2>3. CASE old.val # <<>>
      BY <2>1, <2>3 DEF PyReplace
    <2>. QED BY <2>2, <2>3
  <1> HIDE DEF v, d, e
  <1>7. Kept(Str(v, d, e))
    BY <1>4, <1>5, <1>6, StrMade DEF Kept
  <1>8. branches' \subseteq Branch /\ BranchesHold'
    BY <1>1, SameHolds
  <1>. QED BY <1>1, <1>7, <1>8, YieldsKeep

LEMMA ReplacingSomeKeeps ==
    ASSUME StrInv, NEW old \in StrOperands, NEW new \in StrOperands, NEW count \in 0..2,
           ReplacingSome(old, new, count)
    PROVE  StrInv'
  <1> DEFINE loopEnd == BoundedReplace(acc, old, new, count)
             c       == Verified(loopEnd.value, ReplaceFirst(acc.val, old.val, new.val, count))
  <1>1. OnString /\ branches' = branches \cup loopEnd.branches /\ Yields(c)
    BY DEF ReplacingSome
  <1>2. /\ StrFaithful(acc) /\ acc.val \in Text /\ StrFaithful(old) /\ StrFaithful(new)
        /\ old.val \in Text /\ new.val \in Text /\ count \in Nat
    BY <1>1, InHand, StrOperandsFaithful, StrParts
  <1>3. StrFaithful(loopEnd.value) /\ \A b \in loopEnd.branches : Holds(b)
    BY <1>2, BoundedReplaceFaithful
  <1>4. ReplaceFirst(acc.val, old.val, new.val, count) \in Text
    BY <1>2, ReplaceFirstType
  <1>5. Kept(c)
    BY <1>3, <1>4, VerifiedFaithful DEF Kept
  <1>6. branches' \subseteq Branch /\ BranchesHold'
    BY <1>1, <1>3, HoldsKeep
  <1> HIDE DEF c
  <1>. QED BY <1>1, <1>5, <1>6, YieldsKeep

LEMMA StrippingKeeps ==
    ASSUME StrInv, Stripping
    PROVE  StrInv'
  <1>1. OnString /\ UNCHANGED branches
    BY DEF Stripping
  <1>2. StrFaithful(acc) /\ acc.val \in Text
    BY <1>1, InHand
  <1>3. branches' \subseteq Branch /\ BranchesHold'
    BY <1>1, SameHolds
  <1>4. PICK chars \in {{}, {Minus}, {Space, Minus}} :
          \/ Yields(LStrip(acc, chars))
          \/ Yields(RStrip(acc, chars))
          \/ Yields(Verified(LStrip(RStrip(acc, chars), chars),
                             StripLeft(StripRight(acc.val, Concretely(chars)), Concretely(chars))))
    BY DEF Stripping
  <1>5. StrFaithful(LStrip(acc, chars)) /\ StrFaithful(RStrip(acc, chars))
    BY <1>2, StripsFaithful
  <1>6. StrFaithful(LStrip(RStrip(acc, chars), chars))
    BY <1>5, StripsFaithful
  <1>7. StripLeft(StripRight(acc.val, Concretely(chars)), Concretely(chars)) \in Text
    BY <1>2, StripTypes
  <1>8. StrFaithful(Verified(LStrip(RStrip(acc, chars), chars),
                             StripLeft(StripRight(acc.val, Concretely(chars)), Concretely(chars))))
    BY <1>6, <1>7, VerifiedFaithful
  <1>. QED BY <1>1, <1>3, <1>4, <1>5, <1>8, YieldsKeep DEF Kept

LEMMA RecasingKeeps ==
    ASSUME StrInv, Recasing
    PROVE  StrInv'
  <1>1. OnString /\ UNCHANGED branches
    BY DEF Recasing
  <1>2. /\ acc.val \in Text /\ acc.den \in Text /\ acc.exact \in BOOLEAN
        /\ acc.exact => acc.den = acc.val
    BY <1>1, InHand
  <1>3. branches' \subseteq Branch /\ BranchesHold'
    BY <1>1, SameHolds
  <1>4. PyLower(acc.val) \in Text /\ Lower(acc.den) \in Text
        /\ PyUpper(acc.val) \in Text /\ Upper(acc.den) \in Text
    BY <1>2, CaseType, PyCaseType
  <1>a. Ascii(acc.val) \in BOOLEAN
        /\ (Ascii(acc.val) => PyLower(acc.val) = Lower(acc.val)
                              /\ PyUpper(acc.val) = Upper(acc.val))
    BY DEF Ascii, Lacks, PyLower, PyUpper
  <1>5. /\ Kept(Str(PyLower(acc.val), Lower(acc.den), acc.exact /\ Ascii(acc.val)))
        /\ Kept(Str(PyUpper(acc.val), Upper(acc.den), acc.exact /\ Ascii(acc.val)))
    BY <1>2, <1>4, <1>a, StrMade DEF Kept
  <1>6. Kept(Untracked(PyLower(acc.val)))
    BY <1>4, UntrackedMade DEF Kept
  <1>. QED BY <1>1, <1>3, <1>5, <1>6, YieldsKeep DEF Recasing

LEMMA ClassifyingKeeps ==
    ASSUME StrInv, Classifying
    PROVE  StrInv'
  <1>1. OnString /\ UNCHANGED branches
    BY DEF Classifying
  <1>2. acc.exact \in BOOLEAN /\ (acc.exact => acc.den = acc.val)
    BY <1>1, InHand
  <1>3. branches' \subseteq Branch /\ BranchesHold'
    BY <1>1, SameHolds
  <1>4. \A s, class : All(s, class) \in BOOLEAN /\ IsCase(s, class) \in BOOLEAN
    BY DEF All, IsCase
  <1>5. ASSUME NEW python, NEW smt \in SUBSET python
        PROVE  Kept(InClass(acc, python, smt))
    <2> DEFINE e == acc.exact /\ Lacks(acc.val, python \ smt)
    <2>1. Lacks(acc.val, python \ smt) \in BOOLEAN
          /\ (Lacks(acc.val, python \ smt) => (All(acc.val, python) <=> All(acc.val, smt)))
      BY <1>5, Zenon DEF Lacks, All
    <2>2. All(acc.val, python) \in BOOLEAN /\ All(acc.den, smt) \in BOOLEAN /\ e \in BOOLEAN
          /\ (e => (All(acc.val, python) <=> All(acc.den, smt)))
      BY <1>2, <1>4, <2>1
    <2>3. InClass(acc, python, smt) = Flag(All(acc.val, python), All(acc.den, smt), e)
      BY DEF InClass
    <2> HIDE DEF e
    <2>. QED BY <2>2, <2>3, FlagMade DEF Kept
  <1>a. /\ Letter \subseteq PyLetter /\ Digit \subseteq PyDigit /\ Digit \subseteq PyNumeric
        /\ Letter \cup Digit \subseteq PyAlphanumeric
    BY DEF PyLetter, PyDigit, PyNumeric, PyAlphanumeric
  <1>b. /\ Kept(InClass(acc, PyLetter, Letter))
        /\ Kept(InClass(acc, PyAlphanumeric, Letter \cup Digit))
        /\ \A digits \in {PyDigit, PyNumeric} : Kept(InClass(acc, digits, Digit))
    BY <1>5, <1>a
  <1>6. ASSUME NEW python, NEW smt PROVE Kept(Cased(acc, python, smt))
    <2> DEFINE p == IsCase(acc.val, python)
               q == All(acc.den, smt)
               r == All(acc.val, smt)
               e == acc.exact /\ p = r
    <2>1. p \in BOOLEAN /\ q \in BOOLEAN /\ r \in BOOLEAN
      BY <1>4
    <2>2. acc.exact => q = r
      BY <1>2
    <2>3. Cased(acc, python, smt) = Flag(p, q, e)
      BY DEF Cased
    <2> HIDE DEF p, q, r
    <2>4. e \in BOOLEAN /\ (e => (p <=> q))
      BY <1>2, <2>1, <2>2
    <2> HIDE DEF e
    <2>5. Faithful(Flag(p, q, e))
      BY <2>1, <2>4, FlagMade
    <2>. QED BY <2>3, <2>5 DEF Kept
  <1>. QED BY <1>1, <1>3, <1>b, <1>6, YieldsKeep DEF Classifying

LEMMA ReadingIntKeeps ==
    ASSUME StrInv, ReadingInt
    PROVE  StrInv'
  <1>1. /\ OnString /\ branches' = branches \cup {IntegerTest(acc)}
        /\ Yields(StrToIntValue(acc)) \/ Raises("ValueError")
    BY DEF ReadingInt
  <1>2. Kept(StrToIntValue(acc)) /\ Holds(IntegerTest(acc))
    BY <1>1, InHand, StrToIntFaithful, IntegerTestHolds DEF Kept
  <1>3. branches' \subseteq Branch /\ BranchesHold'
    BY <1>1, <1>2, OneHolds
  <1>. QED BY <1>1, <1>2, <1>3, YieldsKeep, RaisesKeep

LEMMA WritingIntKeeps ==
    ASSUME StrInv, WritingInt
    PROVE  StrInv'
  <1> DEFINE text(h) == IF h < 0 THEN <<Minus>> \o Numeral(-At0(h)) ELSE Numeral(At0(h))
  <1>1. /\ Running /\ acc.type = "int" /\ UNCHANGED branches
        /\ Yields(Str(text(acc.val), text(acc.den), acc.exact))
    BY DEF WritingInt
  <1>2. Faithful(acc)
    BY <1>1, KeptParts DEF StrInv
  <1>3. /\ acc.val \in Int /\ acc.den \in Int /\ acc.exact \in BOOLEAN
        /\ acc.exact => acc.den = acc.val
    BY <1>2, NumberParts
  <1>4. ASSUME NEW h \in Int PROVE text(h) \in Text
    <2>1. At0(h) \in Int /\ -At0(h) \in Int
      BY DEF At0
    <2>2. \A n \in Int : Numeral(n) \in Text
      BY DEF Numeral, Text
    <2>3. <<Minus>> \in Text
      BY DEF Minus, Text
    <2>4. <<Minus>> \o Numeral(-At0(h)) \in Text /\ Numeral(At0(h)) \in Text
      BY <2>1, <2>2, <2>3, TextsJoin
    <2>. QED BY <2>4
  <1> DEFINE v == text(acc.val)
             d == text(acc.den)
  <1>5. v \in Text /\ d \in Text /\ (acc.exact => d = v)
    BY <1>3, <1>4
  <1>6. Yields(Str(v, d, acc.exact))
    BY <1>1
  <1> HIDE DEF v, d
  <1>7. Kept(Str(v, d, acc.exact))
    BY <1>3, <1>5, StrMade DEF Kept
  <1>8. branches' \subseteq Branch /\ BranchesHold'
    BY <1>1, SameHolds
  <1>. QED BY <1>1, <1>6, <1>7, <1>8, YieldsKeep

LEMMA IntMeetsStringKeeps ==
    ASSUME StrInv, NEW t \in StrOperands, IntMeetsString(t)
    PROVE  StrInv'
  <1>1. /\ Running /\ branches' = branches \cup {IntegerTest(t)}
        /\ Yields(Plain("bool", 0)) \/ Raises("ValueError")
    BY DEF IntMeetsString
  <1>2. Kept(Plain("bool", 0))
    BY UntrackedFaithful DEF Types, Kept
  <1>3. branches' \subseteq Branch /\ BranchesHold'
    BY <1>1, StrOperandsFaithful, IntegerTestHolds, OneHolds
  <1>. QED BY <1>1, <1>2, <1>3, YieldsKeep, RaisesKeep

LEMMA StrDecideKeeps ==
    ASSUME StrInv, StrDecide
    PROVE  StrInv'
  <1> DEFINE asked == Condition(acc.val # <<>>, acc.den # <<>>, acc.exact)
  <1>1. /\ OnString /\ branches' = branches \cup {asked}
        /\ steps' = steps + 1 /\ acc' = acc /\ loop' = loop
    BY DEF StrDecide
  <1>2. acc.exact \in BOOLEAN /\ (acc.exact => acc.den = acc.val)
    BY <1>1, InHand
  <1>3. Holds(asked)
    <2>1. (acc.val # <<>>) \in BOOLEAN /\ (acc.den # <<>>) \in BOOLEAN
          /\ (acc.exact => (acc.val # <<>> <=> acc.den # <<>>))
      BY <1>2
    <2>. QED BY <1>2, <2>1, ConditionMade
  <1> HIDE DEF asked
  <1>4. branches' \subseteq Branch /\ BranchesHold'
    BY <1>1, <1>3, OneHolds
  <1>5. Kept(acc')
    BY <1>1 DEF StrInv
  <1>. QED BY <1>1, <1>4, <1>5, MoreSteps, SameLoop, StrAssemble

LEMMA IntoPiecesKeeps ==
    ASSUME StrInv, NEW sep \in StrOperands, NEW max \in {-1, 0, 1}, IntoPieces(sep, max)
    PROVE  StrInv'
  <1> DEFINE r == Split(acc, sep, max)
  <1>1. OnString
    BY DEF IntoPieces
  <1>2. CASE sep.val = <<>>
    <2>1. Raises("ValueError") /\ UNCHANGED branches
      BY <1>2 DEF IntoPieces
    <2>. QED BY <1>1, <2>1, SameHolds, RaisesKeep
  <1>3. CASE sep.val # <<>>
    <2>1. /\ branches' = branches \cup r.branches
          /\ loop' = [state |-> "pieces", of |-> acc.val, sep |-> sep.val, max |-> max,
                      parts |-> r.parts]
          /\ \E i \in 1..Len(r.parts) : acc' = r.parts[i]
          /\ steps' = steps + 1
      BY <1>3 DEF IntoPieces
    <2>2. StrFaithful(acc) /\ StrFaithful(sep) /\ max \in Int
      BY <1>1, InHand, StrOperandsFaithful
    <2>3. /\ SplitsInto(r.parts, acc.val, sep.val, max)
          /\ \A b \in r.branches : Holds(b)
      BY <1>3, <2>2, SplitProperties
    <2> HIDE DEF r
    <2>4. branches' \subseteq Branch /\ BranchesHold'
      BY <2>1, <2>3, HoldsKeep
    <2>5. Kept(acc')
      <3>1. r.parts \in Seq(Strs)
        BY <2>3 DEF SplitsInto
      <3>2. PICK i \in 1..Len(r.parts) : acc' = r.parts[i]
        BY <2>1
      <3>3. acc' \in Strs
        BY <3>1, <3>2, ElementOfSeq
      <3>. QED BY <3>3, Members DEF Kept
    <2>6. /\ loop'.state = "pieces" /\ loop'.parts = r.parts /\ loop'.of = acc.val
          /\ loop'.sep = sep.val /\ loop'.max = max
      BY <2>1
    <2>7. RangeInv' /\ ReadingInv'
      BY <2>6 DEF RangeInv, ReadingInv
    <2>8. PiecesInv'
      <3>1. SplitsInto(loop'.parts, loop'.of, loop'.sep, loop'.max)
        BY <2>3, <2>6
      <3>. QED BY <3>1 DEF PiecesInv, SplitsInto, Joint
    <2>. QED BY <1>1, <2>1, <2>4, <2>5, <2>7, <2>8, MoreSteps, StrAssemble
  <1>. QED BY <1>2, <1>3

LEMMA OpenCharactersKeeps ==
    ASSUME StrInv, OpenCharacters
    PROVE  StrInv'
  <1>1. /\ OnString /\ acc' = acc /\ branches' = branches /\ steps' = steps + 1
        /\ loop' = [state |-> "reading", of |-> acc, index |-> Zero, yielded |-> <<>>]
    BY DEF OpenCharacters
  <1>2. /\ loop'.state = "reading" /\ loop'.of = acc /\ loop'.index = Zero /\ loop'.yielded = <<>>
    BY <1>1
  <1>3. StrFaithful(acc) /\ acc.val \in Text
    BY <1>1, InHand
  <1>4. Faithful(Zero) /\ Zero.exact /\ Zero.val = 0
    BY <1>3, BoundsFaithful
  <1>5. loop' \in Readings
    <2>1. acc \in Strs /\ Zero \in Value /\ <<>> \in Seq(Strs)
      BY <1>3, <1>4, Members, EmptySeq DEF Faithful
    <2>. QED BY <1>1, <2>1 DEF Readings
  <1>6. Len(loop'.yielded) = 0
    BY <1>2, EmptySeq
  <1>7. Len(loop'.of.val) \in Nat
    BY <1>2, <1>3, TextFacts
  <1>8. ReadingInv'
    <2> DEFINE a == Len(loop'.yielded)
               L == Len(loop'.of.val)
               x == loop'.index.val
    <2>1. a = 0 /\ L \in Nat /\ x = 0
      BY <1>2, <1>4, <1>6, <1>7
    <2> HIDE DEF a, L, x
    <2>2. a <= L /\ x = 2 * a /\ 1..a = {}
      BY <2>1
    <2>3. /\ Faithful(loop'.index) /\ loop'.index.exact
          /\ loop'.index.val = 2 * Len(loop'.yielded)
          /\ Len(loop'.yielded) <= Len(loop'.of.val)
          /\ 1..Len(loop'.yielded) = {}
      BY <1>2, <1>4, <2>2 DEF a, L, x
    <2>. QED BY <1>2, <1>5, <2>3 DEF ReadingInv, Faithful
  <1>9. RangeInv' /\ PiecesInv'
    BY <1>2 DEF RangeInv, PiecesInv
  <1>10. branches' \subseteq Branch /\ BranchesHold'
    BY <1>1, SameHolds
  <1>11. Kept(acc')
    BY <1>1 DEF StrInv
  <1>. QED BY <1>1, <1>8, <1>9, <1>10, <1>11, MoreSteps, StrAssemble

\* The character at a position.
LEMMA OneAt ==
    ASSUME NEW s \in Text, NEW k \in Nat, k < Len(s)
    PROVE  Substr(s, k, 1) = <<s[k + 1]>>
  <1> DEFINE L == Len(s)
             c == Substr(s, k, 1)
             d == <<s[k + 1]>>
  <1>1. L \in Nat /\ k \in Int /\ 1 \in Int
    BY TextFacts
  <1>2. Least(k + 1, L) - k = 1
    <2> HIDE DEF L
    <2>1. k < L
      BY DEF L
    <2>. QED BY <1>1, <2>1 DEF Least
  <1>3. /\ c \in Text /\ Len(c) = Least(k + 1, L) - k
        /\ \A n \in 1..Least(k + 1, L) - k : c[n] = s[k + n]
    <2>1. 0 <= k /\ k < Len(s) /\ 0 < 1
      OBVIOUS
    <2>. QED BY <1>1, <2>1, SubstrProperties
  <1>4. Len(c) = 1 /\ c[1] = s[k + 1]
    <2>1. 1 \in 1..1
      OBVIOUS
    <2>. QED BY <1>2, <1>3, <2>1
  <1>5. d \in Text /\ Len(d) = 1 /\ d[1] = s[k + 1]
    <2>1. k + 1 \in 1..L
      <3>1. k < L
        OBVIOUS
      <3> HIDE DEF L
      <3>. QED BY <1>1, <3>1
    <2>2. d \in Text
      BY <2>1, OneCharacter
    <2>. QED BY <2>2
  <1> HIDE DEF c, d
  <1>6. \A n \in 1..1 : n = 1
    OBVIOUS
  <1>7. \A n \in 1..Len(c) : c[n] = d[n]
    BY <1>4, <1>5, <1>6
  <1>8. c = d
    BY <1>3, <1>4, <1>5, <1>7, SeqEqual DEF Text
  <1>. QED BY <1>8 DEF c, d

LEMMA NextCharacterKeeps ==
    ASSUME StrInv, NextCharacter
    PROVE  StrInv'
  <1> DEFINE s    == loop.of
             i    == loop.index
             Y    == loop.yielded
             K    == Len(Y)
             L    == Len(s.val)
             more == Condition(i.val < 2 * Len(s.val), i.den < 2 * Len(s.den), s.exact)
             c    == Str(Substr(s.val, At0(i.val), 1), Substr(s.den, At0(i.den), 1), s.exact)
             next == Plus(i, Count(1, 1, TRUE))
  <1>1. /\ loop.state = "reading"
        /\ branches' = branches \cup {more}
        /\ loop' = IF more.taken # 0
                   THEN [loop EXCEPT !.yielded = Append(Y, c), !.index = next]
                   ELSE [loop EXCEPT !.state = "read"]
        /\ acc' = acc /\ steps' = steps
    BY DEF NextCharacter
  <1>2. /\ loop \in Readings /\ Faithful(i) /\ i.exact
        /\ i.val = 2 * K /\ K <= L
        /\ \A n \in 1..K : Y[n].val = <<s.val[n]>>
    BY <1>1 DEF StrInv, ReadingInv
  <1>3. /\ s \in Strs /\ StrFaithful(s) /\ Y \in Seq(Strs)
        /\ s.val \in Text /\ s.den \in Text /\ s.exact \in BOOLEAN
        /\ s.exact => s.den = s.val
    BY <1>2, Members, StrParts DEF Readings
  <1>4. /\ i.val \in Int /\ i.den = i.val
    BY <1>2, NumberParts
  <1>5. K \in Nat /\ L \in Nat
    BY <1>3, TextFacts, LenProperties
  <1>6. Holds(more)
    <2> DEFINE p == i.val < 2 * Len(s.val)
               q == i.den < 2 * Len(s.den)
    <2>1. p \in BOOLEAN /\ q \in BOOLEAN /\ (s.exact => (p <=> q))
      BY <1>3, <1>4
    <2> HIDE DEF p, q
    <2>2. Holds(Condition(p, q, s.exact))
      BY <1>3, <2>1, ConditionMade
    <2>. QED BY <2>2 DEF p, q
  <1>7. more.taken # 0 <=> K < L
    <2> DEFINE p == i.val < 2 * L
               q == i.den < 2 * Len(s.den)
    <2>1. p <=> K < L
      <3> DEFINE x == i.val
      <3>1. x = 2 * K
        BY <1>2
      <3>2. p <=> x < 2 * L
        OBVIOUS
      <3> HIDE DEF K, L, x, p
      <3>. QED BY <1>5, <3>1, <3>2
    <2>2. more = Condition(p, q, s.exact)
      OBVIOUS
    <2> HIDE DEF more, p, q
    <2>3. more.taken # 0 <=> p
      BY <2>2 DEF Condition, Registered, Flag, Concolic, Truth
    <2>. QED BY <2>1, <2>3
  <1>8. branches' \subseteq Branch /\ BranchesHold'
    <2> HIDE DEF more
    <2>. QED BY <1>1, <1>6, OneHolds
  <1>9. /\ StrFaithful(c) /\ (K < L => c.val = <<s.val[K + 1]>>)
    <2>1. At0(i.val) = K /\ At0(i.den) = K
      <3>1. i.val = 2 * K /\ i.den = 2 * K
        BY <1>2, <1>4
      <3> HIDE DEF K
      <3>2. (2 * K) \div 2 = K
        BY <1>5
      <3>. QED BY <3>1, <3>2, Zenon DEF At0
    <2> DEFINE v == Substr(s.val, K, 1)
               d == Substr(s.den, K, 1)
    <2>2. c = Str(v, d, s.exact)
      BY <2>1
    <2>3. K \in Int /\ 1 \in Int
      BY <1>5
    <2>4. K < L => v = <<s.val[K + 1]>>
      <3> HIDE DEF K
      <3>. QED BY <1>3, <1>5, OneAt
    <2> HIDE DEF K
    <2>5. v \in Text /\ d \in Text
      BY <1>3, <2>3, SubstrProperties
    <2>6. s.exact => d = v
      BY <1>3
    <2> HIDE DEF v, d, c
    <2>7. StrFaithful(Str(v, d, s.exact))
      BY <1>3, <2>5, <2>6, StrMade
    <2>8. Str(v, d, s.exact).val = v
      BY DEF Str
    <2>. QED BY <2>2, <2>4, <2>7, <2>8
  <1>10. Faithful(next) /\ next.exact /\ next.val = 2 * (K + 1)
    <2> DEFINE one == Count(1, 1, TRUE)
    <2>1. Faithful(one) /\ one.val = 2 /\ one.exact
      <3>1. 1 \in Int /\ TRUE \in BOOLEAN
        OBVIOUS
      <3>2. Faithful(one)
        BY <3>1, CountMade
      <3>3. one.val = 2 * 1 /\ one.exact
        BY DEF Count, Concolic
      <3>4. 2 * 1 = 2
        OBVIOUS
      <3>. QED BY <3>2, <3>3, <3>4, Zenon
    <2> HIDE DEF one
    <2>2. Faithful(Plus(i, one)) /\ Plus(i, one).val = i.val + one.val
      BY <1>2, <2>1, PlusFaithful
    <2>3. Plus(i, one).exact = (i.exact /\ one.exact)
      BY DEF Plus, Concolic
    <2>4. i.val + one.val = 2 * (K + 1)
      <3> HIDE DEF K
      <3>. QED BY <1>2, <1>5, <2>1
    <2>. QED BY <1>2, <2>1, <2>2, <2>3, <2>4 DEF one
  <1> HIDE DEF more, c, next
  <1>11. loop'.state \in {"reading", "read"} => RangeInv' /\ PiecesInv'
    BY DEF RangeInv, PiecesInv
  <1>12. CASE more.taken # 0
    <2>1. loop' = [loop EXCEPT !.yielded = Append(Y, c), !.index = next]
      BY <1>1, <1>12
    <2>2. /\ Append(Y, c) \in Seq(Strs) /\ Len(Append(Y, c)) = K + 1
          /\ \A n \in 1..K : Append(Y, c)[n] = Y[n]
          /\ Append(Y, c)[K + 1] = c
      BY <1>3, <1>9, Members, AppendProperties
    <2>3. next \in Value
      BY <1>10 DEF Faithful
    <2>4. /\ loop' \in Readings /\ loop'.state = "reading" /\ loop'.of = s
          /\ loop'.index = next /\ loop'.yielded = Append(Y, c)
      BY <1>1, <1>2, <2>1, <2>2, <2>3 DEF Readings
    <2>5. K < L
      BY <1>7, <1>12
    <2> DEFINE Z == Append(Y, c)
    <2>6. ASSUME NEW n \in 1..K + 1 PROVE Z[n].val = <<s.val[n]>>
      <3> HIDE DEF K, L
      <3>1. CASE n = K + 1
        BY <1>9, <2>2, <2>5, <3>1
      <3>2. CASE n # K + 1
        <4>1. n \in 1..K
          BY <1>5, <3>2
        <4>. QED BY <1>2, <2>2, <4>1 DEF K
      <3>. QED BY <3>1, <3>2
    <2>7. Len(Z) = K + 1
      BY <2>2
    <2>8. K + 1 <= L
      <3> HIDE DEF K, L
      <3>. QED BY <1>5, <2>5
    <2> HIDE DEF Z
    <2>9. /\ Faithful(loop'.index) /\ loop'.index.exact
          /\ loop'.index.val = 2 * Len(loop'.yielded)
          /\ Len(loop'.yielded) <= Len(loop'.of.val)
          /\ \A n \in 1..Len(loop'.yielded) : loop'.yielded[n].val = <<loop'.of.val[n]>>
      <3>1. loop'.yielded = Z
        BY <2>4 DEF Z
      <3>2. Len(loop'.yielded) = K + 1 /\ Len(loop'.of.val) = L
        BY <2>4, <2>7, <3>1
      <3> HIDE DEF K, L
      <3>. QED BY <1>10, <2>4, <2>6, <2>8, <3>1, <3>2
    <2>10. ReadingInv'
      BY <2>4, <2>9 DEF ReadingInv, Faithful
    <2>. QED BY <1>1, <1>8, <1>11, <2>4, <2>10, StrAssemble DEF StrInv, NumberInv
  <1>13. CASE more.taken = 0
    <2>1. loop' = [loop EXCEPT !.state = "read"]
      BY <1>1, <1>13
    <2>2. /\ loop' \in Readings /\ loop'.state = "read" /\ loop'.of = s
          /\ loop'.index = i /\ loop'.yielded = Y
      BY <1>2, <2>1 DEF Readings
    <2>3. K = L
      <3>1. ~(K < L) /\ K <= L
        BY <1>2, <1>7, <1>13
      <3> HIDE DEF K, L
      <3>. QED BY <1>5, <3>1
    <2>4. ReadingInv'
      BY <1>2, <2>2, <2>3 DEF ReadingInv, Faithful
    <2>. QED BY <1>1, <1>8, <1>11, <2>2, <2>4, StrAssemble DEF StrInv, NumberInv
  <1>. QED BY <1>12, <1>13

LEMMA StrStep ==
    ASSUME StrInv, StrNext
    PROVE  StrInv'
  <1>1. CASE NumberNext
    BY <1>1, NumberStep
  <1>2. CASE NextCharacter
    BY <1>2, NextCharacterKeeps
  <1>3. ASSUME NEW t \in StrOperands, IntMeetsString(t)
        PROVE  StrInv'
    BY <1>3, IntMeetsStringKeeps
  <1>4. ASSUME NEW t \in StrOperands, NEW a \in Indices,
               IndexingOf(t, a) \/ Counting(t, a) \/ Affixes(t, a)
        PROVE  StrInv'
    BY <1>4, IndexingOfKeeps, CountingKeeps, AffixesKeep
  <1>5. ASSUME NEW t \in StrOperands, NEW u \in StrOperands, ReplacingAll(t, u)
        PROVE  StrInv'
    BY <1>5, ReplacingAllKeeps
  <1>6. ASSUME NEW t \in StrOperands, NEW u \in StrOperands, NEW n \in 0..2, ReplacingSome(t, u, n)
        PROVE  StrInv'
    BY <1>6, ReplacingSomeKeeps
  <1>7. ASSUME NEW t \in StrOperands, NEW max \in {-1, 0, 1}, IntoPieces(t, max)
        PROVE  StrInv'
    BY <1>7, IntoPiecesKeeps
  <1>8. ASSUME NEW i \in Indices, Indexing(i)
        PROVE  StrInv'
    BY <1>8, IndexingKeeps
  <1>9. CASE Joining \/ Comparing \/ Measuring \/ Slicing \/ Finding
    BY <1>9, JoiningKeeps, ComparingKeeps, MeasuringKeeps, SlicingKeeps, FindingKeeps
  <1>10. CASE Stripping \/ Recasing \/ Classifying \/ ReadingInt \/ WritingInt
    BY <1>10, StrippingKeeps, RecasingKeeps, ClassifyingKeeps, ReadingIntKeeps, WritingIntKeeps
  <1>11. CASE StrDecide \/ OpenCharacters
    BY <1>11, StrDecideKeeps, OpenCharactersKeeps
  <1>. QED BY <1>1, <1>2, <1>3, <1>4, <1>5, <1>6, <1>7, <1>8, <1>9, <1>10, <1>11 DEF StrNext

-----------------------------------------------------------------------------
\* Every execution of the target on numbers and strings, for every set of inputs and of
\* constants: the value in hand is a number or a string whose expression denotes it, every
\* registered condition holds of its input, and a loop over a range, over the characters
\* of a string or into pieces stands where Python's would (core/int.py, core/float.py,
\* core/bool.py, core/concolic_range.py, core/str/).
THEOREM StringsInvariant == StrSpec => []StrInv
  <1>1. StrInit => StrInv
    <2> SUFFICES ASSUME StrInit PROVE StrInv
      OBVIOUS
    <2>1. /\ branches = {} /\ error = "none" /\ loop = NoLoop /\ steps = 0
      BY DEF StrInit
    <2>2. ASSUME NEW t \in {"int", "float"}, NEW v \in Inputs, acc = Concolic(t, v, v, TRUE)
          PROVE  StrInv
      <3>2. NumberInv /\ acc \in Value
        BY <2>1, <2>2, NumberInit
      <3>3. acc.den = acc.val
        BY <2>2 DEF Concolic
      <3>. QED BY <2>1, <3>2, <3>3 DEF StrInv, Kept, Faithful, ReadingInv, PiecesInv, NoLoop
    <2>3. ASSUME NEW v \in Texts, acc = Str(v, v, TRUE)
          PROVE  StrInv
      <3>1. acc = Str(v, v, TRUE)
        BY <2>3
      <3>2. v \in Text
        <4>1. Nat \subseteq Int
          OBVIOUS
        <4>2. Seq(Nat) \subseteq Seq(Int)
          BY <4>1, SeqMonotonic
        <4>. QED BY <4>2, StringsAssumption DEF Text
      <3>3. Kept(acc)
        BY <3>1, <3>2, UntrackedMade DEF Kept, Untracked
      <3>4. acc.type = "str"
        BY <3>1 DEF Str
      <3>5. branches \subseteq Branch /\ BranchesHold
        BY <2>1 DEF BranchesHold
      <3>6. RangeInv /\ ReadingInv /\ PiecesInv
        BY <2>1 DEF RangeInv, ReadingInv, PiecesInv, NoLoop
      <3>7. steps \in 0..MaxSteps
        BY <2>1, NumbersAssumption
      <3>. QED BY <3>3, <3>4, <3>5, <3>6, <3>7 DEF StrInv, NumberInv, Types
    <2>. QED BY <2>2, <2>3 DEF StrInit
  <1>2. StrInv /\ [StrNext]_vars => StrInv'
    <2> SUFFICES ASSUME StrInv, [StrNext]_vars PROVE StrInv'
      OBVIOUS
    <2>1. CASE StrNext
      BY <2>1, StrStep
    <2>2. CASE UNCHANGED vars
      <3>1. RangeInv' /\ ReadingInv' /\ PiecesInv'
        BY <2>2, SameLoop DEF vars
      <3>2. branches' \subseteq Branch /\ BranchesHold'
        BY <2>2, SameHolds DEF vars
      <3>3. Kept(acc') /\ steps' \in 0..MaxSteps
        BY <2>2 DEF vars, StrInv, NumberInv
      <3>. QED BY <3>1, <3>2, <3>3, StrAssemble
    <2>. QED BY <2>1, <2>2
  <1>. QED BY <1>1, <1>2, PTL DEF StrSpec

\* The value the target computed, number or string, is the one its expression denotes.
THEOREM StringsCoherent == StrSpec => []Coherent
  <1>1. StrInv => Coherent
    BY KeptParts DEF StrInv, Coherent
  <1>. QED BY <1>1, StringsInvariant, PTL

\* The path condition holds of the input that took the path, whatever was asked of
\* numbers and strings.
THEOREM StringConditionsHold == StrSpec => []BranchesHold
  <1>1. StrInv => BranchesHold
    BY DEF StrInv, NumberInv
  <1>. QED BY <1>1, StringsInvariant, PTL

\* Iterating over a range with a concolic end yields what Python's range yields
\* (ConcolicRange.__iter__).
THEOREM RangesYield == StrSpec => []RangeFaithful
  <1>1. StrInv => RangeFaithful
    BY RangesFaithful DEF StrInv, NumberInv
  <1>. QED BY <1>1, StringsInvariant, PTL

\* The pieces of a split are Python's, and each is what its expression denotes (split).
THEOREM SplitsYield == StrSpec => []SplitFaithful
  <1>1. StrInv => SplitFaithful
    <2> SUFFICES ASSUME StrInv, loop.state = "pieces"
                 PROVE  /\ FlattenSeq(Joint(loop.parts, loop.sep)) = loop.of
                        /\ \A i \in 1..(Len(loop.parts) - 1) : ~Has(loop.parts[i].val, loop.sep)
                        /\ loop.max >= 0 => Len(loop.parts) <= loop.max + 1
                        /\ Len(loop.parts) - 1 # loop.max
                             => ~Has(loop.parts[Len(loop.parts)].val, loop.sep)
                        /\ \A i \in 1..Len(loop.parts) :
                             loop.parts[i].exact => loop.parts[i].den = loop.parts[i].val
      BY DEF SplitFaithful, Joint
    <2>1. SplitsInto(loop.parts, loop.of, loop.sep, loop.max)
      BY DEF StrInv, PiecesInv
    <2>2. loop.parts \in Seq(Strs)
      BY <2>1 DEF SplitsInto
    <2>3. \A i \in 1..Len(loop.parts) : StrFaithful(loop.parts[i])
      BY <2>2, ElementOfSeq, Members
    <2>. QED BY <2>1, <2>3 DEF SplitsInto, StrFaithful
  <1>. QED BY <1>1, StringsInvariant, PTL

\* Iterating over a concolic string yields its characters in order (__iter__).
THEOREM CharactersYield == StrSpec => []CharactersFaithful
  <1>1. StrInv => CharactersFaithful
    <2> SUFFICES ASSUME StrInv, loop.state = "read"
                 PROVE  [i \in 1..Len(loop.yielded) |-> loop.yielded[i].val[1]] = loop.of.val
      BY DEF CharactersFaithful
    <2> DEFINE Y == loop.yielded
               v == loop.of.val
               N == Len(v)
               f == [i \in 1..Len(Y) |-> Y[i].val[1]]
    <2>1. /\ loop \in Readings /\ Len(Y) = N
          /\ \A i \in 1..N : Y[i].val = <<v[i]>>
      BY DEF StrInv, ReadingInv
    <2>2. v \in Text
      BY <2>1, Members, StrParts DEF Readings
    <2>3. \A i \in 1..N : Y[i].val[1] = v[i]
      BY <2>1
    <2>4. v = [i \in 1..N |-> v[i]]
      <3>1. v \in Seq(Int) /\ DOMAIN v = 1..N
        BY <2>2, TextFacts DEF Text
      <3>. QED BY <3>1
    <2>5. f = [i \in 1..N |-> Y[i].val[1]]
      BY <2>1
    <2> HIDE DEF v, N, Y
    <2>6. [i \in 1..N |-> Y[i].val[1]] = [i \in 1..N |-> v[i]]
      BY <2>3
    <2>7. f = v
      BY <2>4, <2>5, <2>6
    <2>. QED BY <2>7 DEF v, Y
  <1>. QED BY <1>1, StringsInvariant, PTL

-----------------------------------------------------------------------------
(* Outcomes *)

\* What an expression can come to, and what it means for every count of calls.
Things == Values \cup Collections
Senses == [Nat -> Outcomes]

(* The parts of a value or a container. *)
LEMMA ThingType ==
  ASSUME NEW v \in Things
  PROVE  v.val \in Int /\ v.wrapped \in BOOLEAN
BY DEF Things, Values, Collections

(* A truth value, wrapped or not, is true as its proposition is. *)
LEMMA BoolType ==
  ASSUME NEW p \in BOOLEAN, NEW q \in BOOLEAN
  PROVE  /\ Boolean(p, q) \in Values
         /\ Boolean(p, q).type = "bool" /\ Boolean(p, q).wrapped = q
         /\ Truthy(Boolean(p, q)) <=> p
<1> DEFINE v == IF p THEN 1 ELSE 0
<1>1. v \in Int /\ (v # 0 <=> p)
  OBVIOUS
<1> HIDE DEF v
<1>2. Boolean(p, q) = [type |-> "bool", val |-> v, wrapped |-> q]
  BY DEF Boolean, v
<1>3. Truthy(Boolean(p, q)) <=> p
  BY <1>1, <1>2 DEF Truthy, Numeric
<1>4. Boolean(p, q) \in Values
  BY <1>1, <1>2 DEF Values, ValueTypes
<1> QED BY <1>2, <1>3, <1>4

(* Results and failures are outcomes. *)
LEMMA OutcomeMade ==
  ASSUME NEW v \in Things, NEW c \in Nat
  PROVE  Gives(v, c) \in Outcomes /\ Failed(c) \in Outcomes
<1>1. NoValue \in Things
  BY DEF Things, NoValue, Values, ValueTypes
<1>2. Outcomes = [raised : BOOLEAN, val : Things, calls : Nat]
  BY DEF Outcomes, Things
<1> HIDE DEF Things, NoValue
<1> QED BY <1>1, <1>2 DEF Gives, Failed

(* The parts of an outcome. *)
LEMMA OutcomeParts ==
  ASSUME NEW o \in Outcomes
  PROVE  o.raised \in BOOLEAN /\ o.val \in Things /\ o.calls \in Nat
BY DEF Outcomes, Things

(* One result, or none, makes an outcome. *)
LEMMA EndsType ==
  ASSUME NEW R \in SUBSET Values, NEW c \in Nat
  PROVE  Ends(R, c) \in Outcomes
<1>1. CASE R = {}
  <2>1. NoValue \in Things
    BY DEF Things, NoValue, Values, ValueTypes
  <2> QED BY <1>1, <2>1, OutcomeMade DEF Ends
<1>2. CASE R # {}
  <2>1. (CHOOSE v \in R : TRUE) \in Things
    BY <1>2 DEF Things
  <2> QED BY <1>2, <2>1, OutcomeMade DEF Ends
<1> QED BY <1>1, <1>2

(* A builtin or a helper gives a value, or nothing. *)
LEMMA CalledType ==
  ASSUME NEW name, NEW v \in Things, NEW helper \in BOOLEAN
  PROVE  Called(name, v, helper) \in SUBSET Values
<1> DEFINE Made(type, keeps) == {[type |-> type, val |-> v.val, wrapped |-> keeps]}
           kept == helper /\ v.wrapped
           text == IF v.type \in {"int", "str"} THEN "str" ELSE "text"
<1>1. v.val \in Int /\ kept \in BOOLEAN /\ text \in ValueTypes
  BY ThingType DEF ValueTypes
<1>2. \A type \in ValueTypes, keeps \in BOOLEAN : Made(type, keeps) \in SUBSET Values
  BY <1>1 DEF Values
<1>3. Called(name, v, helper) \in
        {Made("int", kept), Made(text, kept), Made("range", FALSE), Made("map", FALSE), Made("list", FALSE), {}}
  BY DEF Called
<1>4. {"int", "range", "map", "list"} \subseteq ValueTypes
  BY DEF ValueTypes
<1> HIDE DEF Made, kept, text
<1> QED BY <1>1, <1>2, <1>3, <1>4

(* A comparison or a call with two arguments gives a value, or nothing. *)
LEMMA CombinedType ==
  ASSUME NEW op, NEW l \in Things, NEW r \in Things
  PROVE  Combined(op, l, r) \in SUBSET Values
<1> DEFINE eq == (Equal(l, r) = (op = "=="))
           tagged == (Equal(l, r) = (op = "tagged=="))
           w == KeepsSymbol(l, r)
           ident == Identical(l, r)
           bare == Identical(Bare(l), Bare(r))
           found == ((\E v \in r.items : Equal(l, v)) = (op = "in"))
<1>1. \A p, q \in BOOLEAN : {Boolean(p, q)} \in SUBSET Values
  BY BoolType
<1>2. Called("int", l, FALSE) \in SUBSET Values /\ Called("range", l, FALSE) \in SUBSET Values
  BY CalledType
<1>3. /\ eq \in BOOLEAN /\ tagged \in BOOLEAN /\ w \in BOOLEAN
      /\ ident \in BOOLEAN /\ bare \in BOOLEAN /\ found \in BOOLEAN
  BY DEF Identical, KeepsSymbol
<1>4. Combined(op, l, r) \in
        {{Boolean(eq, w)}, {Boolean(tagged, w)}, {Boolean(ident, FALSE)}, {Boolean(bare, FALSE)}, {Boolean(found, FALSE)}, {},
         Called("int", l, FALSE), Called("range", l, FALSE)}
  BY DEF Combined, Bool
<1> HIDE DEF eq, tagged, w, ident, bare, found
<1> QED BY <1>1, <1>2, <1>3, <1>4

(* An operation on an outcome and a right operand has an outcome. *)
LEMMA WithType ==
  ASSUME NEW op, NEW l \in Outcomes, NEW right \in Senses
  PROVE  With(op, l, right) \in Outcomes
<1> DEFINE r == right[l.calls]
<1>1. r \in Outcomes
  BY OutcomeParts DEF Senses
<1>2. Ends(Combined(op, l.val, r.val), r.calls) \in Outcomes
  <2> HIDE DEF r
  <2> QED BY <1>1, OutcomeParts, CombinedType, EndsType
<1> QED BY <1>1, <1>2 DEF With

(* An operation on two expressions is an expression. *)
LEMMA BinaryType ==
  ASSUME NEW op, NEW left \in Senses, NEW right \in Senses
  PROVE  Binary(op, left, right) \in Senses
<1>1. \A c \in Nat : left[c] \in Outcomes
  BY DEF Senses
<1>2. \A c \in Nat : With(op, left[c], right) \in Outcomes
  BY <1>1, WithType
<1> QED BY <1>2 DEF Binary, Senses

(* A call with one argument is an expression. *)
LEMMA UnaryType ==
  ASSUME NEW name, NEW helper \in BOOLEAN, NEW operand \in Senses
  PROVE  Unary(name, helper, operand) \in Senses
<1>1. ASSUME NEW c \in Nat
      PROVE  /\ operand[c] \in Outcomes
             /\ Ends(Called(name, operand[c].val, helper), operand[c].calls) \in Outcomes
  <2>1. operand[c] \in Outcomes
    BY DEF Senses
  <2>2. Called(name, operand[c].val, helper) \in SUBSET Values
    BY <2>1, OutcomeParts, CalledType
  <2> QED BY <2>1, <2>2, OutcomeParts, EndsType
<1> QED BY <1>1 DEF Unary, Senses

(* A chained comparison is an expression. *)
LEMMA ChainedType ==
  ASSUME NEW op, NEW further, NEW left \in Senses, NEW middle \in Senses, NEW right \in Senses
  PROVE  Chained(op, further, left, middle, right) \in Senses
<1>1. ASSUME NEW c \in Nat
      PROVE  /\ With(op, left[c], middle) \in Outcomes
             /\ With(further, middle[left[c].calls], right) \in Outcomes
  <2>1. left[c] \in Outcomes
    BY DEF Senses
  <2>2. middle[left[c].calls] \in Outcomes
    BY <2>1, OutcomeParts DEF Senses
  <2> QED BY <2>1, <2>2, WithType
<1> QED BY <1>1 DEF Chained, Senses

-----------------------------------------------------------------------------
(* What a node comes to, by its operation *)

\* Comes(b, x, below, n), one operation at a time.
ByOp(b, x, below, e, it) ==
    LET Child(i) == below[e.subs[i]]
    IN  /\ e.op = "const" => it = Always(e.value)
        /\ e.op = "minus" => it = Always(LiteralValue(b, e))
        /\ e.op = "name" => it = Always(x)
        /\ e.op = "pop" => it = Popped
        /\ e.op = "unpack" => it = [calls \in Nat |-> Failed(calls)]
        /\ e.op \in {"or", "and"} => it = Shortcut(e.op = "or", [i \in 1..Len(e.subs) |-> Child(i)])
        /\ e.op = "tests" => it = Shortcut(e.ops[1] = "or",
                                    [i \in 1..Len(e.subs) - 1 |-> Binary(e.ops[2], Child(1), Child(i + 1))])
        /\ IsContainer(e) => it = Collected(b, e, x)
        /\ IsSingle(e) => it = Binary(e.ops[1], Child(1), Child(2))
        /\ e.op = "compare" /\ Len(e.ops) = 2 => it = Chained(e.ops[1], e.ops[2], Child(1), Child(2), Child(3))
        /\ e.op = "helper" /\ e.arg = "is" /\ Len(e.subs) = 2 => it = Binary("unwrappedIs", Child(1), Child(2))
        /\ e.op = "call" /\ e.arg = "map" /\ Len(e.subs) = 2 => it = Unary("map", FALSE, Child(2))
        /\ e.op = "helper" /\ e.arg # "is" /\ e.arg # "map" /\ Len(e.subs) = 2 =>
             it = Binary(e.arg, Child(1), Child(2))
        /\ e.op = "helper" /\ e.arg # "is" /\ Len(e.subs) = 1 => it = Unary(e.arg, TRUE, Child(1))
        /\ e.op = "call" /\ e.arg \notin {"map", "is"} /\ ~EmptyCall(e) /\ Len(e.subs) = 2 =>
             it = Binary(e.arg, Child(1), Child(2))
        /\ e.op = "call" /\ e.arg \notin {"map", "is"} /\ ~EmptyCall(e) /\ Len(e.subs) = 1 =>
             it = Unary(e.arg, FALSE, Child(1))

(* Exactly one arm of Comes applies to a node: what it comes to is given by its *)
(* operation.                                                                   *)
LEMMA ComesByOp ==
  ASSUME NEW b, NEW x, NEW below, NEW n
  PROVE  ByOp(b, x, below, b[n], Comes(b, x, below, n))
<1> DEFINE e == b[n]
           Child(i) == below[e.subs[i]]
           it == Comes(b, x, below, n)
           C1 == e.op = "const"
           C2 == e.op = "minus"
           C3 == e.op = "name"
           C4 == e.op = "pop"
           C5 == e.op \in {"or", "and"}
           C6 == e.op = "tests"
           C7 == IsContainer(e)
           C8 == IsSingle(e)
           C9 == e.op = "compare" /\ Len(e.ops) = 2
           C10 == e.op = "helper" /\ e.arg = "is"
           C11 == e.op = "call" /\ e.arg = "map"
           C12 == e.op \in {"call", "helper"} /\ e.arg \notin {"map", "is"} /\ Len(e.subs) = 2
           C13 == e.op \in {"call", "helper"} /\ Len(e.subs) = 1
           R1 == Always(e.value)
           R2 == Always(LiteralValue(b, e))
           R3 == Always(x)
           R4 == Popped
           R5 == Shortcut(e.op = "or", [i \in 1..Len(e.subs) |-> Child(i)])
           R6 == Shortcut(e.ops[1] = "or",
                          [i \in 1..Len(e.subs) - 1 |-> Binary(e.ops[2], Child(1), Child(i + 1))])
           R7 == Collected(b, e, x)
           R8 == Binary(e.ops[1], Child(1), Child(2))
           R9 == Chained(e.ops[1], e.ops[2], Child(1), Child(2), Child(3))
           R10 == Binary("unwrappedIs", Child(1), Child(2))
           R11 == Unary("map", FALSE, Child(2))
           R12 == Binary(e.arg, Child(1), Child(2))
           helper == e.op = "helper"
           R13 == Unary(e.arg, helper, Child(1))
           R0 == [calls \in Nat |-> Failed(calls)]
<1>1. e.op \in Containers => e.op \notin {"const", "minus", "name", "pop", "unpack", "or", "and", "tests", "compare", "helper", "call"}
  BY DEF Containers
<1>2. it =
   CASE C1 -> R1 [] C2 -> R2 [] C3 -> R3 [] C4 -> R4 [] C5 -> R5 [] C6 -> R6 [] C7 -> R7 [] C8 -> R8
     [] C9 -> R9 [] C10 -> R10 [] C11 -> R11 [] C12 -> R12 [] C13 -> R13 [] OTHER -> R0
  BY Zenon DEF Comes
<1>3. IsSingle(e) => e.op = "compare" /\ Len(e.ops) # 2
  BY DEF IsSingle
<1>4. IsContainer(e) <=> e.op \in Containers \/ EmptyCall(e)
  BY DEF IsContainer
<1>5. EmptyCall(e) => e.op = "call" /\ e.arg # "map" /\ Len(e.subs) # 1 /\ Len(e.subs) # 2
  BY DEF EmptyCall, EmptyConstructors
<1>6. /\ C1 => ~C2 /\ ~C3 /\ ~C4 /\ ~C5 /\ ~C6 /\ ~C7 /\ ~C8 /\ ~C9 /\ ~C10 /\ ~C11 /\ ~C12 /\ ~C13
      /\ C2 => ~C3 /\ ~C4 /\ ~C5 /\ ~C6 /\ ~C7 /\ ~C8 /\ ~C9 /\ ~C10 /\ ~C11 /\ ~C12 /\ ~C13
      /\ C3 => ~C4 /\ ~C5 /\ ~C6 /\ ~C7 /\ ~C8 /\ ~C9 /\ ~C10 /\ ~C11 /\ ~C12 /\ ~C13
      /\ C4 => ~C5 /\ ~C6 /\ ~C7 /\ ~C8 /\ ~C9 /\ ~C10 /\ ~C11 /\ ~C12 /\ ~C13
      /\ C5 => ~C6 /\ ~C7 /\ ~C8 /\ ~C9 /\ ~C10 /\ ~C11 /\ ~C12 /\ ~C13
      /\ C6 => ~C7 /\ ~C8 /\ ~C9 /\ ~C10 /\ ~C11 /\ ~C12 /\ ~C13
      /\ C7 => ~C8 /\ ~C9 /\ ~C10 /\ ~C11 /\ ~C12 /\ ~C13
      /\ C8 => ~C9 /\ ~C10 /\ ~C11 /\ ~C12 /\ ~C13
      /\ C9 => ~C10 /\ ~C11 /\ ~C12 /\ ~C13
      /\ C10 => ~C11 /\ ~C12
      /\ C11 => ~C12
      /\ C12 => ~C13
  BY <1>1, <1>3, <1>4, <1>5
<1>7. e.op = "unpack" => ~C1 /\ ~C2 /\ ~C3 /\ ~C4 /\ ~C5 /\ ~C6 /\ ~C7 /\ ~C8 /\ ~C9 /\ ~C10 /\ ~C11 /\ ~C12 /\ ~C13
  BY <1>1, <1>3, <1>4, <1>5
<1>8. ASSUME e.op = "helper", e.arg # "is", Len(e.subs) = 1 PROVE C13 /\ ~C10 /\ ~C11 /\ ~C12 /\ helper
  BY <1>8
<1>9. ASSUME e.op = "call", e.arg \notin {"map", "is"}, ~EmptyCall(e), Len(e.subs) = 1 PROVE C13 /\ ~C10 /\ ~C11 /\ ~C12 /\ ~helper
  BY <1>9
<1>10. ASSUME e.op = "helper", e.arg # "is", e.arg # "map", Len(e.subs) = 2 PROVE C12 /\ ~C10 /\ ~C11 /\ ~C13
  BY <1>10
<1>11. ASSUME e.op = "call", e.arg \notin {"map", "is"}, ~EmptyCall(e), Len(e.subs) = 2 PROVE C12 /\ ~C10 /\ ~C11 /\ ~C13
  BY <1>11
<1>12. ASSUME e.op = "helper", e.arg = "is", Len(e.subs) = 2 PROVE C10 /\ ~C11 /\ ~C12 /\ ~C13
  BY <1>12
<1> HIDE DEF C1, C2, C3, C4, C5, C6, C7, C8, C9, C10, C11, C12, C13, R0, R1, R2, R3, R4, R5, R6, R7, R8, R9, R10, R11, R12, R13, it
<1>13. /\ ~C1 /\ ~C2 /\ ~C3 /\ ~C4 /\ ~C5 /\ ~C6 /\ ~C7 /\ ~C8 /\ ~C9 /\ ~C10 /\ ~C11 /\ ~C12 /\ ~C13 => it = R0
       /\ C1 /\ ~C2 /\ ~C3 /\ ~C4 /\ ~C5 /\ ~C6 /\ ~C7 /\ ~C8 /\ ~C9 /\ ~C10 /\ ~C11 /\ ~C12 /\ ~C13 => it = R1
       /\ C2 /\ ~C1 /\ ~C3 /\ ~C4 /\ ~C5 /\ ~C6 /\ ~C7 /\ ~C8 /\ ~C9 /\ ~C10 /\ ~C11 /\ ~C12 /\ ~C13 => it = R2
       /\ C3 /\ ~C1 /\ ~C2 /\ ~C4 /\ ~C5 /\ ~C6 /\ ~C7 /\ ~C8 /\ ~C9 /\ ~C10 /\ ~C11 /\ ~C12 /\ ~C13 => it = R3
       /\ C4 /\ ~C1 /\ ~C2 /\ ~C3 /\ ~C5 /\ ~C6 /\ ~C7 /\ ~C8 /\ ~C9 /\ ~C10 /\ ~C11 /\ ~C12 /\ ~C13 => it = R4
       /\ C5 /\ ~C1 /\ ~C2 /\ ~C3 /\ ~C4 /\ ~C6 /\ ~C7 /\ ~C8 /\ ~C9 /\ ~C10 /\ ~C11 /\ ~C12 /\ ~C13 => it = R5
       /\ C6 /\ ~C1 /\ ~C2 /\ ~C3 /\ ~C4 /\ ~C5 /\ ~C7 /\ ~C8 /\ ~C9 /\ ~C10 /\ ~C11 /\ ~C12 /\ ~C13 => it = R6
       /\ C7 /\ ~C1 /\ ~C2 /\ ~C3 /\ ~C4 /\ ~C5 /\ ~C6 /\ ~C8 /\ ~C9 /\ ~C10 /\ ~C11 /\ ~C12 /\ ~C13 => it = R7
       /\ C8 /\ ~C1 /\ ~C2 /\ ~C3 /\ ~C4 /\ ~C5 /\ ~C6 /\ ~C7 /\ ~C9 /\ ~C10 /\ ~C11 /\ ~C12 /\ ~C13 => it = R8
       /\ C9 /\ ~C1 /\ ~C2 /\ ~C3 /\ ~C4 /\ ~C5 /\ ~C6 /\ ~C7 /\ ~C8 /\ ~C10 /\ ~C11 /\ ~C12 /\ ~C13 => it = R9
       /\ C10 /\ ~C1 /\ ~C2 /\ ~C3 /\ ~C4 /\ ~C5 /\ ~C6 /\ ~C7 /\ ~C8 /\ ~C9 /\ ~C11 /\ ~C12 /\ ~C13 => it = R10
       /\ C11 /\ ~C1 /\ ~C2 /\ ~C3 /\ ~C4 /\ ~C5 /\ ~C6 /\ ~C7 /\ ~C8 /\ ~C9 /\ ~C10 /\ ~C12 /\ ~C13 => it = R11
       /\ C12 /\ ~C1 /\ ~C2 /\ ~C3 /\ ~C4 /\ ~C5 /\ ~C6 /\ ~C7 /\ ~C8 /\ ~C9 /\ ~C10 /\ ~C11 /\ ~C13 => it = R12
       /\ C13 /\ ~C1 /\ ~C2 /\ ~C3 /\ ~C4 /\ ~C5 /\ ~C6 /\ ~C7 /\ ~C8 /\ ~C9 /\ ~C10 /\ ~C11 /\ ~C12 => it = R13
  BY <1>2, Zenon
<1> HIDE DEF e, Child, helper
<1>14. /\ C1 => it = R1
       /\ C2 => it = R2
       /\ C3 => it = R3
       /\ C4 => it = R4
       /\ C5 => it = R5
       /\ C6 => it = R6
       /\ C7 => it = R7
       /\ C8 => it = R8
       /\ C9 => it = R9
  BY <1>6, <1>13
<1>15. e.op = "unpack" => it = R0
  BY <1>7, <1>13
<1>16. e.op = "helper" /\ e.arg = "is" /\ Len(e.subs) = 2 => it = R10
  BY <1>6, <1>12, <1>13
<1>17. e.op = "helper" /\ e.arg # "is" /\ e.arg # "map" /\ Len(e.subs) = 2 => it = R12
  BY <1>6, <1>10, <1>13
<1>18. e.op = "helper" /\ e.arg # "is" /\ Len(e.subs) = 1 => it = R13
  BY <1>6, <1>8, <1>13
<1>19. e.op = "call" /\ e.arg \notin {"map", "is"} /\ ~EmptyCall(e) /\ Len(e.subs) = 2 => it = R12
  BY <1>6, <1>11, <1>13
<1>20. e.op = "call" /\ e.arg \notin {"map", "is"} /\ ~EmptyCall(e) /\ Len(e.subs) = 1 => it = R13
  BY <1>6, <1>9, <1>13
<1>21. e.op = "call" /\ e.arg = "map" /\ Len(e.subs) = 2 => it = R11
  <2>1. e.op = "call" /\ e.arg = "map" /\ Len(e.subs) = 2 => C11 /\ ~C13
    BY DEF C11, C13
  <2> QED BY <1>6, <1>13, <2>1
<1>22. helper \in BOOLEAN
  BY DEF helper
<1>23. ~helper => R13 = Unary(e.arg, FALSE, Child(1))
  <2>1. ~helper => helper = FALSE
    BY <1>22, Zenon
  <2> QED BY <2>1, Zenon DEF R13
<1>24. e.op = "helper" /\ e.arg # "is" /\ Len(e.subs) = 1 => it = Unary(e.arg, TRUE, Child(1))
  BY <1>8, <1>18 DEF R13
<1>25. e.op = "call" /\ e.arg \notin {"map", "is"} /\ ~EmptyCall(e) /\ Len(e.subs) = 1 => it = Unary(e.arg, FALSE, Child(1))
  BY <1>9, <1>20, <1>23
<1> QED BY <1>14, <1>15, <1>16, <1>17, <1>19, <1>24, <1>25, <1>21, Zenon
      DEF C1, C2, C3, C4, C5, C6, C7, C8, C9, C11, ByOp, R0, R1, R2, R3, R4, R5, R6, R7, R8, R9, R10, R11, R12, e, Child, it

(* The value of "and" or "or" after each of its operands. *)
LEMMA UptoFollows ==
  ASSUME NEW by \in BOOLEAN, NEW parts \in Seq(Senses), NEW c \in Nat
  PROVE  LET upto == Upto(by, parts, c)
         IN  /\ upto \in [0 .. Len(parts) -> Outcomes]
             /\ upto[0] = Gives(Bool(~by), c)
             /\ \A k \in 1 .. Len(parts) :
                  upto[k] = IF Decided(by, upto[k - 1]) THEN upto[k - 1] ELSE parts[k][upto[k - 1].calls]
<1> DEFINE N == Len(parts)
           base == Gives(Bool(~by), c)
           next(o, k) == IF Decided(by, o) THEN o ELSE parts[k][o.calls]
           Is(f) == f = [k \in 0 .. N |-> IF k = 0 THEN base ELSE next(f[k - 1], k)]
           upto == CHOOSE f : Is(f)
           step == [k \in 1 .. N |-> [o \in Outcomes |-> next(o, k)]]
<1>1. N \in Nat /\ base \in Outcomes
  <2>1. Bool(~by) \in Things
    BY BoolType DEF Bool, Things
  <2> QED BY <2>1, OutcomeMade
<1>2. \A o \in Outcomes, k \in 1 .. N : next(o, k) \in Outcomes
  <2>1. \A k \in 1 .. N : parts[k] \in Senses
    OBVIOUS
  <2> QED BY <2>1, OutcomeParts DEF Senses
<1> HIDE DEF base, next
<1>3. Steps(step, Outcomes, N)
  BY <1>2 DEF Steps
<1>4. PICK f : Follows(f, Outcomes, N, base, step)
  <2> HIDE DEF step, N
  <2> QED BY <1>1, <1>3, RecursionUpTo, Zenon
<1>5. Is(f)
  <2>1. \A n \in 1 .. N : n - 1 \in 0 .. N /\ n \in 0 .. N /\ n # 0
    BY <1>1
  <2>2. \A n \in 1 .. N : f[n - 1] \in Outcomes
    BY <1>4, <2>1 DEF Follows
  <2>3. \A n \in 1 .. N : f[n] = next(f[n - 1], n)
    BY <1>4, <2>2 DEF Follows
  <2>4. \A n \in 0 .. N : n = 0 \/ n \in 1 .. N
    BY <1>1
  <2> QED BY <1>4, <2>3, <2>4 DEF Follows
<1>6. Is(upto)
  <2> HIDE DEF Is
  <2> QED BY <1>5, Zenon
<1>7. upto = Upto(by, parts, c)
  BY Zenon DEF Upto, next, base
<1> HIDE DEF upto
<1>8. upto = [k \in 0 .. N |-> upto[k]] /\ upto[0] = base
  <2>1. 0 \in 0 .. N
    BY <1>1
  <2>2. upto[0] = base
    BY <1>6, <2>1
  <2>3. upto = [k \in 0 .. N |-> upto[k]]
    BY <1>6
  <2> QED BY <2>2, <2>3
<1>9. \A n \in 1 .. N : upto[n] = next(upto[n - 1], n)
  <2>1. \A n \in 1 .. N : n \in 0 .. N /\ n # 0
    BY <1>1
  <2> QED BY <1>6, <2>1
<1> HIDE DEF Is
<1>10. upto \in [0 .. N -> Outcomes]
  <2>1. ASSUME NEW n \in 1 .. N, upto[n - 1] \in Outcomes PROVE upto[n] \in Outcomes
    BY <1>2, <1>9, <2>1
  <2>2. upto[0] \in Outcomes
    BY <1>1, <1>8
  <2> HIDE DEF N
  <2> QED BY <1>1, <1>8, <2>1, <2>2, StaysUpTo, Zenon
<1> QED BY <1>7, <1>8, <1>9, <1>10, Zenon DEF next, base

(* "and" and "or" of expressions are an expression. *)
LEMMA ShortcutType ==
  ASSUME NEW by \in BOOLEAN, NEW parts \in Seq(Senses)
  PROVE  Shortcut(by, parts) \in Senses
<1>1. ASSUME NEW c \in Nat PROVE Upto(by, parts, c)[Len(parts)] \in Outcomes
  <2>1. Upto(by, parts, c) \in [0 .. Len(parts) -> Outcomes]
    BY UptoFollows
  <2>2. Len(parts) \in 0 .. Len(parts)
    OBVIOUS
  <2> QED BY <2>1, <2>2
<1> QED BY <1>1 DEF Shortcut, Senses

(* A value is an expression. *)
LEMMA AlwaysType ==
  ASSUME NEW v \in Things
  PROVE  Always(v) \in Senses
<1>1. \A c \in Nat : Gives(v, c) \in Outcomes
  BY OutcomeMade
<1> QED BY <1>1 DEF Always, Senses

(* A failure is an expression. *)
LEMMA FailedType == [calls \in Nat |-> Failed(calls)] \in Senses
<1>1. NoValue \in Things
  BY DEF Things, NoValue, Values, ValueTypes
<1>2. \A c \in Nat : Failed(c) \in Outcomes
  BY <1>1, OutcomeMade
<1> QED BY <1>2 DEF Senses

(* A call of pop() is an expression. *)
LEMMA PoppedType == Popped \in Senses
<1>1. Supply \in Seq(Values) /\ Len(Supply) \in Nat \ {0}
  BY RewritingAssumption
<1>2. ASSUME NEW c \in Nat PROVE Gives(Supply[(c % Len(Supply)) + 1], c + 1) \in Outcomes
  <2>1. (c % Len(Supply)) + 1 \in 1 .. Len(Supply)
    BY <1>1
  <2>2. Supply[(c % Len(Supply)) + 1] \in Things
    BY <1>1, <2>1 DEF Things
  <2> QED BY <2>2, OutcomeMade
<1> QED BY <1>2 DEF Popped, Senses

(* A container is of one of the five types. *)
LEMMA ContainerKind ==
  ASSUME NEW e, IsContainer(e)
  PROVE  Kind(e) \in EmptyConstructors
BY DEF Kind, IsContainer, Containers, EmptyCall, EmptyConstructors

\* An element of a container that is in the tree a value, or the parameter.
HoldsValues(b, e, x) ==
    \A i \in 1 .. Len(e.subs) :
        LET d == b[e.subs[i]]
        IN  d.op \notin {"name", "unpack"} => LiteralValue(b, d) \in Values

(* A container is an expression. *)
LEMMA CollectedType ==
  ASSUME NEW b, NEW e, NEW x \in Values, IsContainer(e), HoldsValues(b, e, x), e.subs \in Seq(Nat)
  PROVE  Collected(b, e, x) \in Senses
<1> DEFINE Element(i) == b[e.subs[i]]
           Item(i) == IF Element(i).op = "name" THEN x ELSE LiteralValue(b, Element(i))
           breaks == \E i \in DOMAIN e.subs :
                         \/ Element(i).op = "unpack"
                         \/ Element(i).op = "name" /\ SetLike(e) /\ ~Hashable(x)
           items == {Item(i) : i \in DOMAIN e.subs}
           v == [type |-> Kind(e), val |-> 0, wrapped |-> FALSE, items |-> items]
           failure == [calls \in Nat |-> Failed(calls)]
<1>1. Collected(b, e, x) = IF breaks THEN failure ELSE Always(v)
  BY Zenon DEF Collected
<1>2. failure \in Senses
  BY FailedType
<1>3. ASSUME ~breaks PROVE items \in SUBSET Values
  <2>1. ASSUME NEW i \in DOMAIN e.subs PROVE Item(i) \in Values
    <3>1. i \in 1 .. Len(e.subs) /\ Element(i).op # "unpack"
      BY <1>3
    <3>2. Element(i).op # "name" => LiteralValue(b, Element(i)) \in Values
      BY <3>1 DEF HoldsValues
    <3> QED BY <3>2
  <2> QED BY <2>1
<1>4. ASSUME ~breaks PROVE Always(v) \in Senses
  <2> HIDE DEF items, breaks
  <2>1. v \in Collections
    BY <1>3, <1>4, ContainerKind DEF Collections
  <2> QED BY <2>1, AlwaysType DEF Things
<1> HIDE DEF breaks, failure, v
<1> QED BY <1>1, <1>2, <1>4

(* A node that can be given a meaning: its children come before it, and there are *)
(* as many as its operation takes.                                                *)
Formed(b, x, n) ==
    LET e == b[n]
    IN  /\ e.subs \in Seq(Nat)
        /\ \A i \in 1 .. Len(e.subs) : e.subs[i] \in 1 .. n - 1
        /\ \/ e.op = "const" /\ e.value \in Values
           \/ e.op = "minus" /\ LiteralValue(b, e) \in Values
           \/ e.op \in {"name", "pop", "unpack", "or", "and"}
           \/ e.op = "tests" /\ Len(e.subs) # 0
           \/ IsContainer(e) /\ HoldsValues(b, e, x)
           \/ IsSingle(e) /\ Len(e.subs) = 2
           \/ e.op = "compare" /\ Len(e.ops) = 2 /\ Len(e.subs) = 3
           \/ e.op = "helper" /\ e.arg = "is" /\ Len(e.subs) = 2
           \/ e.op = "call" /\ e.arg = "map" /\ Len(e.subs) = 2
           \/ e.op = "helper" /\ e.arg \notin {"is", "map"} /\ Len(e.subs) = 2
           \/ e.op = "helper" /\ e.arg # "is" /\ Len(e.subs) = 1
           \/ e.op = "call" /\ e.arg \notin {"is", "map"} /\ ~EmptyCall(e) /\ Len(e.subs) \in 1 .. 2

(* The operands of a node, in their order. *)
LEMMA OperandParts ==
  ASSUME NEW k \in Nat, NEW f(_), \A i \in 1 .. k : f(i) \in Senses
  PROVE  [i \in 1 .. k |-> f(i)] \in Seq(Senses) /\ Len([i \in 1 .. k |-> f(i)]) = k
OBVIOUS

(* What a node comes to is an expression when its children come to expressions. *)
LEMMA ComesType ==
  ASSUME NEW b, NEW x \in Values, NEW n \in Nat, Formed(b, x, n),
         NEW g, \A m \in 1 .. n - 1 : g[m] \in Senses
  PROVE  Comes(b, x, g, n) \in Senses
<1> DEFINE e == b[n]
           Child(i) == g[e.subs[i]]
           it == Comes(b, x, g, n)
           L == Len(e.subs)
<1>1. L \in Nat /\ \A i \in 1 .. L : Child(i) \in Senses
  BY DEF Formed
<1>2. e.subs \in Seq(Nat)
  BY DEF Formed
<1>0. ByOp(b, x, g, e, it)
  BY ComesByOp
<1> SUFFICES it \in Senses
  OBVIOUS
<1> HIDE DEF Child, e, it
<1>3. CASE e.op = "const" /\ e.value \in Values
  <2>1. it = Always(e.value)
    BY <1>0, <1>3 DEF ByOp
  <2> QED BY <1>3, <2>1, AlwaysType DEF Things
<1>4. CASE e.op = "minus" /\ LiteralValue(b, e) \in Values
  <2>1. it = Always(LiteralValue(b, e))
    BY <1>0, <1>4 DEF ByOp
  <2> QED BY <1>4, <2>1, AlwaysType DEF Things
<1>5. CASE e.op = "name"
  <2>1. it = Always(x)
    BY <1>0, <1>5 DEF ByOp
  <2> QED BY <2>1, AlwaysType DEF Things
<1>6. CASE e.op = "pop"
  <2>1. it = Popped
    BY <1>0, <1>6 DEF ByOp
  <2> QED BY <2>1, PoppedType
<1>7. CASE e.op = "unpack"
  <2>1. it = [calls \in Nat |-> Failed(calls)]
    BY <1>0, <1>7 DEF ByOp
  <2> QED BY <2>1, FailedType
<1>8. CASE e.op \in {"or", "and"}
  <2>1. it = Shortcut(e.op = "or", [i \in 1 .. L |-> Child(i)])
    BY <1>0, <1>8 DEF ByOp, Child
  <2>2. [i \in 1 .. L |-> Child(i)] \in Seq(Senses)
    BY <1>1, OperandParts
  <2>3. (e.op = "or") \in BOOLEAN
    OBVIOUS
  <2> QED BY <2>1, <2>2, <2>3, ShortcutType
<1>9. CASE e.op = "tests" /\ L # 0
  <2> DEFINE Part(i) == Binary(e.ops[2], Child(1), Child(i + 1))
  <2>1. it = Shortcut(e.ops[1] = "or", [i \in 1 .. L - 1 |-> Part(i)])
    BY <1>0, <1>9 DEF ByOp, Child
  <2>2. \A i \in 1 .. L - 1 : Part(i) \in Senses
    BY <1>1, <1>9, BinaryType
  <2> HIDE DEF Part, L
  <2>3. [i \in 1 .. L - 1 |-> Part(i)] \in Seq(Senses)
    BY <1>1, <1>9, <2>2, OperandParts
  <2>4. (e.ops[1] = "or") \in BOOLEAN
    OBVIOUS
  <2> QED BY <2>1, <2>3, <2>4, ShortcutType
<1>10. CASE IsContainer(e) /\ HoldsValues(b, e, x)
  <2>1. it = Collected(b, e, x)
    BY <1>0, <1>10 DEF ByOp
  <2> QED BY <1>2, <1>10, <2>1, CollectedType
<1>11. CASE IsSingle(e) /\ L = 2
  <2>1. it = Binary(e.ops[1], Child(1), Child(2))
    BY <1>0, <1>11 DEF ByOp, Child
  <2> QED BY <1>1, <1>11, <2>1, BinaryType
<1>12. CASE e.op = "compare" /\ Len(e.ops) = 2 /\ L = 3
  <2>1. it = Chained(e.ops[1], e.ops[2], Child(1), Child(2), Child(3))
    BY <1>0, <1>12 DEF ByOp, Child
  <2> QED BY <1>1, <1>12, <2>1, ChainedType
<1>13. CASE e.op = "helper" /\ e.arg = "is" /\ L = 2
  <2>1. it = Binary("unwrappedIs", Child(1), Child(2))
    BY <1>0, <1>13 DEF ByOp, Child
  <2> QED BY <1>1, <1>13, <2>1, BinaryType
<1>14. CASE e.op = "call" /\ e.arg = "map" /\ L = 2
  <2>1. it = Unary("map", FALSE, Child(2))
    BY <1>0, <1>14 DEF ByOp, Child
  <2>2. Child(2) \in Senses
    BY <1>1, <1>14
  <2>3. TRUE \in BOOLEAN /\ FALSE \in BOOLEAN
    OBVIOUS
  <2> QED BY <2>1, <2>2, <2>3, UnaryType, Zenon
<1>15. CASE \/ e.op = "helper" /\ e.arg \notin {"is", "map"} /\ L = 2
            \/ e.op = "call" /\ e.arg \notin {"is", "map"} /\ ~EmptyCall(e) /\ L = 2
  <2>1. it = Binary(e.arg, Child(1), Child(2))
    BY <1>0, <1>15 DEF ByOp, Child
  <2>2. Child(1) \in Senses /\ Child(2) \in Senses
    <3>1. L = 2
      BY <1>15, Zenon
    <3>2. 1 \in 1 .. L /\ 2 \in 1 .. L
      BY <3>1
    <3> QED BY <1>1, <3>2, Zenon
  <2>3. TRUE \in BOOLEAN /\ FALSE \in BOOLEAN
    OBVIOUS
  <2> QED BY <2>1, <2>2, <2>3, BinaryType, Zenon
<1>16. CASE e.op = "helper" /\ e.arg # "is" /\ L = 1
  <2>1. it = Unary(e.arg, TRUE, Child(1))
    BY <1>0, <1>16 DEF ByOp, Child
  <2>2. Child(1) \in Senses
    BY <1>1, <1>16
  <2>3. TRUE \in BOOLEAN /\ FALSE \in BOOLEAN
    OBVIOUS
  <2> QED BY <2>1, <2>2, <2>3, UnaryType, Zenon
<1>17. CASE e.op = "call" /\ e.arg \notin {"is", "map"} /\ ~EmptyCall(e) /\ L = 1
  <2>1. it = Unary(e.arg, FALSE, Child(1))
    BY <1>0, <1>17 DEF ByOp, Child
  <2>2. Child(1) \in Senses
    BY <1>1, <1>17
  <2>3. TRUE \in BOOLEAN /\ FALSE \in BOOLEAN
    OBVIOUS
  <2> QED BY <2>1, <2>2, <2>3, UnaryType, Zenon
<1>18. 1 .. 2 = {1, 2}
  OBVIOUS
<1> QED BY <1>3, <1>4, <1>5, <1>6, <1>7, <1>8, <1>9, <1>10, <1>11, <1>12, <1>13, <1>14, <1>15,
          <1>16, <1>17, <1>18 DEF Formed, e, it

(* What a node comes to depends on nothing but the nodes before it. *)
LEMMA ComesSame ==
  ASSUME NEW b, NEW x, NEW n \in Nat, Formed(b, x, n),
         NEW g, NEW h, \A m \in 1 .. n - 1 : g[m] = h[m]
  PROVE  Comes(b, x, g, n) = Comes(b, x, h, n)
<1> DEFINE e == b[n]
           Child(i) == g[e.subs[i]]
           Bus(i) == h[e.subs[i]]
           it == Comes(b, x, g, n)
           that == Comes(b, x, h, n)
           L == Len(e.subs)
<1>0. ByOp(b, x, g, e, it) /\ ByOp(b, x, h, e, that)
  BY ComesByOp
<1>1. L \in Nat /\ \A i \in 1 .. L : Child(i) = Bus(i)
  BY DEF Formed
<1> SUFFICES it = that
  OBVIOUS
<1> HIDE DEF Child, Bus, e, it, that
<1>2. CASE e.op = "const"
  <2> QED BY <1>0, <1>2, Zenon DEF ByOp
<1>3. CASE e.op = "minus"
  <2> QED BY <1>0, <1>3, Zenon DEF ByOp
<1>4. CASE e.op = "name"
  <2> QED BY <1>0, <1>4, Zenon DEF ByOp
<1>5. CASE e.op = "pop"
  <2> QED BY <1>0, <1>5, Zenon DEF ByOp
<1>6. CASE e.op = "unpack"
  <2> QED BY <1>0, <1>6, Zenon DEF ByOp
<1>7. CASE e.op \in {"or", "and"}
  <2> DEFINE G == [i \in 1 .. L |-> Child(i)]
             H == [i \in 1 .. L |-> Bus(i)]
  <2>1. it = Shortcut(e.op = "or", G) /\ that = Shortcut(e.op = "or", H)
    BY <1>0, <1>7, Zenon DEF ByOp, Child, Bus
  <2>2. G = H
    BY <1>1
  <2> HIDE DEF G, H
  <2> QED BY <2>1, <2>2, Zenon
<1>8. CASE e.op = "tests" /\ L # 0
  <2> DEFINE G == [i \in 1 .. L - 1 |-> Binary(e.ops[2], Child(1), Child(i + 1))]
             H == [i \in 1 .. L - 1 |-> Binary(e.ops[2], Bus(1), Bus(i + 1))]
  <2>1. it = Shortcut(e.ops[1] = "or", G) /\ that = Shortcut(e.ops[1] = "or", H)
    BY <1>0, <1>8, Zenon DEF ByOp, Child, Bus
  <2>2. G = H
    <3>1. \A i \in 1 .. L - 1 : 1 \in 1 .. L /\ i + 1 \in 1 .. L
      BY <1>1
    <3>2. \A i \in 1 .. L - 1 : Child(1) = Bus(1) /\ Child(i + 1) = Bus(i + 1)
      BY <1>1, <3>1, Zenon
    <3> QED BY <3>2, Zenon
  <2> HIDE DEF G, H
  <2> QED BY <2>1, <2>2, Zenon
<1>9. CASE IsContainer(e)
  <2> QED BY <1>0, <1>9, Zenon DEF ByOp
<1>10. CASE IsSingle(e) /\ L = 2
  <2>1. it = Binary(e.ops[1], Child(1), Child(2)) /\ that = Binary(e.ops[1], Bus(1), Bus(2))
    BY <1>0, <1>10, SMT DEF ByOp, Child, Bus
  <2>2. Child(1) = Bus(1) /\ Child(2) = Bus(2)
    BY <1>1, <1>10
  <2> QED BY <2>1, <2>2, Zenon
<1>11. CASE e.op = "compare" /\ Len(e.ops) = 2 /\ L = 3
  <2>1. it = Chained(e.ops[1], e.ops[2], Child(1), Child(2), Child(3)) /\ that = Chained(e.ops[1], e.ops[2], Bus(1), Bus(2), Bus(3))
    BY <1>0, <1>11, SMT DEF ByOp, Child, Bus
  <2>2. Child(1) = Bus(1) /\ Child(2) = Bus(2) /\ Child(3) = Bus(3)
    BY <1>1, <1>11
  <2> QED BY <2>1, <2>2, Zenon
<1>12. CASE e.op = "helper" /\ e.arg = "is" /\ L = 2
  <2>1. it = Binary("unwrappedIs", Child(1), Child(2)) /\ that = Binary("unwrappedIs", Bus(1), Bus(2))
    BY <1>0, <1>12, SMT DEF ByOp, Child, Bus
  <2>2. Child(1) = Bus(1) /\ Child(2) = Bus(2)
    BY <1>1, <1>12
  <2> QED BY <2>1, <2>2, Zenon
<1>13. CASE e.op = "call" /\ e.arg = "map" /\ L = 2
  <2>1. it = Unary("map", FALSE, Child(2)) /\ that = Unary("map", FALSE, Bus(2))
    BY <1>0, <1>13, Zenon DEF ByOp, Child, Bus
  <2>2. Child(2) = Bus(2)
    BY <1>1, <1>13
  <2> QED BY <2>1, <2>2, Zenon
<1>14. CASE \/ e.op = "helper" /\ e.arg \notin {"is", "map"} /\ L = 2
            \/ e.op = "call" /\ e.arg \notin {"is", "map"} /\ ~EmptyCall(e) /\ L = 2
  <2>1. it = Binary(e.arg, Child(1), Child(2)) /\ that = Binary(e.arg, Bus(1), Bus(2))
    BY <1>0, <1>14, SMT DEF ByOp, Child, Bus
  <2>2. Child(1) = Bus(1) /\ Child(2) = Bus(2)
    <3>1. L = 2
      BY <1>14, Zenon
    <3> QED BY <1>1, <3>1
  <2> QED BY <2>1, <2>2, Zenon
<1>15. CASE e.op = "helper" /\ e.arg # "is" /\ L = 1
  <2>1. it = Unary(e.arg, TRUE, Child(1)) /\ that = Unary(e.arg, TRUE, Bus(1))
    BY <1>0, <1>15, Zenon DEF ByOp, Child, Bus
  <2>2. Child(1) = Bus(1)
    BY <1>1, <1>15
  <2> QED BY <2>1, <2>2, Zenon
<1>16. CASE e.op = "call" /\ e.arg \notin {"is", "map"} /\ ~EmptyCall(e) /\ L = 1
  <2>1. it = Unary(e.arg, FALSE, Child(1)) /\ that = Unary(e.arg, FALSE, Bus(1))
    BY <1>0, <1>16, Zenon DEF ByOp, Child, Bus
  <2>2. Child(1) = Bus(1)
    BY <1>1, <1>16
  <2> QED BY <2>1, <2>2, Zenon
<1>17. 1 .. 2 = {1, 2}
  OBVIOUS
<1> QED BY <1>2, <1>3, <1>4, <1>5, <1>6, <1>7, <1>8, <1>9, <1>10, <1>11, <1>12, <1>13, <1>14, <1>15, <1>16, <1>17 DEF Formed, e, it, that

(* The meaning of a tree whose nodes can all be given one. *)
LEMMA MeaningFollows ==
  ASSUME NEW b, NEW x \in Values, NEW N \in Nat, DOMAIN b = 1 .. N, \A n \in 1 .. N : Formed(b, x, n)
  PROVE  /\ \A n \in 1 .. N : Meaning(b, x)[n] \in Senses
         /\ \A n \in 1 .. N : Meaning(b, x)[n] = Comes(b, x, Meaning(b, x), n)
<1> DEFINE F == [1 .. N -> Senses]
           step == [n \in 1 .. N |-> [g \in F |-> Comes(b, x, g, n)]]
           Is(f) == f = [n \in DOMAIN b |-> Comes(b, x, f, n)]
           below == CHOOSE f : Is(f)
<1>1. Always(x) \in Senses
  BY AlwaysType DEF Things
<1>2. StepsBelow(step, Senses, N)
  <2>1. ASSUME NEW n \in 1 .. N, NEW g \in F PROVE Comes(b, x, g, n) \in Senses
    <3>1. n \in Nat /\ \A m \in 1 .. n - 1 : m \in 1 .. N
      OBVIOUS
    <3>2. \A m \in 1 .. n - 1 : g[m] \in Senses
      BY <3>1
    <3> QED BY <3>1, <3>2, ComesType
  <2>2. ASSUME NEW n \in 1 .. N, NEW g \in F, NEW h \in F, \A m \in 1 .. n - 1 : g[m] = h[m]
        PROVE  Comes(b, x, g, n) = Comes(b, x, h, n)
    <3>1. n \in Nat
      OBVIOUS
    <3> QED BY <2>2, <3>1, ComesSame
  <2> HIDE DEF F
  <2>3. step \in [1 .. N -> [F -> Senses]]
    BY <2>1
  <2>4. \A n \in 1 .. N : \A g \in F : step[n][g] = Comes(b, x, g, n)
    OBVIOUS
  <2> HIDE DEF step
  <2>5. \A n \in 1 .. N : \A g, h \in F : (\A m \in 1 .. n - 1 : g[m] = h[m]) => step[n][g] = step[n][h]
    BY <2>2, <2>4
  <2> QED BY <2>3, <2>5 DEF StepsBelow, F
<1> HIDE DEF step
<1>3. PICK f : FollowsBelow(f, Senses, N, step)
  BY <1>1, <1>2, RecursionBelow, Zenon
<1>4. f \in F /\ \A n \in 1 .. N : f[n] = Comes(b, x, f, n)
  <2>1. f \in F
    BY <1>3, Zenon DEF FollowsBelow
  <2>2. \A n \in 1 .. N : f[n] = step[n][f]
    BY <1>3, Zenon DEF FollowsBelow
  <2> HIDE DEF F
  <2> QED BY <2>1, <2>2 DEF step
<1>5. Is(f)
  BY <1>4
<1>6. Is(below)
  <2> HIDE DEF Is
  <2> QED BY <1>5, Zenon
<1>7. Meaning(b, x) = below
  BY Zenon DEF Meaning
<1> HIDE DEF below
<1>8. \A n \in 1 .. N : below[n] = Comes(b, x, below, n)
  BY <1>6
<1> DEFINE Good == {n \in 1 .. N : below[n] = f[n]}
<1>9. ASSUME NEW n \in 1 .. N, \A k \in 1 .. n - 1 : k \in Good PROVE n \in Good
  <2>1. \A k \in 1 .. n - 1 : below[k] = f[k]
    BY <1>9
  <2>2. n \in Nat
    OBVIOUS
  <2>3. Comes(b, x, below, n) = Comes(b, x, f, n)
    BY <2>1, <2>2, ComesSame
  <2> QED BY <1>4, <1>8, <2>3
<1>10. \A n \in 1 .. N : n \in Good
  <2> HIDE DEF Good
  <2> QED BY <1>9, InductionUpTo, Zenon
<1>11. \A n \in 1 .. N : below[n] \in Senses
  <2>1. \A n \in 1 .. N : below[n] = f[n]
    BY <1>10
  <2> QED BY <1>4, <2>1
<1> QED BY <1>7, <1>8, <1>11

-----------------------------------------------------------------------------
(* The elements of a container that are compared *)

(* Each of them is an element of the container, and each value of the container is *)
(* the value of one.                                                               *)
LEMMA DistinctFacts ==
  ASSUME NEW b, NEW e, e.subs \in Seq(Nat)
  PROVE  LET elements == Distinct(b, e)
             value(m) == LiteralValue(b, b[m])
         IN  /\ elements \in Seq(Nat)
             /\ \A k \in 1 .. Len(elements) : \E i \in 1 .. Len(e.subs) : elements[k] = e.subs[i]
             /\ \A i \in 1 .. Len(e.subs) : \E k \in 1 .. Len(elements) : value(elements[k]) = value(e.subs[i])
<1> DEFINE subs == e.subs
           N == Len(subs)
           value(m) == LiteralValue(b, b[m])
           again(i) == \E j \in 1 .. i - 1 : value(subs[j]) = value(subs[i])
           next(s, i) == IF again(i) THEN s ELSE Append(s, subs[i])
           Is(f) == f = [i \in 0 .. N |-> IF i = 0 THEN <<>> ELSE next(f[i - 1], i)]
           out == CHOOSE f : Is(f)
           step == [i \in 1 .. N |-> [s \in Seq(Nat) |-> next(s, i)]]
<1>1. N \in Nat /\ subs \in Seq(Nat) /\ \A i \in 1 .. N : subs[i] \in Nat
  OBVIOUS
<1> HIDE DEF subs, value
<1>2. \A s \in Seq(Nat), i \in 1 .. N : next(s, i) \in Seq(Nat)
  BY <1>1
<1> HIDE DEF next
<1>3. Steps(step, Seq(Nat), N)
  BY <1>2 DEF Steps
<1>4. PICK f : Follows(f, Seq(Nat), N, <<>>, step)
  <2>1. <<>> \in Seq(Nat)
    OBVIOUS
  <2> HIDE DEF step, N
  <2> QED BY <1>1, <1>3, <2>1, RecursionUpTo, Zenon
<1>5. Is(f)
  <2>1. \A n \in 1 .. N : n - 1 \in 0 .. N /\ n \in 0 .. N /\ n # 0
    BY <1>1
  <2>2. \A n \in 1 .. N : f[n - 1] \in Seq(Nat)
    BY <1>4, <2>1 DEF Follows
  <2>3. \A n \in 1 .. N : f[n] = next(f[n - 1], n)
    BY <1>4, <2>2 DEF Follows
  <2>4. \A n \in 0 .. N : n = 0 \/ n \in 1 .. N
    BY <1>1
  <2> QED BY <1>4, <2>3, <2>4 DEF Follows
<1>6. Is(out)
  <2> HIDE DEF Is
  <2> QED BY <1>5, Zenon
<1>7. Distinct(b, e) = out[N]
  BY Zenon DEF Distinct, next, again, value, subs
<1> HIDE DEF out
<1>8. out[0] = <<>>
  <2>1. 0 \in 0 .. N
    BY <1>1
  <2> QED BY <1>6, <2>1
<1>9. \A n \in 1 .. N : out[n] = next(out[n - 1], n)
  <2>1. \A n \in 1 .. N : n \in 0 .. N /\ n # 0
    BY <1>1
  <2> QED BY <1>6, <2>1
<1> HIDE DEF Is
<1> DEFINE From(s, n) == \A k \in 1 .. Len(s) : \E i \in 1 .. n : s[k] = subs[i]
           Covers(s, n) == \A i \in 1 .. n : \E k \in 1 .. Len(s) : value(s[k]) = value(subs[i])
           Good == {n \in 0 .. N : out[n] \in Seq(Nat) /\ From(out[n], n) /\ Covers(out[n], n)}
<1>10. 0 \in Good
  <2>1. 0 \in 0 .. N /\ out[0] \in Seq(Nat) /\ Len(out[0]) = 0
    BY <1>1, <1>8
  <2>2. From(out[0], 0) /\ Covers(out[0], 0)
    BY <2>1
  <2> HIDE DEF From, Covers
  <2> QED BY <2>1, <2>2
<1>11. ASSUME NEW n \in 1 .. N, n - 1 \in Good PROVE n \in Good
  <2> DEFINE s == out[n - 1]
  <2>1. s \in Seq(Nat) /\ From(s, n - 1) /\ Covers(s, n - 1)
    BY <1>11
  <2>2. out[n] = IF again(n) THEN s ELSE Append(s, subs[n])
    BY <1>9 DEF next
  <2> HIDE DEF s
  <2>3. n \in 0 .. N /\ subs[n] \in Nat /\ \A i \in 1 .. n : i \in 1 .. n - 1 \/ i = n
    BY <1>1
  <2>4. CASE again(n)
    <3>1. PICK j \in 1 .. n - 1 : value(subs[j]) = value(subs[n])
      BY <2>4
    <3>2. PICK k \in 1 .. Len(s) : value(s[k]) = value(subs[j])
      BY <2>1
    <3>3. Covers(s, n)
      BY <2>1, <2>3, <3>1, <3>2
    <3>4. From(s, n)
      BY <2>1
    <3> QED BY <2>1, <2>2, <2>3, <2>4, <3>3, <3>4
  <2>5. CASE ~again(n)
    <3> DEFINE r == Append(s, subs[n])
    <3>1. /\ r \in Seq(Nat) /\ Len(r) = Len(s) + 1 /\ r[Len(s) + 1] = subs[n]
          /\ \A k \in 1 .. Len(s) : r[k] = s[k]
          /\ Len(s) \in Nat
      BY <2>1, <2>3
    <3> HIDE DEF r
    <3>2. From(r, n)
      <4>1. ASSUME NEW k \in 1 .. Len(r) PROVE \E i \in 1 .. n : r[k] = subs[i]
        <5>1. CASE k = Len(s) + 1
          BY <3>1, <5>1
        <5>2. CASE k # Len(s) + 1
          <6>1. k \in 1 .. Len(s)
            BY <3>1, <5>2
          <6>2. PICK i \in 1 .. n - 1 : s[k] = subs[i]
            BY <2>1, <6>1
          <6>3. r[k] = s[k] /\ i \in 1 .. n
            BY <3>1, <6>1
          <6> QED BY <6>2, <6>3
        <5> QED BY <5>1, <5>2
      <4> QED BY <4>1
    <3>3. Covers(r, n)
      <4>1. ASSUME NEW i \in 1 .. n PROVE \E k \in 1 .. Len(r) : value(r[k]) = value(subs[i])
        <5>1. CASE i = n
          BY <3>1, <5>1
        <5>2. CASE i \in 1 .. n - 1
          <6>1. PICK k \in 1 .. Len(s) : value(s[k]) = value(subs[i])
            BY <2>1, <5>2
          <6>2. k \in 1 .. Len(r) /\ r[k] = s[k]
            BY <3>1
          <6> QED BY <6>1, <6>2
        <5> QED BY <2>3, <5>1, <5>2
      <4> QED BY <4>1
    <3>4. out[n] = r
      BY <2>2, <2>5 DEF r
    <3> QED BY <2>3, <3>1, <3>2, <3>3, <3>4
  <2> QED BY <2>4, <2>5
<1>12. \A n \in 0 .. N : n \in Good
  <2> HIDE DEF Good
  <2> QED BY <1>1, <1>10, <1>11, InductionFromZero, Zenon
<1>13. N \in Good
  BY <1>1, <1>12
<1> QED BY <1>7, <1>13 DEF subs, value

-----------------------------------------------------------------------------
(* Trees and their rewriting *)

\* The number of nodes, which is the root.
TreeSize(t) == Len(Body(t))

(* The source of a target: nodes in their order, the root last. *)
LEMMA BodyFacts ==
  ASSUME NEW t \in Targets
  PROVE  /\ TreeSize(t) \in Nat \ {0} /\ DOMAIN Body(t) = 1 .. TreeSize(t)
         /\ \A n \in 1 .. TreeSize(t) : Body(t)[n] \in Node /\ Shaped(Body(t), n)
         /\ IsExpression(Body(t)[TreeSize(t)])
<1>1. Body(t) \in Seq(Node) /\ Body(t) # <<>>
  BY RewritingAssumption DEF WellFormed
<1>2. TreeSize(t) \in Nat \ {0} /\ DOMAIN Body(t) = 1 .. TreeSize(t)
  BY <1>1 DEF TreeSize
<1>3. /\ \A n \in DOMAIN Body(t) : Shaped(Body(t), n)
      /\ IsExpression(Body(t)[Len(Body(t))])
  BY RewritingAssumption DEF WellFormed
<1> QED BY <1>1, <1>2, <1>3 DEF TreeSize

(* The fields of a node. *)
LEMMA NodeParts ==
  ASSUME NEW e \in Node
  PROVE  /\ e.line \in Nat /\ e.col \in Nat /\ e.op \in STRING /\ e.arg \in STRING
         /\ e.ops \in Seq(STRING) /\ e.value \in Values /\ e.subs \in Seq(Nat) /\ e.chain \in Nat
         /\ Len(e.subs) \in Nat /\ Len(e.ops) \in Nat /\ DOMAIN e.subs = 1 .. Len(e.subs)
         /\ DOMAIN e.ops = 1 .. Len(e.ops)
<1>1. /\ e.line \in Nat /\ e.col \in Nat /\ e.op \in STRING /\ e.arg \in STRING
      /\ e.ops \in Seq(STRING) /\ e.value \in Values /\ e.subs \in Seq(Nat) /\ e.chain \in Nat
  BY DEF Node
<1> QED BY <1>1

(* A record with the fields of a node. *)
WholeNode(e) ==
    e \in [line : {e.line}, col : {e.col}, op : {e.op}, arg : {e.arg}, ops : {e.ops}, value : {e.value},
           subs : {e.subs}, chain : {e.chain}]

(* A node has the fields of a node. *)
LEMMA NodeWhole ==
  ASSUME NEW e \in Node
  PROVE  WholeNode(e)
BY DEF WholeNode, Node

(* A call of a helper in the place of a node. *)
LEMMA HelperParts ==
  ASSUME NEW e, WholeNode(e), NEW name, NEW subs
  PROVE  LET f == Helper(name, subs, e)
         IN  /\ WholeNode(f)
             /\ f.op = "helper" /\ f.arg = name /\ f.subs = subs /\ f.ops = e.ops /\ f.value = e.value /\ f.col = e.col
<1> DEFINE f == Helper(name, subs, e)
<1>1. e \in [line : {e.line}, col : {e.col}, op : {e.op}, arg : {e.arg}, ops : {e.ops}, value : {e.value},
             subs : {e.subs}, chain : {e.chain}]
  BY DEF WholeNode
<1>2. f.op = "helper" /\ f.arg = name /\ f.subs = subs /\ f.ops = e.ops /\ f.value = e.value /\ f.col = e.col
      /\ f.line = e.line /\ f.chain = e.chain
  BY <1>1 DEF Helper
<1>3. f \in [line : {e.line}, col : {e.col}, op : {"helper"}, arg : {name}, ops : {e.ops}, value : {e.value},
             subs : {subs}, chain : {e.chain}]
  BY <1>1 DEF Helper
<1>4. WholeNode(f)
  <2> HIDE DEF f
  <2> QED BY <1>2, <1>3 DEF WholeNode
<1> QED BY <1>2, <1>4

(* What ConcolicCallRewriter makes of a node, case by case. *)
LEMMA CallRewriting ==
  ASSUME NEW b, NEW e
  PROVE  LET converts == e.op = "call" /\ e.arg \in {"int", "str"} /\ Len(e.subs) = 1
             ranges == e.op = "call" /\ e.arg = "range"
             f == RewriteCall(b, e)
         IN  /\ converts \/ ranges => f = Helper(e.arg, e.subs, e)
             /\ IsMapInt(b, e) => f = Helper("map", <<e.subs[2]>>, e)
             /\ ~converts /\ ~ranges /\ ~IsMapInt(b, e) => f = e
<1> DEFINE C1 == e.op = "call" /\ e.arg \in {"int", "str"} /\ Len(e.subs) = 1
           C2 == e.op = "call" /\ e.arg = "range"
           C3 == IsMapInt(b, e)
           R1 == Helper(e.arg, e.subs, e)
           R3 == Helper("map", <<e.subs[2]>>, e)
           it == RewriteCall(b, e)
<1>1. it = CASE C1 -> R1 [] C2 -> R1 [] C3 -> R3 [] OTHER -> e
  BY Zenon DEF RewriteCall
<1>2. (C1 => ~C2 /\ ~C3) /\ (C2 => ~C3)
  BY DEF IsMapInt
<1> HIDE DEF C1, C2, C3, R1, R3, it
<1>3. /\ C1 /\ ~C2 /\ ~C3 => it = R1
      /\ C2 /\ ~C1 /\ ~C3 => it = R1
      /\ C3 /\ ~C1 /\ ~C2 => it = R3
      /\ ~C1 /\ ~C2 /\ ~C3 => it = e
  BY <1>1, Zenon
<1>4. (C1 \/ C2 => it = R1) /\ (C3 => it = R3) /\ (~C1 /\ ~C2 /\ ~C3 => it = e)
  BY <1>2, <1>3, Zenon
<1> QED BY <1>4 DEF C1, C2, C3, R1, R3, it

(* Both transformers go over all nodes of the source. *)
LEMMA CallsFacts ==
  ASSUME NEW t \in Targets
  PROVE  /\ DOMAIN CallsRewritten[t] = 1 .. TreeSize(t)
         /\ \A n \in 1 .. TreeSize(t) : CallsRewritten[t][n] = RewriteCall(Body(t), Body(t)[n])
         /\ DOMAIN Rewritten[t] = 1 .. TreeSize(t)
         /\ \A n \in 1 .. TreeSize(t) : Rewritten[t][n] = RewriteCompare(CallsRewritten[t], CallsRewritten[t][n])
BY BodyFacts DEF CallsRewritten, Rewritten

(* What ConcolicCompareRewriter makes of a node, case by case. *)
LEMMA CompareRewriting ==
  ASSUME NEW c, NEW e
  PROVE  LET identity == IsSingle(e) /\ e.ops[1] = "is" /\ BecomesSentinel(c, c[e.subs[2]])
             f == RewriteCompare(c, e)
         IN  /\ identity => f = Helper("is", e.subs, e)
             /\ IsRewritten(c, e) => f = RewriteMembership(c, e)
             /\ ~identity /\ ~IsRewritten(c, e) => f = e
<1> DEFINE C1 == IsSingle(e) /\ e.ops[1] = "is" /\ BecomesSentinel(c, c[e.subs[2]])
           C2 == IsRewritten(c, e)
           R1 == Helper("is", e.subs, e)
           R2 == RewriteMembership(c, e)
           it == RewriteCompare(c, e)
<1>1. it = CASE C1 -> R1 [] C2 -> R2 [] OTHER -> e
  BY Zenon DEF RewriteCompare
<1>2. C1 => ~C2
  BY DEF IsRewritten, IsMembership
<1> HIDE DEF C1, C2, R1, R2, it
<1>3. /\ C1 /\ ~C2 => it = R1
      /\ C2 /\ ~C1 => it = R2
      /\ ~C1 /\ ~C2 => it = e
  BY <1>1, Zenon
<1>4. (C1 => it = R1) /\ (C2 => it = R2) /\ (~C1 /\ ~C2 => it = e)
  BY <1>2, <1>3, Zenon
<1> QED BY <1>4 DEF C1, C2, R1, R2, it

(* What _rewrite_membership returns: a constant, or the equalities of a test. *)
LEMMA MembershipParts ==
  ASSUME NEW c, NEW e, WholeNode(e)
  PROVE  LET f == RewriteMembership(c, e)
             elements == Distinct(c, c[e.subs[2]])
         IN  /\ WholeNode(f)
             /\ elements = <<>> =>
                  f.op = "const" /\ f.value = Bool(e.ops[1] = "notin") /\ f.subs = <<>>
             /\ elements # <<>> =>
                  /\ f.op = "tests" /\ f.subs = <<e.subs[1]>> \o elements
                  /\ f.ops = IF e.ops[1] = "in" THEN <<"or", "tagged==">> ELSE <<"and", "tagged!=">>
             /\ f.col = e.col
<1> DEFINE elements == Distinct(c, c[e.subs[2]])
           value == Bool(e.ops[1] = "notin")
           subs == <<e.subs[1]>> \o elements
           ops == IF e.ops[1] = "in" THEN <<"or", "tagged==">> ELSE <<"and", "tagged!=">>
           f == RewriteMembership(c, e)
<1>1. f = IF elements = <<>> THEN [e EXCEPT !.op = "const", !.value = value, !.subs = <<>>]
          ELSE [e EXCEPT !.op = "tests", !.subs = subs, !.ops = ops]
  BY Zenon DEF RewriteMembership
<1> HIDE DEF elements, value, subs, ops, f
<1>2. e \in [line : {e.line}, col : {e.col}, op : {e.op}, arg : {e.arg}, ops : {e.ops}, value : {e.value},
             subs : {e.subs}, chain : {e.chain}]
  BY DEF WholeNode
<1>3. /\ elements = <<>> => f.op = "const" /\ f.value = value /\ f.subs = <<>>
      /\ elements # <<>> => f.op = "tests" /\ f.subs = subs /\ f.ops = ops
      /\ f.col = e.col
  BY <1>1, <1>2
<1>4. CASE elements = <<>>
  <2>1. f \in [line : {e.line}, col : {e.col}, op : {"const"}, arg : {e.arg}, ops : {e.ops}, value : {value},
               subs : {<<>>}, chain : {e.chain}]
    BY <1>1, <1>2, <1>4
  <2>2. WholeNode(f)
    BY <2>1 DEF WholeNode
  <2> QED BY <1>3, <1>4, <2>2 DEF elements, value, subs, ops, f
<1>5. CASE elements # <<>>
  <2>1. f \in [line : {e.line}, col : {e.col}, op : {"tests"}, arg : {e.arg}, ops : {ops}, value : {e.value},
               subs : {subs}, chain : {e.chain}]
    BY <1>1, <1>2, <1>5
  <2>2. WholeNode(f)
    BY <2>1 DEF WholeNode
  <2> QED BY <1>3, <1>5, <2>2 DEF elements, value, subs, ops, f
<1> QED BY <1>4, <1>5

(* Only calls are rewritten by the first transformer, and none into another kind of node. *)
LEMMA CallsSame ==
  ASSUME NEW t \in Targets, NEW n \in 1 .. TreeSize(t)
  PROVE  LET e == Body(t)[n]
             c == CallsRewritten[t][n]
         IN  /\ e.op # "call" \/ EmptyCall(e) => c = e
             /\ e.op = "call" /\ ~EmptyCall(e) =>
                  /\ c.op \in {"call", "helper"} /\ ~EmptyCall(c)
                  /\ c = e \/ c.op = "helper"
<1> DEFINE e == Body(t)[n]
           c == CallsRewritten[t][n]
<1>1. e \in Node /\ c = RewriteCall(Body(t), e)
  BY BodyFacts, CallsFacts
<1>2. EmptyCall(e) => e.arg \in EmptyConstructors /\ e.subs = <<>> /\ Len(e.subs) = 0
  BY DEF EmptyCall
<1>3. IsMapInt(Body(t), e) => e.op = "call" /\ e.arg = "map"
  BY DEF IsMapInt
<1> HIDE DEF e, c
<1>4. ASSUME e.op # "call" \/ EmptyCall(e) PROVE c = e
  <2>1. ~IsMapInt(Body(t), e) /\ ~(e.op = "call" /\ e.arg = "range") /\ ~(e.op = "call" /\ e.arg \in {"int", "str"})
    BY <1>2, <1>3, <1>4 DEF EmptyConstructors
  <2> QED BY <1>1, <2>1, CallRewriting
<1>5. ASSUME e.op = "call", ~EmptyCall(e) PROVE c = e \/ c.op = "helper"
  <2>1. \A name, subs : Helper(name, subs, e).op = "helper"
    BY <1>1, NodeWhole, HelperParts
  <2>2. \/ c = e
        \/ \E name, subs : c = Helper(name, subs, e)
    BY <1>1, CallRewriting
  <2> QED BY <2>1, <2>2
<1>6. c.op = "helper" => ~EmptyCall(c)
  BY DEF EmptyCall
<1> QED BY <1>4, <1>5, <1>6 DEF e, c

(* Nothing changes in a node that is neither a call nor a comparison, and its place never does. *)
LEMMA RewrittenWhole ==
  ASSUME NEW t \in Targets, NEW n \in 1 .. TreeSize(t)
  PROVE  /\ WholeNode(CallsRewritten[t][n]) /\ CallsRewritten[t][n].col = Body(t)[n].col
         /\ WholeNode(Rewritten[t][n]) /\ Rewritten[t][n].col = Body(t)[n].col
<1> DEFINE b == Body(t)
           e == b[n]
           c == CallsRewritten[t][n]
           f == Rewritten[t][n]
<1>1. WholeNode(e) /\ c = RewriteCall(b, e) /\ f = RewriteCompare(CallsRewritten[t], c)
  BY BodyFacts, CallsFacts, NodeWhole
<1> HIDE DEF e, c, f
<1>2. WholeNode(c) /\ c.col = e.col
  <2>1. c = e \/ \E name, subs : c = Helper(name, subs, e)
    BY <1>1, CallRewriting
  <2> QED BY <1>1, <2>1, HelperParts
<1>3. WholeNode(f) /\ f.col = c.col
  <2>1. f = c \/ (\E name, subs : f = Helper(name, subs, c)) \/ f = RewriteMembership(CallsRewritten[t], c)
    BY <1>1, CompareRewriting
  <2>2. \A name, subs : LET g == Helper(name, subs, c) IN WholeNode(g) /\ g.col = c.col
    BY <1>2, HelperParts
  <2>3. LET g == RewriteMembership(CallsRewritten[t], c) IN WholeNode(g) /\ g.col = c.col
    BY <1>2, MembershipParts
  <2> QED BY <1>2, <2>1, <2>2, <2>3
<1> QED BY <1>2, <1>3 DEF b, e, c, f

(* The same node but for its place in the file and its chain id. *)
Alike(e, f) == f.op = e.op /\ f.arg = e.arg /\ f.ops = e.ops /\ f.value = e.value /\ f.subs = e.subs

(* A compiled node is the rewritten one, in its line and under its chain id. *)
LEMMA CompiledParts ==
  ASSUME NEW t \in Targets, NEW drawn
  PROVE  /\ DOMAIN Compiled(t, drawn) = 1 .. TreeSize(t)
         /\ \A n \in 1 .. TreeSize(t) :
              LET f == Compiled(t, drawn)[n]
              IN  /\ Alike(Rewritten[t][n], f)
                  /\ f.col = Body(t)[n].col /\ f.line = Shifted(t, n)
                  /\ f.chain = IF n \in Tagged(t) THEN ChainFor(t, drawn, n) ELSE NoChain
<1>1. DOMAIN Body(t) = 1 .. TreeSize(t)
  BY BodyFacts
<1>2. DOMAIN Compiled(t, drawn) = 1 .. TreeSize(t)
  BY <1>1 DEF Compiled
<1>3. ASSUME NEW n \in 1 .. TreeSize(t)
      PROVE  LET f == Compiled(t, drawn)[n]
             IN  /\ Alike(Rewritten[t][n], f)
                 /\ f.col = Body(t)[n].col /\ f.line = Shifted(t, n)
                 /\ f.chain = IF n \in Tagged(t) THEN ChainFor(t, drawn, n) ELSE NoChain
  <2> DEFINE e == Rewritten[t][n]
             line == Shifted(t, n)
             chain == IF n \in Tagged(t) THEN ChainFor(t, drawn, n) ELSE NoChain
             f == Compiled(t, drawn)[n]
  <2>1. f = [e EXCEPT !.line = line, !.chain = chain]
    BY <1>1 DEF Compiled
  <2>2. WholeNode(e) /\ e.col = Body(t)[n].col
    BY RewrittenWhole
  <2> HIDE DEF e, line, chain, f
  <2>3. Alike(e, f) /\ f.col = e.col /\ f.line = line /\ f.chain = chain
    <3>1. e \in [line : {e.line}, col : {e.col}, op : {e.op}, arg : {e.arg}, ops : {e.ops}, value : {e.value},
             subs : {e.subs}, chain : {e.chain}]
  BY <2>2 DEF WholeNode
    <3> QED BY <2>1, <3>1 DEF Alike
  <2> QED BY <2>2, <2>3 DEF e, f, line, chain
<1> QED BY <1>2, <1>3

\* A container whose elements are all literals.
AllLiteral(b, g) == \A i \in 1 .. Len(g.subs) : IsLiteralElement(b[g.subs[i]])

\* Nodes that stand for the values of a container.
Draws(b, g, elements) ==
    /\ elements \in Seq(Nat)
    /\ \A k \in 1 .. Len(elements) : \E i \in 1 .. Len(g.subs) : elements[k] = g.subs[i]
    /\ \A i \in 1 .. Len(g.subs) : \E k \in 1 .. Len(elements) :
         LiteralValue(b, b[elements[k]]) = LiteralValue(b, b[g.subs[i]])

\* Subtrees of one tree of a comparison: its second operand.
Second(b, e) == b[e.subs[2]]

(* A comparison of the source has the shape the model gives comparisons. *)
LEMMA CompareShape ==
  ASSUME NEW t \in Targets, NEW n \in 1 .. TreeSize(t), Body(t)[n].op = "compare"
  PROVE  ComparesWell(Body(t), Body(t)[n])
<1> DEFINE e == Body(t)[n]
<1>1. Shaped(Body(t), n)
  BY BodyFacts
<1> HIDE DEF e
<1>2. e.op = "compare"
  BY DEF e
<1> QED BY <1>1, <1>2 DEF Shaped, e, Containers

(* The children of a node are nodes that come before it. *)
LEMMA SubsBefore ==
  ASSUME NEW t \in Targets, NEW n \in 1 .. TreeSize(t), NEW i \in 1 .. Len(Body(t)[n].subs)
  PROVE  /\ Body(t)[n].subs[i] \in 1 .. n - 1 /\ Body(t)[n].subs[i] \in 1 .. TreeSize(t)
         /\ TreeSize(t) \in Nat /\ Body(t)[Body(t)[n].subs[i]] \in Node
<1>1. Shaped(Body(t), n) /\ Body(t)[n] \in Node /\ TreeSize(t) \in Nat
  BY BodyFacts
<1>2. i \in DOMAIN Body(t)[n].subs
  BY <1>1, NodeParts
<1>3. Body(t)[n].subs[i] \in 1 .. n - 1
  BY <1>1, <1>2 DEF Shaped
<1>4. Body(t)[n].subs[i] \in 1 .. TreeSize(t)
  BY <1>1, <1>3
<1> QED BY <1>1, <1>3, <1>4, BodyFacts

(* A membership test and its container are as in the source when the second transformer *)
(* meets them.                                                                          *)
LEMMA MembershipSame ==
  ASSUME NEW t \in Targets, NEW n \in 1 .. TreeSize(t), IsMembership(Body(t)[n])
  PROVE  LET b == Body(t)
             c == CallsRewritten[t]
             e == b[n]
             g == Second(b, e)
         IN  /\ Len(e.subs) = 2 /\ IsContainer(g) /\ IsExpression(b[e.subs[1]])
             /\ c[n] = e /\ c[e.subs[2]] = g
             /\ g \in Node
             /\ IsRewritten(c, e) <=> AllLiteral(b, g)
             /\ AllLiteral(b, g) => Draws(b, g, Distinct(c, g))
<1> DEFINE b == Body(t)
           c == CallsRewritten[t]
           e == b[n]
           m == e.subs[2]
           g == b[m]
<1>1. e \in Node /\ e.op = "compare" /\ Len(e.ops) = 1 /\ e.ops[1] \in {"in", "notin"}
  BY BodyFacts DEF IsMembership, IsSingle
<1>2. ComparesWell(b, e)
  BY <1>1, CompareShape
<1>3. Len(e.subs) = 2 /\ IsContainer(g) /\ IsExpression(b[e.subs[1]])
  <2>1. 1 \in DOMAIN e.ops
    <3> HIDE DEF e
    <3> QED BY <1>1, NodeParts
  <2> HIDE DEF b, e
  <2>2. Len(e.subs) = 2
    <3>1. Len(e.subs) = Len(e.ops) + 1
      BY <1>2, Zenon DEF ComparesWell
    <3> QED BY <1>1, <3>1
  <2>3. /\ IsExpression(b[e.subs[1]])
        /\ e.ops[1] \in {"==", "!=", "is"} \/ IsContainer(b[e.subs[1 + 1]])
    BY <1>2, <2>1, Zenon DEF ComparesWell
  <2> QED BY <1>1, <2>2, <2>3
<1>4. m \in 1 .. TreeSize(t) /\ g \in Node
  <2>1. 2 \in 1 .. Len(Body(t)[n].subs)
    BY <1>3
  <2> QED BY <2>1, SubsBefore, Zenon
<1>5. c[n] = e
  BY <1>1, CallsSame
<1>6. c[m] = g
  <2>1. g.op # "call" \/ EmptyCall(g)
    BY <1>3 DEF IsContainer, Containers
  <2> QED BY <1>4, <2>1, CallsSame
<1>7. g.subs \in Seq(Nat) /\ DOMAIN g.subs = 1 .. Len(g.subs)
  BY <1>4, NodeParts
<1>8. ASSUME NEW i \in 1 .. Len(g.subs)
      PROVE  /\ g.subs[i] \in 1 .. TreeSize(t)
             /\ IsLiteralElement(c[g.subs[i]]) <=> IsLiteralElement(b[g.subs[i]])
             /\ IsLiteralElement(b[g.subs[i]]) =>
                  LiteralValue(c, c[g.subs[i]]) = LiteralValue(b, b[g.subs[i]])
  <2> DEFINE k == g.subs[i]
             d == b[k]
  <2>1. k \in 1 .. TreeSize(t) /\ d \in Node
    BY <1>4, SubsBefore
  <2>2. (d.op # "call" => c[k] = d) /\ (d.op = "call" => c[k].op \in {"call", "helper"})
    <3>1. EmptyCall(d) => d.op = "call"
      BY DEF EmptyCall
    <3> QED BY <2>1, <3>1, CallsSame
  <2>3. IsLiteralElement(c[k]) <=> IsLiteralElement(d)
    <3> HIDE DEF b, c, d, k
    <3> QED BY <2>2 DEF IsLiteralElement
  <2>4. ASSUME IsLiteralElement(d) PROVE LiteralValue(c, c[k]) = LiteralValue(b, d)
    <3>1. c[k] = d
      <4> HIDE DEF b, c, d, k
      <4> QED BY <2>2, <2>4 DEF IsLiteralElement
    <3>2. CASE d.op = "const"
      <4> HIDE DEF b, c, d, k
      <4> QED BY <3>1, <3>2 DEF LiteralValue
    <3>3. CASE d.op = "minus"
      <4>1. Shaped(b, k)
        BY <2>1, BodyFacts
      <4>2. 1 \in 1 .. Len(d.subs) /\ b[d.subs[1]].op = "const"
        <5> HIDE DEF b, k
        <5> QED BY <3>3, <4>1 DEF Shaped, Containers
      <4>3. d.subs[1] \in 1 .. TreeSize(t)
        <5>1. 1 \in 1 .. Len(Body(t)[k].subs)
          BY <4>2, Zenon
        <5> HIDE DEF k
        <5> QED BY <2>1, <5>1, SubsBefore, Zenon
      <4> DEFINE j == d.subs[1]
      <4>4. c[j] = b[j]
        <5>1. j \in 1 .. TreeSize(t) /\ Body(t)[j].op = "const"
          BY <4>2, <4>3, Zenon
        <5> HIDE DEF j
        <5>2. Body(t)[j].op # "call"
          BY <5>1
        <5> QED BY ONLY <5>1, <5>2, t \in Targets, CallsSame, Zenon
      <4> HIDE DEF b, c, d, k
      <4> QED BY <3>1, <3>3, <4>4 DEF LiteralValue
    <3> HIDE DEF b, c, d, k
    <3> QED BY <2>4, <3>2, <3>3 DEF IsLiteralElement
  <2> QED BY <2>1, <2>3, <2>4
<1> HIDE DEF b, c, e, g, m
<1>9. IsRewritten(c, e) <=> AllLiteral(b, g)
  <2>1. IsRewritten(c, e) <=> IsLiteralContainer(c, g)
    <3>1. IsMembership(e) /\ c[e.subs[2]] = g
      BY <1>6 DEF e, m, b
    <3> QED BY <3>1, Zenon DEF IsRewritten
  <2>2. IsLiteralContainer(c, g) <=> AllLiteral(b, g)
    BY <1>3, <1>7, <1>8 DEF IsLiteralContainer, AllLiteral
  <2> QED BY <2>1, <2>2
<1>10. ASSUME AllLiteral(b, g) PROVE Draws(b, g, Distinct(c, g))
  <2> DEFINE elements == Distinct(c, g)
  <2>1. /\ elements \in Seq(Nat)
        /\ \A k \in 1 .. Len(elements) : \E i \in 1 .. Len(g.subs) : elements[k] = g.subs[i]
        /\ \A i \in 1 .. Len(g.subs) : \E k \in 1 .. Len(elements) :
             LiteralValue(c, c[elements[k]]) = LiteralValue(c, c[g.subs[i]])
    BY <1>7, DistinctFacts
  <2> HIDE DEF elements
  <2>2. \A i \in 1 .. Len(g.subs) : LiteralValue(c, c[g.subs[i]]) = LiteralValue(b, b[g.subs[i]])
    BY <1>8, <1>10 DEF AllLiteral
  <2>3. \A k \in 1 .. Len(elements) : LiteralValue(c, c[elements[k]]) = LiteralValue(b, b[elements[k]])
    BY <2>1, <2>2
  <2> QED BY <2>1, <2>2, <2>3 DEF Draws, elements
<1> QED BY <1>3, <1>4, <1>5, <1>6, <1>9, <1>10 DEF b, c, e, g, m, Second

\* What becomes of a node e of the tree b.
LeftAlone(e, f) ==
    /\ Alike(e, f)
    /\ \/ e.op \notin {"compare", "call"}
       \/ EmptyCall(e)
       \/ e.op = "call" /\ e.arg \in {"int", "str"} /\ Len(e.subs) = 2
       \/ e.op = "call" /\ e.arg = "map" /\ Len(e.subs) = 2
\* A comparison no rewriter touches, and below what the rewriters make of the others.
KeptCompare(b, e, f) ==
    /\ Alike(e, f) /\ e.op = "compare"
    /\ ~(IsSingle(e) /\ e.ops[1] = "is" /\ IsSentinel(Second(b, e)))
Helped(e, f) ==
    /\ e.op = "call" /\ e.arg \in {"int", "str", "range"} /\ Len(e.subs) \in 1 .. 2
    /\ f.op = "helper" /\ f.arg = e.arg /\ f.subs = e.subs
Expanded(b, e, f) == IsMapInt(b, e) /\ f.op = "helper" /\ f.arg = "map" /\ f.subs = <<e.subs[2]>>
Unwrapping(b, e, f) ==
    /\ IsSingle(e) /\ e.ops[1] = "is"
    /\ f.op = "helper" /\ f.arg = "is" /\ f.subs = e.subs
Decides(b, e, f) ==
    /\ IsMembership(e) /\ AllLiteral(b, Second(b, e)) /\ Draws(b, Second(b, e), <<>>)
    /\ f.op = "const" /\ f.value = Bool(e.ops[1] = "notin") /\ f.subs = <<>>
Tests(b, e, f, elements) ==
    /\ IsMembership(e) /\ AllLiteral(b, Second(b, e)) /\ Draws(b, Second(b, e), elements) /\ elements # <<>>
    /\ f.op = "tests" /\ f.subs = <<e.subs[1]>> \o elements
    /\ f.ops = IF e.ops[1] = "in" THEN <<"or", "tagged==">> ELSE <<"and", "tagged!=">>

Renders(b, e, f, elements) ==
    \/ LeftAlone(e, f)
    \/ KeptCompare(b, e, f)
    \/ Helped(e, f)
    \/ Expanded(b, e, f)
    \/ Unwrapping(b, e, f)
    \/ Decides(b, e, f) /\ elements = <<>>
    \/ Tests(b, e, f, elements)

(* Every compiled node is its source node, or one of the six ways to render it. *)
LEMMA NodeRenders ==
  ASSUME NEW t \in Targets, NEW drawn, NEW n \in 1 .. TreeSize(t)
  PROVE  LET b == Body(t)
             e == b[n]
         IN  Renders(b, e, Compiled(t, drawn)[n], Distinct(CallsRewritten[t], Second(b, e)))
<1> DEFINE b == Body(t)
           c == CallsRewritten[t]
           e == b[n]
           d == c[n]
           m == Rewritten[t][n]
           f == Compiled(t, drawn)[n]
           elements == Distinct(c, Second(b, e))
<1> SUFFICES Renders(b, e, f, elements)
  OBVIOUS
<1>1. /\ e \in Node /\ WholeNode(d) /\ WholeNode(m) /\ Alike(m, f)
      /\ d = RewriteCall(b, e) /\ m = RewriteCompare(c, d)
  BY BodyFacts, CallsFacts, RewrittenWhole, CompiledParts
<1>2. Shaped(b, n)
  BY BodyFacts
<1>3. ASSUME d.op # "compare" PROVE m = d
  <2>1. ~IsSingle(d) /\ ~IsRewritten(c, d)
    BY <1>3 DEF IsSingle, IsRewritten, IsMembership
  <2> QED BY <1>1, <2>1, CompareRewriting
<1>4. Len(e.subs) \in Nat
  BY <1>1, NodeParts
<1>5. CASE e.op \notin {"call", "compare"} \/ EmptyCall(e)
  <2>1. d = e
    BY <1>5, CallsSame
  <2>2. e.op # "compare"
    BY <1>5 DEF EmptyCall
  <2>3. Alike(e, f)
    BY <1>1, <1>3, <2>1, <2>2
  <2>4. LeftAlone(e, f)
    <3> HIDE DEF e, f
    <3> QED BY <1>5, <2>2, <2>3 DEF LeftAlone
  <2> QED BY <2>4 DEF Renders
<1>6. CASE e.op = "call" /\ ~EmptyCall(e)
  <2>1. d.op # "compare"
    BY <1>6, CallsSame
  <2>2. m = d
    BY <1>3, <2>1
  <2>3. CallsWell(b, e)
    <3> HIDE DEF b
    <3>1. e.op = "call"
      BY <1>6
    <3> QED BY <1>2, <3>1 DEF Shaped, Containers
  <2>4. \/ e.arg \in {"int", "str", "range"} /\ Len(e.subs) \in 1 .. 2
        \/ e.arg = "map" /\ Len(e.subs) = 2
    BY <1>6, <2>3 DEF CallsWell
  <2>5. d = RewriteCall(b, e) /\ Alike(d, f) /\ WholeNode(e)
    BY <1>1, <2>2, NodeWhole
  <2>6. (IsMapInt(b, e) => e.arg = "map") /\ (e.arg = "map" => ~(e.arg \in {"int", "str"}) /\ e.arg # "range")
    BY DEF IsMapInt
  <2>7. 1 .. 2 = {1, 2}
    OBVIOUS
  <2> HIDE DEF d, e, f
  <2>8. CASE e.arg = "map" /\ Len(e.subs) = 2 /\ ~IsMapInt(b, e)
    <3>1. d = e
      BY <2>5, <2>6, <2>8, CallRewriting
    <3>2. LeftAlone(e, f)
      BY <1>6, <2>5, <2>8, <3>1 DEF LeftAlone
    <3> QED BY <3>2 DEF Renders
  <2>9. CASE IsMapInt(b, e)
    <3>1. d = Helper("map", <<e.subs[2]>>, e)
      BY <2>5, <2>9, CallRewriting
    <3>2. Expanded(b, e, f)
      BY <2>5, <2>9, <3>1, HelperParts DEF Expanded, Alike
    <3> QED BY <3>2 DEF Renders
  <2>10. CASE e.arg \in {"int", "str"} /\ Len(e.subs) = 2
    <3>1. ~IsMapInt(b, e) /\ e.arg # "range" /\ Len(e.subs) # 1
      BY <2>6, <2>10
    <3>2. d = e
      BY <2>5, <3>1, CallRewriting
    <3>3. LeftAlone(e, f)
      BY <1>6, <2>5, <2>10, <3>2 DEF LeftAlone
    <3> QED BY <3>3 DEF Renders
  <2>11. CASE \/ e.arg = "range" /\ Len(e.subs) \in 1 .. 2
              \/ e.arg \in {"int", "str"} /\ Len(e.subs) = 1
    <3>1. d = Helper(e.arg, e.subs, e)
      BY <1>6, <2>5, <2>11, CallRewriting
    <3>2. Helped(e, f)
      BY <1>6, <2>4, <2>5, <2>11, <3>1, HelperParts DEF Helped, Alike
    <3> QED BY <3>2 DEF Renders
  <2> QED BY <2>4, <2>7, <2>8, <2>9, <2>10, <2>11
<1>7. CASE e.op = "compare"
  <2>1. d = e
    BY <1>7, CallsSame
  <2>2. m = RewriteCompare(c, e) /\ Alike(m, f) /\ WholeNode(e)
    BY <1>1, <2>1
  <2>3. ComparesWell(b, e)
    BY <1>7, CompareShape
  <2>4. ASSUME IsSingle(e) PROVE IsSentinel(c[e.subs[2]]) <=> IsSentinel(Second(b, e))
    <3> DEFINE k == e.subs[2]
    <3>1. 2 \in 1 .. Len(e.subs)
      <4> HIDE DEF e, b
      <4> QED BY <2>3, <2>4 DEF ComparesWell, IsSingle
    <3>2. k \in 1 .. TreeSize(t)
      BY <3>1, SubsBefore
    <3>3. (b[k].op # "call" => c[k] = b[k]) /\ (b[k].op = "call" => c[k].op \in {"call", "helper"})
      <4>1. EmptyCall(b[k]) => b[k].op = "call"
        BY DEF EmptyCall
      <4> QED BY <3>2, <4>1, CallsSame
    <3> QED BY <3>3 DEF IsSentinel, Second
  <2>5. CASE IsSingle(e) /\ e.ops[1] = "is" /\ BecomesSentinel(c, c[e.subs[2]])
    <3>1. m = Helper("is", e.subs, e)
      BY <2>2, <2>5, CompareRewriting
    <3> HIDE DEF m, f, e
    <3>2. Unwrapping(b, e, f)
      BY <2>2, <2>5, <3>1, HelperParts DEF Unwrapping, Alike
    <3> QED BY <3>2 DEF Renders
  <2>6. CASE IsMembership(e) /\ IsRewritten(c, e)
    <3>1. /\ AllLiteral(b, Second(b, e)) /\ Draws(b, Second(b, e), elements)
          /\ c[e.subs[2]] = Second(b, e)
      BY <2>6, MembershipSame
    <3>2. m = RewriteMembership(c, e)
      BY <2>2, <2>6, CompareRewriting
    <3>3. /\ elements = <<>> =>
               m.op = "const" /\ m.value = Bool(e.ops[1] = "notin") /\ m.subs = <<>>
          /\ elements # <<>> =>
               /\ m.op = "tests" /\ m.subs = <<e.subs[1]>> \o elements
               /\ m.ops = IF e.ops[1] = "in" THEN <<"or", "tagged==">> ELSE <<"and", "tagged!=">>
      BY <2>2, <3>1, <3>2, MembershipParts
    <3> HIDE DEF m, f, e, elements
    <3>4. (Decides(b, e, f) /\ elements = <<>>) \/ Tests(b, e, f, elements)
      BY <2>2, <2>6, <3>1, <3>3 DEF Decides, Tests, Alike
    <3> QED BY <3>4 DEF Renders
  <2>7. CASE /\ ~(IsSingle(e) /\ e.ops[1] = "is" /\ BecomesSentinel(c, c[e.subs[2]]))
             /\ ~IsRewritten(c, e)
    <3>1. m = e
      BY <2>2, <2>7, CompareRewriting
    <3>2. IsSentinel(c[e.subs[2]]) => BecomesSentinel(c, c[e.subs[2]])
      BY Zenon DEF BecomesSentinel
    <3>3. ~(IsSingle(e) /\ e.ops[1] = "is" /\ IsSentinel(Second(b, e)))
      <4> HIDE DEF e, b, c
      <4> QED BY <2>4, <2>7, <3>2, Zenon
    <3>4. KeptCompare(b, e, f)
      <4> HIDE DEF e, f, m
      <4> QED BY <1>7, <2>2, <3>1, <3>3 DEF KeptCompare
    <3> QED BY <3>4 DEF Renders
  <2>8. IsRewritten(c, e) => IsMembership(e)
    BY Zenon DEF IsRewritten
  <2> QED BY <2>5, <2>6, <2>7, <2>8
<1> QED BY <1>5, <1>6, <1>7

(* A comparison has one operator, or two in a chain. *)
LEMMA CompareCounts ==
  ASSUME NEW b, NEW e, ComparesWell(b, e)
  PROVE  (Len(e.ops) = 1 /\ Len(e.subs) = 2) \/ (Len(e.ops) = 2 /\ Len(e.subs) = 3)
<1>1. Len(e.subs) = Len(e.ops) + 1 /\ (Len(e.ops) = 1 \/ Len(e.ops) = 2)
  BY Zenon DEF ComparesWell
<1>2. CASE Len(e.ops) = 1
  <2>1. Len(e.subs) = 1 + 1
    BY <1>1, <1>2, Zenon
  <2> QED BY <1>2, <2>1
<1>3. CASE Len(e.ops) = 2
  <2>1. Len(e.subs) = 2 + 1
    BY <1>1, <1>3, Zenon
  <2> QED BY <1>3, <2>1
<1> QED BY <1>1, <1>2, <1>3

(* A node that is no comparison and no call is left alone. *)
LEMMA SimpleKept ==
  ASSUME NEW t \in Targets, NEW drawn, NEW n \in 1 .. TreeSize(t),
         Body(t)[n].op \notin {"compare", "call"} \/ EmptyCall(Body(t)[n])
  PROVE  Alike(Body(t)[n], Compiled(t, drawn)[n])
<1> DEFINE e == Body(t)[n]
           f == Compiled(t, drawn)[n]
           elements == Distinct(CallsRewritten[t], Second(Body(t), e))
<1>1. Renders(Body(t), e, f, elements)
  BY NodeRenders
<1>2. e.op # "compare" /\ (e.op = "call" => EmptyCall(e))
  BY DEF EmptyCall
<1>3. EmptyCall(e) => e.arg \in EmptyConstructors
  BY DEF EmptyCall
<1> HIDE DEF e, f, elements
<1> SUFFICES Alike(e, f)
  BY DEF e, f
<1> QED BY <1>1, <1>2, <1>3 DEF Renders, LeftAlone, KeptCompare, Helped, Expanded, Unwrapping, Decides, Tests,
          IsSingle, IsMembership, IsMapInt, EmptyConstructors

(* A literal has the same value in both trees. *)
LEMMA LiteralSame ==
  ASSUME NEW t \in Targets, NEW drawn, NEW n \in 1 .. TreeSize(t), IsLiteralElement(Body(t)[n])
  PROVE  LET b == Body(t)
             r == Compiled(t, drawn)
             v == LiteralValue(b, b[n])
         IN  /\ Alike(b[n], r[n]) /\ LiteralValue(r, r[n]) = v
             /\ v \in Values /\ ~v.wrapped /\ v.type \in LiteralTypes
<1> DEFINE b == Body(t)
           r == Compiled(t, drawn)
           e == b[n]
           f == r[n]
<1>1. e.op \in {"const", "minus"}
  BY DEF IsLiteralElement
<1>2. Alike(e, f)
  BY <1>1, SimpleKept
<1>3. e \in Node /\ Shaped(b, n)
  BY BodyFacts
<1>4. CASE e.op = "const"
  <2>1. e.value \in Values /\ ~e.value.wrapped /\ e.value.type \in LiteralTypes
    <3>1. e.value \in Values
      BY <1>3, NodeParts
    <3>2. e.value.type \in LiteralTypes /\ ~e.value.wrapped
      <4> HIDE DEF b
      <4> QED BY <1>3, <1>4 DEF Shaped, Containers
    <3> QED BY <3>1, <3>2
  <2>2. LiteralValue(b, e) = e.value
    BY <1>4 DEF LiteralValue
  <2>3. LiteralValue(r, f) = e.value
    <3> HIDE DEF e, f, b, r
    <3> QED BY <1>2, <1>4 DEF LiteralValue, Alike
  <2> QED BY <1>2, <2>1, <2>2, <2>3
<1>5. CASE e.op = "minus"
  <2> DEFINE k == e.subs[1]
  <2>1. 1 \in 1 .. Len(e.subs) /\ b[k].op = "const"
    <3> HIDE DEF b
    <3> QED BY <1>3, <1>5 DEF Shaped, Containers
  <2>2. k \in 1 .. TreeSize(t) /\ b[k] \in Node
    BY <2>1, SubsBefore, Zenon
  <2>3. Alike(b[k], r[k])
    BY <2>1, <2>2, SimpleKept
  <2>4. LiteralValue(b, e) = [type |-> "int", val |-> -b[k].value.val, wrapped |-> FALSE]
    BY <1>5 DEF LiteralValue
  <2>5. LiteralValue(r, f) = [type |-> "int", val |-> -b[k].value.val, wrapped |-> FALSE]
    <3> HIDE DEF e, f, b, r
    <3> QED BY <1>2, <1>5, <2>3 DEF LiteralValue, Alike
  <2>6. b[k].value.val \in Int
    BY <2>2, NodeParts DEF Values
  <2>7. LiteralValue(b, e) \in Values
    BY <2>4, <2>6 DEF Values, ValueTypes
  <2> QED BY <1>2, <2>4, <2>5, <2>7 DEF LiteralTypes
<1> QED BY <1>1, <1>4, <1>5

(* Every node of the source can be given a meaning. *)
LEMMA BodyFormed ==
  ASSUME NEW t \in Targets, NEW n \in 1 .. TreeSize(t), NEW x
  PROVE  Formed(Body(t), x, n)
<1> DEFINE b == Body(t)
           e == b[n]
<1>1. e \in Node /\ Shaped(b, n)
  BY BodyFacts
<1>2. e.subs \in Seq(Nat) /\ Len(e.subs) \in Nat /\ DOMAIN e.subs = 1 .. Len(e.subs)
      /\ e.value \in Values
  BY <1>1, NodeParts
<1>3. \A i \in 1 .. Len(e.subs) : e.subs[i] \in 1 .. n - 1 /\ e.subs[i] \in 1 .. TreeSize(t)
  BY SubsBefore
<1>4. e.op = "minus" => LiteralValue(b, e) \in Values
  BY LiteralSame DEF IsLiteralElement
<1>5. \A k \in 1 .. TreeSize(t) : b[k].op \in {"const", "minus"} => LiteralValue(b, b[k]) \in Values
  BY LiteralSame DEF IsLiteralElement
<1>6. e.op \in Containers => HoldsValues(b, e, x)
  <2> SUFFICES ASSUME e.op \in Containers PROVE HoldsValues(b, e, x)
    OBVIOUS
  <2>1. \A i \in 1 .. Len(e.subs) : b[e.subs[i]].op \in {"const", "minus", "name", "unpack"}
    <3> HIDE DEF b
    <3> QED BY <1>1, <1>2 DEF Shaped, Containers
  <2> QED BY <1>3, <1>5, <2>1 DEF HoldsValues
<1>7. EmptyCall(e) => HoldsValues(b, e, x) /\ e.op = "call" /\ e.arg \in EmptyConstructors /\ Len(e.subs) = 0
  <2>1. EmptyCall(e) => e.op = "call" /\ e.arg \in EmptyConstructors /\ Len(e.subs) = 0
    BY DEF EmptyCall
  <2> QED BY <2>1 DEF HoldsValues
<1> SUFFICES Formed(b, x, n)
  OBVIOUS
<1> HIDE DEF b
<1>8. CASE e.op = "compare"
  <2>1. ComparesWell(b, e)
    BY <1>8, CompareShape DEF b
  <2>2. (IsSingle(e) /\ Len(e.subs) = 2) \/ (Len(e.ops) = 2 /\ Len(e.subs) = 3)
    <3> HIDE DEF e
    <3> QED BY <1>8, <2>1, CompareCounts DEF IsSingle
  <2> HIDE DEF e
  <2> QED BY <1>2, <1>3, <1>8, <2>2 DEF Formed, e
<1>9. CASE e.op = "call"
  <2>1. CallsWell(b, e)
    BY <1>1, <1>9 DEF Shaped, Containers
  <2> QED BY <1>2, <1>3, <1>7, <1>9, <2>1 DEF Formed, CallsWell, IsContainer, EmptyConstructors
<1>10. CASE e.op \in Containers
  <2>1. IsContainer(e)
    BY <1>10 DEF IsContainer
  <2> QED BY <1>2, <1>3, <1>6, <1>10, <2>1 DEF Formed
<1>11. CASE e.op \in {"const", "minus", "name", "pop", "unpack", "or", "and"}
  BY <1>2, <1>3, <1>4, <1>11 DEF Formed
<1> QED BY <1>1, <1>8, <1>9, <1>10, <1>11 DEF Shaped

(* Every node of the rewritten tree can be given a meaning. *)
LEMMA CompiledFormed ==
  ASSUME NEW t \in Targets, NEW drawn, NEW n \in 1 .. TreeSize(t), NEW x
  PROVE  Formed(Compiled(t, drawn), x, n)
<1> DEFINE b == Body(t)
           r == Compiled(t, drawn)
           e == b[n]
           f == r[n]
           elements == Distinct(CallsRewritten[t], Second(b, e))
<1>1. Renders(b, e, f, elements)
  BY NodeRenders
<1>2. Formed(b, x, n) /\ e \in Node
  BY BodyFormed, BodyFacts
<1>3. /\ e.subs \in Seq(Nat) /\ Len(e.subs) \in Nat
      /\ \A i \in 1 .. Len(e.subs) : e.subs[i] \in 1 .. n - 1 /\ e.subs[i] \in 1 .. TreeSize(t)
  BY <1>2, NodeParts, SubsBefore
<1>4. ASSUME e.op \notin {"compare", "call"} \/ EmptyCall(e), Alike(e, f) PROVE Formed(r, x, n)
  <2>1. e.op = "minus" => LiteralValue(r, f) \in Values
    BY LiteralSame DEF IsLiteralElement
  <2>2. IsContainer(e) => HoldsValues(r, f, x)
    <3> SUFFICES ASSUME IsContainer(e), NEW i \in 1 .. Len(f.subs), r[f.subs[i]].op \notin {"name", "unpack"}
                 PROVE  LiteralValue(r, r[f.subs[i]]) \in Values
      BY DEF HoldsValues
    <3> DEFINE k == e.subs[i]
    <3>1. f.subs = e.subs /\ k \in 1 .. TreeSize(t)
      BY <1>3, <1>4 DEF Alike
    <3>2. b[k].op \in {"const", "minus", "name", "unpack"}
      <4>1. CASE e.op \in Containers
        <5>1. Shaped(b, n) /\ i \in DOMAIN e.subs
          BY <1>3, <3>1, BodyFacts
        <5> HIDE DEF b, e
        <5> QED BY <4>1, <5>1 DEF Shaped, Containers, e
      <4>2. CASE EmptyCall(e)
        <5>1. Len(e.subs) = 0
          BY <4>2 DEF EmptyCall
        <5> QED BY <3>1, <5>1
      <4> QED BY <4>1, <4>2 DEF IsContainer
    <3>3. Alike(b[k], r[k])
      BY <3>1, <3>2, SimpleKept
    <3>4. b[k].op \in {"const", "minus"}
      BY <3>1, <3>2, <3>3 DEF Alike
    <3> QED BY <3>1, <3>4, LiteralSame DEF IsLiteralElement
  <2>3. IsContainer(f) <=> IsContainer(e)
    BY <1>4 DEF Alike, IsContainer, EmptyCall
  <2>4. EmptyCall(e) => e.op = "call" /\ Len(e.subs) = 0
    BY DEF EmptyCall
  <2>5. EmptyCall(e) => e.arg # "map"
    BY DEF EmptyCall, EmptyConstructors
  <2>6. e.op \in Containers => IsContainer(e)
    BY DEF IsContainer
  <2>7. EmptyCall(e) => IsContainer(e)
    BY DEF IsContainer
  <2> SUFFICES Formed(r, x, n)
    OBVIOUS
  <2>8. f.op = e.op /\ f.arg = e.arg /\ f.ops = e.ops /\ f.value = e.value /\ f.subs = e.subs
    BY <1>4 DEF Alike
  <2>9. \/ e.op = "const" /\ e.value \in Values
        \/ e.op = "minus"
        \/ e.op \in {"name", "pop", "unpack", "or", "and"}
        \/ IsContainer(e)
    <3>1. Shaped(b, n) /\ e.value \in Values
      BY <1>2, BodyFacts, NodeParts
    <3> HIDE DEF b, e
    <3> QED BY <1>4, <2>6, <2>7, <3>1 DEF Shaped, e
  <2> HIDE DEF e, f, b
  <2> QED BY <1>3, <2>1, <2>2, <2>3, <2>8, <2>9 DEF Formed, f
<1>5. CASE LeftAlone(e, f)
  <2>1. CASE e.op \notin {"compare", "call"} \/ EmptyCall(e)
    BY <1>4, <1>5, <2>1 DEF LeftAlone
  <2>2. CASE e.op = "call" /\ e.arg \in {"int", "str", "map"} /\ Len(e.subs) = 2
    <3>1. f.op = "call" /\ f.arg \in {"int", "str", "map"} /\ f.subs = e.subs
      BY <1>5, <2>2 DEF LeftAlone, Alike
    <3>2. ~EmptyCall(f)
      BY <3>1 DEF EmptyCall, EmptyConstructors
    <3> HIDE DEF e, f
    <3> QED BY <1>3, <2>2, <3>1, <3>2 DEF Formed, f
  <2> QED BY <1>5, <2>1, <2>2 DEF LeftAlone
<1>6. CASE KeptCompare(b, e, f)
  <2>1. (IsSingle(e) /\ Len(e.subs) = 2) \/ (Len(e.ops) = 2 /\ Len(e.subs) = 3)
    <3>1. ComparesWell(b, e)
      BY <1>6, CompareShape DEF KeptCompare
    <3> HIDE DEF e
    <3> QED BY <1>6, <3>1, CompareCounts DEF IsSingle, KeptCompare
  <2>2. f.op = "compare" /\ f.subs = e.subs /\ f.ops = e.ops /\ e.op = "compare"
    BY <1>6 DEF KeptCompare, Alike
  <2> HIDE DEF e, f
  <2>3. (IsSingle(f) /\ Len(f.subs) = 2) \/ (Len(f.ops) = 2 /\ Len(f.subs) = 3)
    BY <2>1, <2>2 DEF IsSingle
  <2> QED BY <1>3, <2>2, <2>3 DEF Formed, f
<1>7. CASE Helped(e, f)
  <2>1. f.op = "helper" /\ f.arg \in {"int", "str", "range"} /\ f.subs = e.subs /\ Len(f.subs) \in {1, 2}
    BY <1>7 DEF Helped
  <2> HIDE DEF e, f
  <2> QED BY <1>3, <2>1 DEF Formed, f
<1>8. CASE Expanded(b, e, f)
  <2>1. f.op = "helper" /\ f.arg = "map" /\ f.subs = <<e.subs[2]>> /\ Len(e.subs) = 2
    BY <1>8 DEF Expanded, IsMapInt
  <2> HIDE DEF e, f
  <2>2. f.subs \in Seq(Nat) /\ Len(f.subs) = 1 /\ f.subs[1] \in 1 .. n - 1
    BY <1>3, <2>1
  <2> QED BY <2>1, <2>2 DEF Formed, f
<1>9. CASE Unwrapping(b, e, f)
  <2>1. ComparesWell(b, e)
    BY <1>9, CompareShape DEF Unwrapping, IsSingle
  <2>2. f.op = "helper" /\ f.arg = "is" /\ f.subs = e.subs /\ Len(e.subs) = 2
    BY <1>9, <2>1 DEF Unwrapping, ComparesWell, IsSingle
  <2> HIDE DEF e, f
  <2> QED BY <1>3, <2>2 DEF Formed, f
<1>10. CASE Decides(b, e, f)
  <2>1. f.op = "const" /\ f.subs = <<>> /\ f.value \in Values
    BY <1>10, BoolType DEF Decides, Bool
  <2>2. f.subs \in Seq(Nat) /\ Len(f.subs) = 0
    BY <2>1
  <2> HIDE DEF e, f
  <2> QED BY <2>1, <2>2 DEF Formed, f
<1>11. CASE Tests(b, e, f, elements)
  <2> DEFINE m == e.subs[2]
             g == b[m]
  <2>1. /\ f.op = "tests" /\ f.subs = <<e.subs[1]>> \o elements /\ IsMembership(e)
        /\ elements \in Seq(Nat) /\ Len(elements) \in Nat
        /\ \A k \in 1 .. Len(elements) : \E i \in 1 .. Len(g.subs) : elements[k] = g.subs[i]
    <3> HIDE DEF b, e, f, elements
    <3>1. Draws(b, g, elements) /\ f.op = "tests" /\ f.subs = <<e.subs[1]>> \o elements /\ IsMembership(e)
      BY <1>11, Zenon DEF Tests, Second
    <3> QED BY <3>1 DEF Draws
  <2>2. Len(e.subs) = 2
    BY <2>1, MembershipSame
  <2>3. m \in 1 .. n - 1 /\ m \in 1 .. TreeSize(t) /\ e.subs[1] \in 1 .. n - 1
    BY <1>3, <2>2
  <2>4. \A i \in 1 .. Len(g.subs) : g.subs[i] \in 1 .. m - 1
    BY <2>3, SubsBefore
  <2> HIDE DEF elements, g
  <2>5. \A k \in 1 .. Len(elements) : elements[k] \in 1 .. n - 1
    <3>1. ASSUME NEW k \in 1 .. Len(elements) PROVE elements[k] \in 1 .. n - 1
      <4>1. PICK i \in 1 .. Len(g.subs) : elements[k] = g.subs[i]
        BY <2>1
      <4>2. g.subs[i] \in 1 .. m - 1
        BY <2>4
      <4> HIDE DEF m
      <4> QED BY <2>3, <4>1, <4>2
    <3> QED BY <3>1
  <2>6. /\ f.subs \in Seq(Nat) /\ Len(f.subs) = 1 + Len(elements)
        /\ f.subs[1] = e.subs[1] /\ \A i \in 2 .. Len(f.subs) : f.subs[i] = elements[i - 1]
    BY <2>1, <2>3
  <2>7. \A i \in 1 .. Len(f.subs) : f.subs[i] \in 1 .. n - 1
    BY <2>1, <2>3, <2>5, <2>6
  <2> HIDE DEF e, f
  <2> QED BY <2>1, <2>6, <2>7 DEF Formed, f
<1> QED BY <1>1, <1>5, <1>6, <1>7, <1>8, <1>9, <1>10, <1>11 DEF Renders

-----------------------------------------------------------------------------
(* Outcomes that differ in wrappers only *)

\* The same value, w without a wrapper; hashes says that a value with no hash is ruled out.
Twin(hashes, v, w) ==
    /\ v \in Values /\ w \in Values
    /\ v.type = w.type /\ v.val = w.val /\ ~w.wrapped
    /\ hashes => Hashable(w)
\* The same outcome up to the wrapper; with hashes, of a value that has one.
Like(hashes, o, p) ==
    o.raised = p.raised /\ o.calls = p.calls /\ (~o.raised => Twin(hashes, o.val, p.val))
Matches(hashes, f, g) == \A c \in Nat : Like(hashes, f[c], g[c])

\* Results of one operation on both sides.
Pairs(hashes, R, S) ==
    \/ R = {} /\ S = {}
    \/ \E v, w \in Values : R = {v} /\ S = {w} /\ Twin(hashes, v, w)

(* Results that differ in wrappers only end in outcomes that do. *)
LEMMA EndsLike ==
  ASSUME NEW hashes, NEW R, NEW S, Pairs(hashes, R, S), NEW c
  PROVE  Like(hashes, Ends(R, c), Ends(S, c))
<1>1. CASE R = {} /\ S = {}
  BY <1>1 DEF Like, Ends, Failed
<1>2. CASE R # {}
  <2>1. PICK v, w \in Values : R = {v} /\ S = {w} /\ Twin(hashes, v, w)
    BY <1>2 DEF Pairs
  <2>2. Ends(R, c) = Gives(v, c) /\ Ends(S, c) = Gives(w, c)
    BY <2>1 DEF Ends
  <2>3. \A u : Gives(u, c).raised = FALSE /\ Gives(u, c).val = u /\ Gives(u, c).calls = c
    BY DEF Gives
  <2>4. Like(hashes, Gives(v, c), Gives(w, c))
    <3> DEFINE o == Gives(v, c)
               p == Gives(w, c)
    <3>1. o.raised = FALSE /\ p.raised = FALSE /\ o.val = v /\ p.val = w /\ o.calls = c /\ p.calls = c
      BY <2>3
    <3> HIDE DEF o, p
    <3>2. Like(hashes, o, p)
      BY <2>1, <3>1 DEF Like
    <3> QED BY <3>2 DEF o, p
  <2> QED BY <2>2, <2>4
<1> QED BY <1>1, <1>2 DEF Pairs

(* A truth value is the same with and without a wrapper. *)
LEMMA BoolTwin ==
  ASSUME NEW hashes, NEW p \in BOOLEAN, NEW q \in BOOLEAN
  PROVE  /\ Twin(hashes, Boolean(p, q), Bool(p)) /\ Boolean(p, q) \in Values /\ Bool(p) \in Values
         /\ Pairs(hashes, {Boolean(p, q)}, {Bool(p)})
<1>1. Boolean(p, q).val = Bool(p).val /\ Boolean(p, FALSE).wrapped = FALSE
  BY DEF Boolean, Bool
<1>2. /\ Boolean(p, q) \in Values /\ Boolean(p, FALSE) \in Values
      /\ Boolean(p, q).type = "bool" /\ Boolean(p, FALSE).type = "bool"
  BY BoolType
<1>3. Bool(p) = Boolean(p, FALSE)
  BY Zenon DEF Bool
<1> DEFINE v == Boolean(p, q)
           w == Bool(p)
<1>4. v \in Values /\ w \in Values /\ v.type = "bool" /\ w.type = "bool" /\ v.val = w.val /\ w.wrapped = FALSE
  BY <1>1, <1>2, <1>3
<1> HIDE DEF v, w
<1>5. Twin(hashes, v, w)
  BY <1>4 DEF Twin, Hashable
<1>6. Pairs(hashes, {v}, {w})
  BY <1>4, <1>5 DEF Pairs
<1> QED BY <1>4, <1>5, <1>6 DEF v, w

\* Either a conversion by a builtin on both sides, or one by a helper that keeps wrappers.
LEMMA CalledTwin ==
  ASSUME NEW hashes, NEW name, NEW helper \in BOOLEAN, name # "map" \/ ~helper,
         NEW v, NEW w, Twin(FALSE, v, w)
  PROVE  Pairs(hashes, Called(name, v, helper), Called(name, w, FALSE))
<1> DEFINE made(type, u, keeps) == {[type |-> type, val |-> u.val, wrapped |-> keeps]}
           kept == helper /\ v.wrapped
           text == IF v.type \in {"int", "str"} THEN "str" ELSE "text"
           C1 == name = "int" /\ (Numeric(v) \/ v.type = "str")
           C2 == name = "str"
           C3 == name = "range" /\ Numeric(v)
           C4 == name = "map" /\ Iterable(v)
<1>1. /\ v \in Values /\ w \in Values /\ v.type = w.type /\ v.val = w.val /\ v.val \in Int
      /\ v.wrapped \in BOOLEAN
  BY DEF Twin, Values
<1>2. kept \in BOOLEAN /\ text \in {"str", "text"}
  BY <1>1
<1>3. ASSUME NEW type \in {"int", "str", "text", "range", "map"}, NEW keeps \in BOOLEAN
      PROVE  Pairs(hashes, made(type, v, keeps), made(type, w, FALSE))
  <2> DEFINE p == [type |-> type, val |-> v.val, wrapped |-> keeps]
             q == [type |-> type, val |-> w.val, wrapped |-> FALSE]
  <2>1. p \in Values /\ q \in Values
    BY <1>1 DEF Values, ValueTypes
  <2>2. p.type = q.type /\ p.val = q.val /\ ~q.wrapped /\ Hashable(q)
    BY <1>1 DEF Hashable
  <2> HIDE DEF p, q
  <2>3. Pairs(hashes, {p}, {q})
    BY <2>1, <2>2 DEF Pairs, Twin
  <2> QED BY <2>3 DEF p, q
<1>4. /\ C1 => Called(name, v, helper) = made("int", v, kept)
      /\ C2 => Called(name, v, helper) = made(text, v, kept)
      /\ C3 => Called(name, v, helper) = made("range", v, FALSE)
      /\ C4 => Called(name, v, helper) = made("map", v, FALSE)
      /\ ~C1 /\ ~C2 /\ ~C3 /\ ~C4 => Called(name, v, helper) = {}
  BY DEF Called
<1>5. /\ C1 => Called(name, w, FALSE) = made("int", w, FALSE)
      /\ C2 => Called(name, w, FALSE) = made(text, w, FALSE)
      /\ C3 => Called(name, w, FALSE) = made("range", w, FALSE)
      /\ C4 => Called(name, w, FALSE) = made("map", w, FALSE)
      /\ ~C1 /\ ~C2 /\ ~C3 /\ ~C4 => Called(name, w, FALSE) = {}
  BY <1>1 DEF Called, Numeric, Iterable
<1> HIDE DEF made, kept, text, C1, C2, C3, C4
<1>6. Pairs(hashes, {}, {})
  BY DEF Pairs
<1>7. C1 \/ C2 \/ C3 \/ C4 \/ (~C1 /\ ~C2 /\ ~C3 /\ ~C4)
  OBVIOUS
<1> QED BY <1>2, <1>3, <1>4, <1>5, <1>6, <1>7

\* Whatever the left operands, the right ones make the same of twins.
Agrees(hashes, op, oq, f, g) ==
    \A c \in Nat :
        /\ f[c].raised = g[c].raised /\ f[c].calls = g[c].calls
        /\ ~f[c].raised =>
             \A l, m : Twin(hashes, l, m) => Pairs(hashes, Combined(op, l, f[c].val), Combined(oq, m, g[c].val))

(* An operation on matching operands has matching outcomes. *)
LEMMA WithLike ==
  ASSUME NEW hashes, NEW op, NEW oq, NEW o, NEW p, Like(hashes, o, p), p.calls \in Nat,
         NEW f, NEW g, Agrees(hashes, op, oq, f, g)
  PROVE  Like(hashes, With(op, o, f), With(oq, p, g))
<1>1. o.raised = p.raised /\ o.calls = p.calls /\ (~o.raised => Twin(hashes, o.val, p.val))
  BY DEF Like
<1>2. CASE o.raised
  BY <1>1, <1>2 DEF With
<1>3. CASE ~o.raised
  <2> DEFINE r == f[o.calls]
             s == g[p.calls]
             R == Combined(op, o.val, r.val)
             S == Combined(oq, p.val, s.val)
  <2>1. With(op, o, f) = IF r.raised THEN r ELSE Ends(R, r.calls)
    BY <1>3 DEF With
  <2>2. With(oq, p, g) = IF s.raised THEN s ELSE Ends(S, s.calls)
    BY <1>1, <1>3 DEF With
  <2>3. /\ r.raised = s.raised /\ r.calls = s.calls
        /\ ~r.raised => Pairs(hashes, R, S)
    BY <1>1, <1>3 DEF Agrees
  <2> HIDE DEF r, s, R, S
  <2>4. CASE r.raised
    BY <2>1, <2>2, <2>3, <2>4 DEF Like
  <2>5. CASE ~r.raised
    <3>1. Like(hashes, Ends(R, r.calls), Ends(S, r.calls))
      BY <2>3, <2>5, EndsLike
    <3> QED BY <2>1, <2>2, <2>3, <2>5, <3>1
  <2> QED BY <2>4, <2>5
<1> QED BY <1>2, <1>3

(* An operation on two matching expressions matches. *)
LEMMA BinaryMatches ==
  ASSUME NEW hashes, NEW op, NEW oq, NEW left, NEW bare \in Senses, Matches(hashes, left, bare),
         NEW f, NEW g, Agrees(hashes, op, oq, f, g)
  PROVE  Matches(hashes, Binary(op, left, f), Binary(oq, bare, g))
<1>1. ASSUME NEW c \in Nat PROVE Like(hashes, With(op, left[c], f), With(oq, bare[c], g))
  <2>1. bare[c].calls \in Nat
    BY OutcomeParts DEF Senses
  <2>2. Like(hashes, left[c], bare[c])
    BY DEF Matches
  <2> QED BY <2>1, <2>2, WithLike
<1> QED BY <1>1 DEF Matches, Binary

(* A call with one argument, through its helper or not, matches the call of the *)
(* builtin.                                                                     *)
LEMMA UnaryMatches ==
  ASSUME NEW hashes, NEW name, NEW helper \in BOOLEAN, name # "map" \/ ~helper,
         NEW f, NEW g, Matches(hashes, f, g)
  PROVE  Matches(hashes, Unary(name, helper, f), Unary(name, FALSE, g))
<1>1. ASSUME NEW c \in Nat PROVE Like(hashes, Unary(name, helper, f)[c], Unary(name, FALSE, g)[c])
  <2> DEFINE o == f[c]
             p == g[c]
             R == Called(name, o.val, helper)
             S == Called(name, p.val, FALSE)
  <2>1. Like(hashes, o, p)
    BY DEF Matches
  <2>2. /\ Unary(name, helper, f)[c] = IF o.raised THEN o ELSE Ends(R, o.calls)
        /\ Unary(name, FALSE, g)[c] = IF p.raised THEN p ELSE Ends(S, p.calls)
    BY Zenon DEF Unary
  <2>3. o.raised = p.raised /\ o.calls = p.calls /\ (~o.raised => Twin(hashes, o.val, p.val))
    BY <2>1 DEF Like
  <2> HIDE DEF o, p
  <2>4. ~o.raised => Pairs(hashes, R, S)
    <3> SUFFICES ASSUME ~o.raised PROVE Pairs(hashes, R, S)
      OBVIOUS
    <3>1. Twin(FALSE, o.val, p.val)
      BY <2>3 DEF Twin
    <3> QED BY <3>1, CalledTwin, Zenon
  <2> HIDE DEF R, S
  <2>5. CASE o.raised
    BY <2>1, <2>2, <2>3, <2>5
  <2>6. CASE ~o.raised
    <3>1. Like(hashes, Ends(R, o.calls), Ends(S, o.calls))
      BY <2>4, <2>6, EndsLike
    <3> QED BY <2>2, <2>3, <2>6, <3>1
  <2> QED BY <2>5, <2>6
<1> QED BY <1>1 DEF Matches

(* A wrapper does not change what a value is taken for in a condition. *)
LEMMA TwinTruthy ==
  ASSUME NEW hashes, NEW v, NEW w, Twin(hashes, v, w)
  PROVE  Truthy(v) <=> Truthy(w)
BY DEF Twin, Truthy, Numeric

(* A chained comparison of matching expressions matches. *)
LEMMA ChainedMatches ==
  ASSUME NEW hashes, NEW op, NEW further,
         NEW left, NEW middle, NEW right, NEW bare \in Senses, NEW among \in Senses, NEW end,
         Matches(hashes, left, bare), Matches(hashes, middle, among),
         Agrees(hashes, op, op, middle, among), Agrees(hashes, further, further, right, end)
  PROVE  Matches(hashes, Chained(op, further, left, middle, right), Chained(op, further, bare, among, end))
<1>1. ASSUME NEW c \in Nat
      PROVE  Like(hashes, Chained(op, further, left, middle, right)[c], Chained(op, further, bare, among, end)[c])
  <2> DEFINE t1 == With(op, left[c], middle)
             t2 == With(op, bare[c], among)
             u1 == With(further, middle[left[c].calls], right)
             u2 == With(further, among[bare[c].calls], end)
  <2>1. bare[c].calls \in Nat /\ Like(hashes, left[c], bare[c])
    BY OutcomeParts DEF Senses, Matches
  <2>2. Like(hashes, t1, t2)
    BY <2>1, WithLike
  <2>3. Like(hashes, middle[left[c].calls], among[bare[c].calls]) /\ among[bare[c].calls].calls \in Nat
    <3>1. left[c].calls = bare[c].calls
      BY <2>1 DEF Like
    <3>2. Like(hashes, middle[bare[c].calls], among[bare[c].calls])
      BY <2>1 DEF Matches
    <3>3. among[bare[c].calls] \in Outcomes
      BY <2>1 DEF Senses
    <3> QED BY <3>1, <3>2, <3>3, OutcomeParts
  <2>4. Like(hashes, u1, u2)
    BY <2>3, WithLike
  <2>5. /\ Chained(op, further, left, middle, right)[c] = IF t1.raised \/ ~Truthy(t1.val) THEN t1 ELSE u1
        /\ Chained(op, further, bare, among, end)[c] = IF t2.raised \/ ~Truthy(t2.val) THEN t2 ELSE u2
    BY Zenon DEF Chained
  <2> HIDE DEF t1, t2, u1, u2
  <2>6. t1.raised = t2.raised /\ (~t1.raised => (Truthy(t1.val) <=> Truthy(t2.val)))
    BY <2>2, TwinTruthy DEF Like
  <2> QED BY <2>2, <2>4, <2>5, <2>6
<1> QED BY <1>1 DEF Matches

(* "and" and "or" of matching expressions match. *)
LEMMA ShortcutMatches ==
  ASSUME NEW hashes, NEW by \in BOOLEAN, NEW parts \in Seq(Senses), NEW bare \in Seq(Senses),
         Len(parts) = Len(bare), \A i \in 1 .. Len(bare) : Matches(hashes, parts[i], bare[i])
  PROVE  Matches(hashes, Shortcut(by, parts), Shortcut(by, bare))
<1> DEFINE N == Len(bare)
<1>1. N \in Nat /\ Len(parts) = N
  OBVIOUS
<1>2. ASSUME NEW c \in Nat PROVE Like(hashes, Upto(by, parts, c)[N], Upto(by, bare, c)[N])
  <2> DEFINE u == Upto(by, parts, c)
             w == Upto(by, bare, c)
  <2>1. /\ u \in [0 .. N -> Outcomes] /\ u[0] = Gives(Bool(~by), c)
        /\ \A k \in 1 .. N : u[k] = IF Decided(by, u[k - 1]) THEN u[k - 1] ELSE parts[k][u[k - 1].calls]
    BY UptoFollows
  <2>2. /\ w \in [0 .. N -> Outcomes] /\ w[0] = Gives(Bool(~by), c)
        /\ \A k \in 1 .. N : w[k] = IF Decided(by, w[k - 1]) THEN w[k - 1] ELSE bare[k][w[k - 1].calls]
    BY UptoFollows
  <2> HIDE DEF u, w, N
  <2> DEFINE Good == {k \in 0 .. N : Like(hashes, u[k], w[k])}
  <2>3. 0 \in Good
    <3>1. (~by) \in BOOLEAN
      OBVIOUS
    <3>2. Pairs(hashes, {Bool(~by)}, {Bool(~by)})
      BY <3>1, BoolTwin, Zenon DEF Bool
    <3>3. Gives(Bool(~by), c) = Ends({Bool(~by)}, c)
      BY DEF Ends
    <3>4. Like(hashes, u[0], w[0])
      BY <2>1, <2>2, <3>2, <3>3, EndsLike
    <3> QED BY <1>1, <3>4
  <2>4. ASSUME NEW k \in 1 .. N, k - 1 \in Good PROVE k \in Good
    <3>1. Like(hashes, u[k - 1], w[k - 1]) /\ k - 1 \in 0 .. N /\ k \in 0 .. N
      BY <2>4
    <3>2. Decided(by, u[k - 1]) <=> Decided(by, w[k - 1])
      <4>1. u[k - 1].raised = w[k - 1].raised
        BY <3>1 DEF Like
      <4>2. ~u[k - 1].raised => (Truthy(u[k - 1].val) <=> Truthy(w[k - 1].val))
        BY <3>1, TwinTruthy DEF Like
      <4>3. ~u[k - 1].raised => ((Truthy(u[k - 1].val) = by) <=> (Truthy(w[k - 1].val) = by))
        BY <4>2 DEF Truthy
      <4> QED BY <4>1, <4>3 DEF Decided
    <3>3. CASE Decided(by, u[k - 1])
      BY <2>1, <2>2, <3>1, <3>2, <3>3
    <3>4. CASE ~Decided(by, u[k - 1])
      <4>1. u[k] = parts[k][u[k - 1].calls] /\ w[k] = bare[k][w[k - 1].calls]
        BY <2>1, <2>2, <3>2, <3>4
      <4>2. u[k - 1].calls = w[k - 1].calls
        BY <3>1 DEF Like
      <4>3. w[k - 1].calls \in Nat
        BY <2>2, <3>1, OutcomeParts
      <4>4. Matches(hashes, parts[k], bare[k])
        BY DEF N
      <4>5. Like(hashes, u[k], w[k])
        BY <4>1, <4>2, <4>3, <4>4 DEF Matches
      <4> QED BY <3>1, <4>5
    <3> QED BY <3>3, <3>4
  <2>5. \A k \in 0 .. N : k \in Good
    <3> HIDE DEF Good
    <3> QED BY <1>1, <2>3, <2>4, InductionFromZero, Zenon
  <2>6. N \in 0 .. N
    BY <1>1
  <2> QED BY <2>5, <2>6 DEF u, w
<1> QED BY <1>1, <1>2 DEF Matches, Shortcut

\* Combined(op, l, r), one operator at a time.
CombinedBy(op, l, r, it) ==
    /\ op \in {"==", "!="} => it = {Boolean(Equal(l, r) = (op = "=="), KeepsSymbol(l, r))}
    /\ op \in {"tagged==", "tagged!="} =>
         it = IF Unmarkable(l, r) THEN {} ELSE {Boolean(Equal(l, r) = (op = "tagged=="), KeepsSymbol(l, r))}
    /\ op = "is" => it = {Bool(Identical(l, r))}
    /\ op = "unwrappedIs" => it = {Bool(Identical(Bare(l), Bare(r)))}
    /\ op \in {"in", "notin"} =>
         it = IF r.type \in Hashing /\ ~Hashable(l) THEN {}
              ELSE {Bool((\E v \in r.items : Equal(l, v)) = (op = "in"))}
    /\ op = "int" => it = IF l.type = "str" /\ Numeric(r) THEN Called("int", l, FALSE) ELSE {}
    /\ op = "range" => it = IF Numeric(l) /\ Numeric(r) THEN Called("range", l, FALSE) ELSE {}
    /\ op = "str" => it = {}

(* What an operation on two values gives, operation by operation. *)
LEMMA CombinedParts ==
  ASSUME NEW op, NEW l, NEW r
  PROVE  CombinedBy(op, l, r, Combined(op, l, r))
<1> DEFINE C1 == op \in {"==", "!="}
           C2 == op = "is"
           C3 == op = "unwrappedIs"
           C4 == op \in {"in", "notin"}
           C5 == op = "int" /\ l.type = "str" /\ Numeric(r)
           C6 == op = "range" /\ Numeric(l) /\ Numeric(r)
           C7 == op \in {"tagged==", "tagged!="}
           R1 == {Boolean(Equal(l, r) = (op = "=="), KeepsSymbol(l, r))}
           R2 == {Bool(Identical(l, r))}
           R3 == {Bool(Identical(Bare(l), Bare(r)))}
           R4 == IF r.type \in Hashing /\ ~Hashable(l) THEN {}
                 ELSE {Bool((\E v \in r.items : Equal(l, v)) = (op = "in"))}
           R5 == Called("int", l, FALSE)
           R6 == Called("range", l, FALSE)
           R7 == IF Unmarkable(l, r) THEN {} ELSE {Boolean(Equal(l, r) = (op = "tagged=="), KeepsSymbol(l, r))}
           it == Combined(op, l, r)
<1>1. it = CASE C1 -> R1 [] C7 -> R7 [] C2 -> R2 [] C3 -> R3 [] C4 -> R4 [] C5 -> R5 [] C6 -> R6 [] OTHER -> {}
  BY Zenon DEF Combined
<1>2. /\ C1 => ~C2 /\ ~C3 /\ ~C4 /\ ~C5 /\ ~C6 /\ ~C7
      /\ C2 => ~C3 /\ ~C4 /\ ~C5 /\ ~C6 /\ ~C7
      /\ C3 => ~C4 /\ ~C5 /\ ~C6 /\ ~C7
      /\ C4 => ~C5 /\ ~C6 /\ ~C7
      /\ C5 => ~C6 /\ ~C7
      /\ C6 => ~C7
      /\ op \in {"int", "range", "str"} => ~C1 /\ ~C2 /\ ~C3 /\ ~C4 /\ ~C7
      /\ op = "int" => ~C6
      /\ op = "range" => ~C5
      /\ op = "str" => ~C5 /\ ~C6
  OBVIOUS
<1> HIDE DEF C1, C2, C3, C4, C5, C6, C7, R1, R2, R3, R4, R5, R6, R7, it
<1>3. /\ C1 /\ ~C2 /\ ~C3 /\ ~C4 /\ ~C5 /\ ~C6 /\ ~C7 => it = R1
      /\ C2 /\ ~C1 /\ ~C3 /\ ~C4 /\ ~C5 /\ ~C6 /\ ~C7 => it = R2
      /\ C3 /\ ~C1 /\ ~C2 /\ ~C4 /\ ~C5 /\ ~C6 /\ ~C7 => it = R3
      /\ C4 /\ ~C1 /\ ~C2 /\ ~C3 /\ ~C5 /\ ~C6 /\ ~C7 => it = R4
      /\ C5 /\ ~C1 /\ ~C2 /\ ~C3 /\ ~C4 /\ ~C6 /\ ~C7 => it = R5
      /\ C6 /\ ~C1 /\ ~C2 /\ ~C3 /\ ~C4 /\ ~C5 /\ ~C7 => it = R6
      /\ C7 /\ ~C1 /\ ~C2 /\ ~C3 /\ ~C4 /\ ~C5 /\ ~C6 => it = R7
      /\ ~C1 /\ ~C2 /\ ~C3 /\ ~C4 /\ ~C5 /\ ~C6 /\ ~C7 => it = {}
  BY <1>1, Zenon
<1>4. /\ C1 => it = R1
      /\ C2 => it = R2
      /\ C3 => it = R3
      /\ C4 => it = R4
      /\ C7 => it = R7
      /\ op = "int" => it = IF C5 THEN R5 ELSE {}
      /\ op = "range" => it = IF C6 THEN R6 ELSE {}
      /\ op = "str" => it = {}
  BY <1>2, <1>3
<1>5. /\ op = "int" => (C5 <=> l.type = "str" /\ Numeric(r))
      /\ op = "range" => (C6 <=> Numeric(l) /\ Numeric(r))
  BY DEF C5, C6
<1>6. op = "int" => it = IF l.type = "str" /\ Numeric(r) THEN R5 ELSE {}
  BY <1>4, <1>5
<1>7. op = "range" => it = IF Numeric(l) /\ Numeric(r) THEN R6 ELSE {}
  BY <1>4, <1>5
<1> QED BY <1>4, <1>6, <1>7, Zenon DEF CombinedBy, C1, C2, C3, C4, C7, R1, R2, R3, R4, R5, R6, R7, it

(* Equality does not look at wrappers. *)
LEMMA EqualTwin ==
  ASSUME NEW v, NEW w, v.type = w.type, v.val = w.val, NEW p, NEW q, p.type = q.type, p.val = q.val
  PROVE  Equal(v, p) <=> Equal(w, q)
BY DEF Equal, Numeric

(* "==" and "!=" give the same with right operands that match. *)
LEMMA AgreesEquality ==
  ASSUME NEW hashes, NEW op \in {"==", "!="}, NEW f, NEW g, Matches(hashes, f, g)
  PROVE  Agrees(hashes, op, op, f, g)
<1> SUFFICES ASSUME NEW c \in Nat
             PROVE  /\ f[c].raised = g[c].raised /\ f[c].calls = g[c].calls
                    /\ ~f[c].raised =>
                         \A l, m : Twin(hashes, l, m) =>
                           Pairs(hashes, Combined(op, l, f[c].val), Combined(op, m, g[c].val))
  BY DEF Agrees
<1>1. Like(hashes, f[c], g[c])
  BY DEF Matches
<1>2. ASSUME ~f[c].raised, NEW l, NEW m, Twin(hashes, l, m)
      PROVE  Pairs(hashes, Combined(op, l, f[c].val), Combined(op, m, g[c].val))
  <2> DEFINE r == f[c].val
             s == g[c].val
             p == (Equal(l, r) = (op = "=="))
             q == (Equal(m, s) = (op = "=="))
             w == KeepsSymbol(l, r)
             x == KeepsSymbol(m, s)
  <2>1. Twin(hashes, r, s)
    BY <1>1, <1>2 DEF Like
  <2>2. Combined(op, l, r) = {Boolean(p, w)} /\ Combined(op, m, s) = {Boolean(q, x)}
    <3>1. CombinedBy(op, l, r, Combined(op, l, r)) /\ CombinedBy(op, m, s, Combined(op, m, s))
      BY CombinedParts
    <3> QED BY <3>1, Zenon DEF CombinedBy
  <2>3. Equal(l, r) <=> Equal(m, s)
    BY <1>2, <2>1, EqualTwin DEF Twin
  <2>4. p \in BOOLEAN /\ q \in BOOLEAN /\ w \in BOOLEAN /\ x \in BOOLEAN
    BY DEF KeepsSymbol
  <2>5. p <=> q
    BY <2>3 DEF Equal
  <2>6. ~x
    BY <1>2, <2>1 DEF Twin, KeepsSymbol
  <2> HIDE DEF p, q, w, x, r, s
  <2>7. q = p /\ x = FALSE
    BY <2>4, <2>5, <2>6
  <2>8. Boolean(q, x) = Bool(p)
    BY <2>7, Zenon DEF Bool
  <2>9. Pairs(hashes, {Boolean(p, w)}, {Bool(p)})
    BY <2>4, BoolTwin
  <2>10. Pairs(hashes, Combined(op, l, r), Combined(op, m, s))
    BY <2>2, <2>8, <2>9, Zenon
  <2> QED BY <2>10 DEF r, s
<1> QED BY <1>1, <1>2 DEF Like

(* A second argument of int(), str() or range(). *)
LEMMA AgreesArguments ==
  ASSUME NEW hashes, NEW op \in {"int", "str", "range"}, NEW f, NEW g, Matches(hashes, f, g)
  PROVE  Agrees(hashes, op, op, f, g)
<1> SUFFICES ASSUME NEW c \in Nat
             PROVE  /\ f[c].raised = g[c].raised /\ f[c].calls = g[c].calls
                    /\ ~f[c].raised =>
                         \A l, m : Twin(hashes, l, m) =>
                           Pairs(hashes, Combined(op, l, f[c].val), Combined(op, m, g[c].val))
  BY DEF Agrees
<1>1. Like(hashes, f[c], g[c])
  BY DEF Matches
<1>2. ASSUME ~f[c].raised, NEW l, NEW m, Twin(hashes, l, m)
      PROVE  Pairs(hashes, Combined(op, l, f[c].val), Combined(op, m, g[c].val))
  <2> DEFINE r == f[c].val
             s == g[c].val
  <2>1. Twin(hashes, r, s)
    BY <1>1, <1>2 DEF Like
  <2>2. (Numeric(r) <=> Numeric(s)) /\ (Numeric(l) <=> Numeric(m)) /\ l.type = m.type
    BY <1>2, <2>1 DEF Twin, Numeric
  <2>3. Twin(FALSE, l, m)
    BY <1>2 DEF Twin
  <2>4. ASSUME NEW name \in {"int", "range"} PROVE Pairs(hashes, Called(name, l, FALSE), Called(name, m, FALSE))
    BY <2>3, CalledTwin, Zenon
  <2>5. Pairs(hashes, {}, {})
    BY DEF Pairs
  <2>9. CombinedBy(op, l, r, Combined(op, l, r)) /\ CombinedBy(op, m, s, Combined(op, m, s))
    BY CombinedParts
  <2> HIDE DEF r, s
  <2>6. CASE op = "int"
    <3>1. /\ Combined(op, l, r) = IF l.type = "str" /\ Numeric(r) THEN Called("int", l, FALSE) ELSE {}
          /\ Combined(op, m, s) = IF m.type = "str" /\ Numeric(s) THEN Called("int", m, FALSE) ELSE {}
      BY <2>6, <2>9 DEF CombinedBy
    <3>2. Pairs(hashes, Called("int", l, FALSE), Called("int", m, FALSE))
      BY <2>4
    <3> QED BY <2>2, <2>5, <3>1, <3>2 DEF r, s
  <2>7. CASE op = "range"
    <3>1. /\ Combined(op, l, r) = IF Numeric(l) /\ Numeric(r) THEN Called("range", l, FALSE) ELSE {}
          /\ Combined(op, m, s) = IF Numeric(m) /\ Numeric(s) THEN Called("range", m, FALSE) ELSE {}
      BY <2>7, <2>9 DEF CombinedBy
    <3>2. Pairs(hashes, Called("range", l, FALSE), Called("range", m, FALSE))
      BY <2>4
    <3> QED BY <2>2, <2>5, <3>1, <3>2 DEF r, s
  <2>8. CASE op = "str"
    <3>1. Combined(op, l, r) = {} /\ Combined(op, m, s) = {}
      BY <2>8, <2>9 DEF CombinedBy
    <3> QED BY <2>5, <3>1 DEF r, s
  <2> QED BY <2>6, <2>7, <2>8 DEF r, s
<1> QED BY <1>1, <1>2 DEF Like

(* A value without its wrapper. *)
LEMMA BareTwin ==
  ASSUME NEW v \in Values, NEW w \in Values, v.type = w.type, v.val = w.val, ~w.wrapped
  PROVE  Bare(v) = w /\ Bare(w) = w
<1>1. w = [type |-> w.type, val |-> w.val, wrapped |-> FALSE]
  BY DEF Values
<1>2. Bare(v) = [type |-> v.type, val |-> v.val, wrapped |-> FALSE]
  BY DEF Values, Bare
<1>3. Bare(w) = [type |-> w.type, val |-> w.val, wrapped |-> FALSE]
  BY DEF Values, Bare
<1> QED BY <1>1, <1>2, <1>3

(* The parts of a result. *)
LEMMA GivesParts ==
  ASSUME NEW v, NEW c
  PROVE  ~Gives(v, c).raised /\ Gives(v, c).val = v /\ Gives(v, c).calls = c
<1>1. Gives(v, c).raised = FALSE
  BY DEF Gives
<1>2. ~Gives(v, c).raised
  BY <1>1, Zenon
<1>3. Gives(v, c).val = v /\ Gives(v, c).calls = c
  BY DEF Gives
<1> QED BY <1>2, <1>3

(* A value comes out whatever was called before. *)
LEMMA AlwaysGives ==
  ASSUME NEW v, NEW c \in Nat
  PROVE  /\ Always(v)[c] = Gives(v, c)
         /\ ~Always(v)[c].raised /\ Always(v)[c].val = v /\ Always(v)[c].calls = c
<1> DEFINE o == Always(v)[c]
           g == Gives(v, c)
<1>1. o = g
  BY DEF Always
<1>2. ~g.raised /\ g.val = v /\ g.calls = c
  BY GivesParts
<1> HIDE DEF o, g
<1>3. ~o.raised /\ o.val = v /\ o.calls = c
  BY <1>1, <1>2, Zenon
<1> QED BY <1>1, <1>3 DEF o, g

(* Two values on the right agree when every left operand gets the same from both. *)
LEMMA AgreesAlways ==
  ASSUME NEW hashes, NEW op, NEW oq, NEW v, NEW w,
         \A l, m : Twin(hashes, l, m) => Pairs(hashes, Combined(op, l, v), Combined(oq, m, w))
  PROVE  Agrees(hashes, op, oq, Always(v), Always(w))
<1> SUFFICES ASSUME NEW c \in Nat
             PROVE  /\ Always(v)[c].raised = Always(w)[c].raised /\ Always(v)[c].calls = Always(w)[c].calls
                    /\ Always(v)[c].val = v /\ Always(w)[c].val = w
  BY Zenon DEF Agrees
<1>1. Always(v)[c] = Gives(v, c) /\ Always(w)[c] = Gives(w, c)
  BY AlwaysGives
<1>2. Gives(v, c).raised = Gives(w, c).raised
  BY DEF Gives
<1>3. Gives(v, c).calls = Gives(w, c).calls /\ Gives(v, c).val = v /\ Gives(w, c).val = w
  BY GivesParts
<1> QED BY <1>1, <1>2, <1>3, Zenon

(* "is" through the helper, with a constant that is no wrapper. *)
LEMMA AgreesIdentity ==
  ASSUME NEW hashes, NEW k \in Values, ~k.wrapped
  PROVE  Agrees(hashes, "unwrappedIs", "is", Always(k), Always(k))
<1> SUFFICES ASSUME NEW l, NEW m, Twin(hashes, l, m)
             PROVE  Pairs(hashes, Combined("unwrappedIs", l, k), Combined("is", m, k))
  BY AgreesAlways, Zenon
<1> DEFINE p == Identical(m, k)
<1>1. CombinedBy("unwrappedIs", l, k, Combined("unwrappedIs", l, k)) /\ CombinedBy("is", m, k, Combined("is", m, k))
  BY CombinedParts
<1>2. p \in BOOLEAN
  BY DEF Identical
<1>3. Combined("is", m, k) = {Bool(p)}
  BY <1>1 DEF CombinedBy
<1>4. Combined("unwrappedIs", l, k) = {Bool(p)}
  <2>1. Bare(l) = m /\ Bare(k) = k
    BY BareTwin DEF Twin
  <2>2. Combined("unwrappedIs", l, k) = {Bool(Identical(Bare(l), Bare(k)))}
    BY <1>1 DEF CombinedBy
  <2> QED BY <2>1, <2>2
<1> HIDE DEF p
<1>5. Pairs(hashes, {Boolean(p, FALSE)}, {Bool(p)})
  BY <1>2, BoolTwin
<1> QED BY <1>3, <1>4, <1>5, Zenon DEF Bool

\* Containers of twins.
Alternates(C, D) ==
    /\ C.type = D.type
    /\ \A v \in C.items : \E w \in D.items : v.type = w.type /\ v.val = w.val
    /\ \A w \in D.items : \E v \in C.items : v.type = w.type /\ v.val = w.val

(* A value is found in both of two containers of the same values, or in neither. *)
LEMMA MemberTwin ==
  ASSUME NEW C, NEW D, Alternates(C, D), NEW l, NEW m, l.type = m.type, l.val = m.val
  PROVE  (\E v \in C.items : Equal(l, v)) <=> (\E v \in D.items : Equal(m, v))
<1>1. ASSUME NEW v \in C.items, Equal(l, v) PROVE \E w \in D.items : Equal(m, w)
  <2>1. PICK w \in D.items : v.type = w.type /\ v.val = w.val
    BY DEF Alternates
  <2> QED BY <1>1, <2>1, EqualTwin
<1>2. ASSUME NEW w \in D.items, Equal(m, w) PROVE \E v \in C.items : Equal(l, v)
  <2>1. PICK v \in C.items : v.type = w.type /\ v.val = w.val
    BY DEF Alternates
  <2> QED BY <1>2, <2>1, EqualTwin
<1> QED BY <1>1, <1>2

(* "in" and "not in" give the same with two containers of the same values. *)
LEMMA AgreesMembership ==
  ASSUME NEW hashes, NEW op \in {"in", "notin"}, NEW G, NEW H, Alternates(G, H)
  PROVE  Agrees(hashes, op, op, Always(G), Always(H))
<1> SUFFICES ASSUME NEW l, NEW m, Twin(hashes, l, m)
             PROVE  Pairs(hashes, Combined(op, l, G), Combined(op, m, H))
  BY AgreesAlways, Zenon
<1> DEFINE there == \E v \in G.items : Equal(l, v)
           here == \E v \in H.items : Equal(m, v)
           p == (there = (op = "in"))
           q == (here = (op = "in"))
<1>1. CombinedBy(op, l, G, Combined(op, l, G)) /\ CombinedBy(op, m, H, Combined(op, m, H))
  BY CombinedParts
<1>2. /\ Combined(op, l, G) = IF G.type \in Hashing /\ ~Hashable(l) THEN {} ELSE {Bool(p)}
      /\ Combined(op, m, H) = IF H.type \in Hashing /\ ~Hashable(m) THEN {} ELSE {Bool(q)}
  BY <1>1, Zenon DEF CombinedBy
<1>3. G.type = H.type /\ (Hashable(l) <=> Hashable(m)) /\ l.type = m.type /\ l.val = m.val
  BY DEF Alternates, Twin, Hashable
<1>4. there <=> here
  BY <1>3, MemberTwin
<1>5. p \in BOOLEAN /\ q \in BOOLEAN
  OBVIOUS
<1>6. p <=> q
  BY <1>4
<1> HIDE DEF p, q
<1>7. q = p
  BY <1>5, <1>6, Zenon
<1>8. Pairs(hashes, {Boolean(p, FALSE)}, {Bool(p)})
  BY <1>5, BoolTwin
<1>9. Pairs(hashes, {Bool(p)}, {Bool(q)})
  BY <1>7, <1>8, Zenon DEF Bool
<1>10. Pairs(hashes, {}, {})
  BY DEF Pairs
<1> DEFINE X == {Bool(p)}
           Y == {Bool(q)}
           fails == G.type \in Hashing /\ ~Hashable(l)
<1>11. Combined(op, l, G) = (IF fails THEN {} ELSE X) /\ Combined(op, m, H) = (IF fails THEN {} ELSE Y)
  <2>1. (H.type \in Hashing /\ ~Hashable(m)) <=> fails
    BY <1>3
  <2> QED BY <1>2, <2>1, Zenon
<1> HIDE DEF X, Y, fails
<1> QED BY <1>9, <1>10, <1>11 DEF X, Y

(* A right operand that fails on both sides. *)
LEMMA AgreesFailure ==
  ASSUME NEW hashes, NEW op, NEW oq
  PROVE  Agrees(hashes, op, oq, [calls \in Nat |-> Failed(calls)], [calls \in Nat |-> Failed(calls)])
<1> DEFINE f == [calls \in Nat |-> Failed(calls)]
<1>1. ASSUME NEW c \in Nat PROVE f[c].raised
  <2>1. f[c] = Failed(c)
    OBVIOUS
  <2>2. Failed(c).raised = TRUE
    BY DEF Failed
  <2> HIDE DEF f
  <2> QED BY <2>1, <2>2
<1> HIDE DEF f
<1>2. Agrees(hashes, op, oq, f, f)
  BY <1>1, Zenon DEF Agrees
<1> QED BY <1>2 DEF f

(* The wrapper of an argument changes neither its type nor its value. *)
LEMMA WrapParts ==
  ASSUME NEW x \in Values
  PROVE  Wrap(x) \in Values /\ Wrap(x).type = x.type /\ Wrap(x).val = x.val
<1> DEFINE w == x.type \in {"int", "bool", "str", "text"}
<1>1. Wrap(x) = [x EXCEPT !.wrapped = w] /\ w \in BOOLEAN
  BY DEF Wrap
<1> HIDE DEF w
<1> QED BY <1>1 DEF Values

(* A container finds the same values in both trees. *)
LEMMA AgreesCollected ==
  ASSUME NEW t \in Targets, NEW drawn, NEW n \in 1 .. TreeSize(t), IsContainer(Body(t)[n]),
         NEW x \in Values, NEW hashes, NEW op \in {"in", "notin"}
  PROVE  Agrees(hashes, op, op, Collected(Compiled(t, drawn), Compiled(t, drawn)[n], Wrap(x)),
                                Collected(Body(t), Body(t)[n], x))
<1> DEFINE b == Body(t)
           r == Compiled(t, drawn)
           e == b[n]
           f == r[n]
           y == Wrap(x)
           I == DOMAIN e.subs
           DE(i) == b[e.subs[i]]
           DF(i) == r[f.subs[i]]
           ItemE(i) == IF DE(i).op = "name" THEN x ELSE LiteralValue(b, DE(i))
           ItemF(i) == IF DF(i).op = "name" THEN y ELSE LiteralValue(r, DF(i))
           breaksE == \E i \in DOMAIN e.subs :
                        \/ DE(i).op = "unpack"
                        \/ DE(i).op = "name" /\ SetLike(e) /\ ~Hashable(x)
           breaksF == \E i \in DOMAIN f.subs :
                        \/ DF(i).op = "unpack"
                        \/ DF(i).op = "name" /\ SetLike(f) /\ ~Hashable(y)
           itemsE == {ItemE(i) : i \in DOMAIN e.subs}
           itemsF == {ItemF(i) : i \in DOMAIN f.subs}
           failure == [calls \in Nat |-> Failed(calls)]
           E == [type |-> Kind(e), val |-> 0, wrapped |-> FALSE, items |-> itemsE]
           F == [type |-> Kind(f), val |-> 0, wrapped |-> FALSE, items |-> itemsF]
<1>1. /\ Collected(b, e, x) = IF breaksE THEN failure ELSE Always(E)
      /\ Collected(r, f, y) = IF breaksF THEN failure ELSE Always(F)
  BY Zenon DEF Collected
<1>2. e.op \notin {"compare", "call"} \/ EmptyCall(e)
  BY DEF IsContainer, Containers
<1>3. f.op = e.op /\ f.arg = e.arg /\ f.subs = e.subs
  BY <1>2, SimpleKept DEF Alike
<1>4. e.subs \in Seq(Nat) /\ I = 1 .. Len(e.subs) /\ e \in Node /\ Shaped(b, n)
  BY BodyFacts, NodeParts
<1>5. ASSUME NEW i \in I
      PROVE  /\ DF(i).op = DE(i).op
             /\ DE(i).op \in {"const", "minus"} => LiteralValue(r, DF(i)) = LiteralValue(b, DE(i))
             /\ DE(i).op \in {"const", "minus", "name", "unpack"}
  <2> DEFINE k == e.subs[i]
  <2>1. k \in 1 .. TreeSize(t)
    BY <1>4, SubsBefore, Zenon
  <2>2. b[k].op \in {"const", "minus", "name", "unpack"}
    <3>1. CASE e.op \in Containers
      <4> HIDE DEF b, e
      <4> QED BY <1>4, <3>1 DEF Shaped, Containers, e, I
    <3>2. CASE EmptyCall(e)
      <4>1. e.subs = <<>>
        BY <3>2 DEF EmptyCall
      <4> QED BY <1>4, <4>1
    <3> QED BY <3>1, <3>2 DEF IsContainer
  <2>3. Alike(b[k], r[k])
    BY <2>1, <2>2, SimpleKept
  <2>4. b[k].op \in {"const", "minus"} => LiteralValue(r, r[k]) = LiteralValue(b, b[k])
    BY <2>1, LiteralSame DEF IsLiteralElement
  <2>5. DE(i) = b[k] /\ DF(i) = r[k]
    BY <1>3
  <2> QED BY <2>2, <2>3, <2>4, <2>5 DEF Alike
<1>6. y.type = x.type /\ y.val = x.val
  BY WrapParts
<1>7. (SetLike(e) <=> SetLike(f)) /\ Kind(e) = Kind(f) /\ (Hashable(x) <=> Hashable(y))
  <2> HIDE DEF e, f, y
  <2>1. Kind(e) = Kind(f)
    BY <1>3 DEF Kind
  <2>2. IsContainer(e) <=> IsContainer(f)
    BY <1>3 DEF IsContainer, EmptyCall
  <2> QED BY <1>6, <2>1, <2>2 DEF SetLike, Hashable
<1>8. DOMAIN f.subs = I
  BY <1>3
<1> HIDE DEF DE, DF, failure, e, f, y, b, r
<1>9. breaksE <=> breaksF
  BY <1>5, <1>7, <1>8
<1>10. ASSUME ~breaksE
       PROVE  \A i \in I : ItemE(i).type = ItemF(i).type /\ ItemE(i).val = ItemF(i).val
  <2>1. \A i \in I : DE(i).op # "unpack"
    BY <1>10
  <2> QED BY <1>5, <1>6, <2>1
<1> HIDE DEF ItemE, ItemF, I, breaksE, breaksF
<1>11. ASSUME ~breaksE PROVE Alternates(F, E)
  <2>1. itemsE = {ItemE(i) : i \in I} /\ itemsF = {ItemF(i) : i \in I}
    BY <1>8 DEF I
  <2>2. F.type = E.type /\ F.items = itemsF /\ E.items = itemsE
    BY <1>7
  <2> HIDE DEF itemsE, itemsF, E, F
  <2>3. ASSUME NEW v \in F.items PROVE \E w \in E.items : v.type = w.type /\ v.val = w.val
    BY <1>10, <1>11, <2>1, <2>2
  <2>4. ASSUME NEW w \in E.items PROVE \E v \in F.items : v.type = w.type /\ v.val = w.val
    BY <1>10, <1>11, <2>1, <2>2
  <2> QED BY <2>2, <2>3, <2>4 DEF Alternates
<1> HIDE DEF E, F
<1>12. CASE breaksE
  <2>1. Agrees(hashes, op, op, failure, failure)
    BY AgreesFailure DEF failure
  <2>2. Collected(b, e, x) = failure /\ Collected(r, f, y) = failure
    BY <1>1, <1>9, <1>12
  <2> QED BY <2>1, <2>2 DEF b, r, e, f, y
<1>13. CASE ~breaksE
  <2>1. Agrees(hashes, op, op, Always(F), Always(E))
    BY <1>11, <1>13, AgreesMembership
  <2>2. Collected(b, e, x) = Always(E) /\ Collected(r, f, y) = Always(F)
    BY <1>1, <1>9, <1>13
  <2> QED BY <2>1, <2>2 DEF b, r, e, f, y
<1> QED BY <1>12, <1>13

-----------------------------------------------------------------------------
(* A membership test as equalities *)

\* It never comes to a wrapped string.
Untexted(f) == \A c \in Nat : f[c].raised \/ ~(IsText(f[c].val) /\ f[c].val.wrapped)

(* One equality, with an element that is a literal; it can be marked with its chain id. *)
LEMMA EqualityPart ==
  ASSUME NEW by \in BOOLEAN, NEW left \in Senses, NEW k \in Values, NEW c \in Nat,
         NEW op, op = IF by THEN "tagged==" ELSE "tagged!=",
         ~k.wrapped, IsText(k) \/ Untexted(left)
  PROVE  LET part == Binary(op, left, Always(k))[c]
         IN  /\ left[c].raised => part = left[c]
             /\ ~left[c].raised =>
                  /\ ~part.raised /\ part.calls = left[c].calls
                  /\ \E w \in BOOLEAN : part.val = Boolean(Equal(left[c].val, k) = by, w)
<1> DEFINE l == left[c]
           part == Binary(op, left, Always(k))[c]
           p == (Equal(l.val, k) = (op = "tagged=="))
           w == KeepsSymbol(l.val, k)
           R == Combined(op, l.val, k)
<1>1. l \in Outcomes /\ l.calls \in Nat /\ l.val \in Things
  BY OutcomeParts DEF Senses
<1>2. part = With(op, l, Always(k))
  BY DEF Binary
<1>3. CombinedBy(op, l.val, k, R)
  BY CombinedParts
<1>4. op \in {"tagged==", "tagged!="} /\ (op = "tagged==" <=> by)
  OBVIOUS
<1>5. ~l.raised => R = {Boolean(p, w)}
  <2> SUFFICES ASSUME ~l.raised PROVE R = {Boolean(p, w)}
    OBVIOUS
  <2>1. ~Unmarkable(l.val, k)
    BY DEF Unmarkable, Untexted
  <2>2. R = IF Unmarkable(l.val, k) THEN {} ELSE {Boolean(p, w)}
    BY <1>3, <1>4, Zenon DEF CombinedBy
  <2> HIDE DEF R
  <2> QED BY <2>1, <2>2
<1>6. w \in BOOLEAN /\ p \in BOOLEAN
  BY DEF KeepsSymbol
<1>7. (Equal(l.val, k) = by) = p
  <2>1. (op = "tagged==") \in BOOLEAN
    OBVIOUS
  <2>2. (op = "tagged==") = by
    BY <1>4, <2>1, Zenon
  <2> QED BY <2>2, Zenon
<1> HIDE DEF p, w, R
<1>8. ASSUME l.raised PROVE part = l
  <2> HIDE DEF l
  <2> QED BY <1>2, <1>8 DEF With
<1>9. ASSUME ~l.raised
      PROVE  ~part.raised /\ part.calls = l.calls /\ part.val = Boolean(p, w)
  <2> DEFINE r == Always(k)[l.calls]
  <2>1. ~r.raised /\ r.val = k /\ r.calls = l.calls
    BY <1>1, AlwaysGives
  <2>2. With(op, l, Always(k)) = IF l.raised THEN l ELSE IF r.raised THEN r ELSE Ends(Combined(op, l.val, r.val), r.calls)
    BY DEF With
  <2> HIDE DEF r, l
  <2>3. part = Ends(R, l.calls)
    BY <1>2, <1>9, <2>1, <2>2 DEF R
  <2>4. Ends(R, l.calls) = Gives(Boolean(p, w), l.calls)
    BY <1>5, <1>9 DEF Ends
  <2>5. part = Gives(Boolean(p, w), l.calls)
    BY <2>3, <2>4
  <2> HIDE DEF part
  <2> QED BY <2>5, GivesParts, Zenon
<1> SUFFICES /\ l.raised => part = l
             /\ ~l.raised =>
                  /\ ~part.raised /\ part.calls = l.calls
                  /\ \E v \in BOOLEAN : part.val = Boolean(Equal(l.val, k) = by, v)
  OBVIOUS
<1> HIDE DEF l, part
<1>10. Boolean(Equal(l.val, k) = by, w) = Boolean(p, w)
  BY <1>7, Zenon
<1> QED BY <1>6, <1>8, <1>9, <1>10, Zenon

\* A row of equalities with the values of a container.
Row(hashes, op, by, oq, left, bare, K, vals, D) ==
    /\ op \in {"in", "notin"} /\ by \in BOOLEAN /\ (by <=> op = "in")
    /\ oq = IF by THEN "tagged==" ELSE "tagged!="
    /\ left \in Senses /\ bare \in Senses /\ Matches(hashes, left, bare)
    /\ K \in Nat \ {0} /\ \A k \in 1 .. K : vals[k] \in Values /\ ~vals[k].wrapped
    /\ Untexted(left) \/ \A k \in 1 .. K : IsText(vals[k])
    /\ \A m : (\E v \in D.items : Equal(m, v)) <=> \E k \in 1 .. K : Equal(m, vals[k])
    /\ D.type \notin Hashing \/ hashes
    /\ K = 1 \/ \A c \in Nat : bare[c].calls = c
RowDecides(hashes, op, by, oq, left, bare, K, vals, D) ==
    Matches(hashes, Shortcut(by, [k \in 1 .. K |-> Binary(oq, left, Always(vals[k]))]),
                    Binary(op, bare, Always(D)))

(* "in" and "not in" as a row of equalities. *)
LEMMA TestsMatch ==
  ASSUME NEW hashes, NEW op, NEW by, NEW oq, NEW left, NEW bare, NEW K, NEW vals, NEW D,
         Row(hashes, op, by, oq, left, bare, K, vals, D)
  PROVE  RowDecides(hashes, op, by, oq, left, bare, K, vals, D)
<1> SUFFICES ASSUME op \in {"in", "notin"}, by \in BOOLEAN, by <=> op = "in",
                    oq = IF by THEN "tagged==" ELSE "tagged!=",
                    left \in Senses, bare \in Senses, Matches(hashes, left, bare),
                    K \in Nat \ {0}, \A k \in 1 .. K : vals[k] \in Values /\ ~vals[k].wrapped,
                    Untexted(left) \/ \A k \in 1 .. K : IsText(vals[k]),
                    \A m : (\E v \in D.items : Equal(m, v)) <=> \E k \in 1 .. K : Equal(m, vals[k]),
                    D.type \notin Hashing \/ hashes,
                    K = 1 \/ \A c \in Nat : bare[c].calls = c
             PROVE  Matches(hashes, Shortcut(by, [k \in 1 .. K |-> Binary(oq, left, Always(vals[k]))]),
                                    Binary(op, bare, Always(D)))
  BY Zenon DEF Row, RowDecides
<1> DEFINE parts == [k \in 1 .. K |-> Binary(oq, left, Always(vals[k]))]
<1>1. parts \in Seq(Senses) /\ Len(parts) = K
  <2>1. \A k \in 1 .. K : Binary(oq, left, Always(vals[k])) \in Senses
    BY AlwaysType, BinaryType DEF Things
  <2> QED BY <2>1, OperandParts
<1>2. \A k \in 1 .. K : parts[k] = Binary(oq, left, Always(vals[k]))
  OBVIOUS
<1> HIDE DEF parts
<1> SUFFICES ASSUME NEW c \in Nat
             PROVE  Like(hashes, Upto(by, parts, c)[K], With(op, bare[c], Always(D)))
  BY <1>1 DEF Matches, Shortcut, Binary, parts
<1> DEFINE l == left[c]
           p == bare[c]
           u == Upto(by, parts, c)
<1>3. /\ u \in [0 .. K -> Outcomes] /\ u[0] = Gives(Bool(~by), c)
      /\ \A k \in 1 .. K : u[k] = IF Decided(by, u[k - 1]) THEN u[k - 1] ELSE parts[k][u[k - 1].calls]
  <2>1. LET upto == Upto(by, parts, c)
        IN  /\ upto \in [0 .. Len(parts) -> Outcomes]
            /\ upto[0] = Gives(Bool(~by), c)
            /\ \A k \in 1 .. Len(parts) :
                 upto[k] = IF Decided(by, upto[k - 1]) THEN upto[k - 1] ELSE parts[k][upto[k - 1].calls]
    <3>1. by \in BOOLEAN /\ parts \in Seq(Senses) /\ c \in Nat
      BY <1>1
    <3> QED BY ONLY <3>1, UptoFollows, Zenon
  <2> QED BY <1>1, <2>1, Zenon
<1>4. Like(hashes, l, p) /\ l \in Outcomes /\ p \in Outcomes
  BY DEF Matches, Senses
<1>5. /\ l.raised = p.raised /\ l.calls = p.calls /\ (~l.raised => Twin(hashes, l.val, p.val))
      /\ l.calls \in Nat /\ p.calls \in Nat
  BY <1>4, OutcomeParts DEF Like
<1>6. \A k \in 1 .. K : LET part == parts[k][c]
         IN  /\ l.raised => part = l
             /\ ~l.raised =>
                  /\ ~part.raised /\ part.calls = l.calls
                  /\ \E w \in BOOLEAN : part.val = Boolean(Equal(l.val, vals[k]) = by, w)
  BY <1>2, EqualityPart
<1> HIDE DEF l, p, u
<1>7. u[1] = parts[1][c]
  <2>1. 1 \in 1 .. K /\ u[1] = IF Decided(by, u[0]) THEN u[0] ELSE parts[1][u[0].calls]
    BY <1>3
  <2>2. ~u[0].raised /\ u[0].val = Bool(~by) /\ u[0].calls = c
    BY <1>3, GivesParts
  <2>3. Truthy(Bool(~by)) <=> ~by
    <3>1. (~by) \in BOOLEAN
      OBVIOUS
    <3> QED BY <3>1, BoolType, Zenon DEF Bool
  <2>4. ~Decided(by, u[0])
    <3>1. ~(Truthy(Bool(~by)) = by)
      BY <2>3 DEF Truthy
    <3> QED BY <2>2, <3>1 DEF Decided
  <2> QED BY <2>1, <2>2, <2>4
<1>8. CASE l.raised
  <2> DEFINE Good == {k \in 0 .. K : k # 0 => u[k] = l}
  <2>1. 0 \in Good
    OBVIOUS
  <2>2. ASSUME NEW k \in 1 .. K, k - 1 \in Good PROVE k \in Good
    <3>1. CASE k = 1
      BY <1>6, <1>7, <1>8, <3>1
    <3>2. CASE k # 1
      <4>1. u[k - 1] = l
        BY <2>2, <3>2
      <4>2. Decided(by, u[k - 1])
        BY <1>8, <4>1 DEF Decided
      <4>3. u[k] = u[k - 1]
        BY <1>3, <4>2
      <4> QED BY <4>1, <4>3
    <3> QED BY <3>1, <3>2
  <2>3. \A k \in 0 .. K : k \in Good
    <3> HIDE DEF Good
    <3> QED BY <2>1, <2>2, InductionFromZero, Zenon
  <2>4. u[K] = l
    BY <2>3
  <2>5. With(op, p, Always(D)) = p
    BY <1>5, <1>8 DEF With
  <2> QED BY <1>4, <2>4, <2>5 DEF p, u
<1>9. CASE ~l.raised
  <2> DEFINE found(k) == \E j \in 1 .. k : Equal(l.val, vals[j])
             Claim(k) == /\ ~u[k].raised /\ u[k].calls = l.calls
                         /\ \E w \in BOOLEAN : u[k].val = Boolean(found(k) = by, w)
             Good == {k \in 0 .. K : k # 0 => Claim(k)}
  <2>1. 0 \in Good
    OBVIOUS
  <2>2. ASSUME NEW k \in 1 .. K, k - 1 \in Good PROVE Claim(k)
    <3>1. CASE k = 1
      <4>1. found(1) <=> Equal(l.val, vals[1])
        OBVIOUS
      <4>2. (found(1) = by) = (Equal(l.val, vals[1]) = by)
        BY <4>1 DEF Equal
      <4>3. 1 \in 1 .. K
        OBVIOUS
      <4> HIDE DEF found
      <4>4. ~u[1].raised /\ u[1].calls = l.calls
        BY <1>6, <1>7, <1>9, <4>3
      <4>5. PICK w \in BOOLEAN : u[1].val = Boolean(Equal(l.val, vals[1]) = by, w)
        BY <1>6, <1>7, <1>9, <4>3
      <4>6. u[1].val = Boolean(found(1) = by, w)
        BY <4>2, <4>5, Zenon
      <4> QED BY <3>1, <4>4, <4>6
    <3>2. CASE k # 1
      <4>1. Claim(k - 1) /\ k - 1 \in 1 .. K
        <5> HIDE DEF Claim
        <5> QED BY <2>2, <3>2
      <4>2. PICK w \in BOOLEAN : u[k - 1].val = Boolean(found(k - 1) = by, w)
        BY <4>1
      <4>3. found(k) <=> found(k - 1) \/ Equal(l.val, vals[k])
        BY <4>1
      <4>4. Truthy(u[k - 1].val) <=> (found(k - 1) = by)
        <5> DEFINE q == found(k - 1) = by
        <5>1. q \in BOOLEAN
          OBVIOUS
        <5>2. u[k - 1].val = Boolean(q, w)
          BY <4>2
        <5> HIDE DEF q
        <5>3. Truthy(u[k - 1].val) <=> q
          BY <5>1, <5>2, BoolType
        <5> QED BY <5>3 DEF q
      <4>5. Decided(by, u[k - 1]) <=> found(k - 1)
        <5>1. Decided(by, u[k - 1]) <=> (Truthy(u[k - 1].val) = by)
          BY <4>1 DEF Decided
        <5>2. found(k - 1) \in BOOLEAN
          OBVIOUS
        <5> HIDE DEF found
        <5>3. Truthy(u[k - 1].val) \in BOOLEAN
          BY DEF Truthy
        <5> QED BY <4>4, <5>1, <5>2, <5>3
      <4>6. CASE found(k - 1)
        <5>1. u[k] = u[k - 1]
          BY <1>3, <4>5, <4>6
        <5>2. (found(k) = by) = (found(k - 1) = by)
          BY <4>3, <4>6
        <5> HIDE DEF found
        <5>3. u[k].val = Boolean(found(k) = by, w)
          BY <4>2, <5>1, <5>2, Zenon
        <5> QED BY <4>1, <5>1, <5>3
      <4>7. CASE ~found(k - 1)
        <5>1. u[k] = parts[k][u[k - 1].calls]
          BY <1>3, <4>5, <4>7
        <5>2. K # 1
          BY <3>2
        <5>3. u[k - 1].calls = c
          BY <1>5, <4>1, <5>2 DEF p
        <5>4. u[k] = parts[k][c]
          BY <5>1, <5>3
        <5>5. (found(k) = by) = (Equal(l.val, vals[k]) = by)
          BY <4>3, <4>7 DEF Equal
        <5> HIDE DEF found
        <5>6. ~u[k].raised /\ u[k].calls = l.calls
          BY <1>6, <1>9, <5>4
        <5>7. PICK v \in BOOLEAN : u[k].val = Boolean(Equal(l.val, vals[k]) = by, v)
          BY <1>6, <1>9, <5>4
        <5>8. u[k].val = Boolean(found(k) = by, v)
          BY <5>5, <5>7, Zenon
        <5> QED BY <5>6, <5>8
      <4> QED BY <4>6, <4>7
    <3> QED BY <3>1, <3>2
  <2>3. \A k \in 1 .. K : k - 1 \in Good => k \in Good
    <3> HIDE DEF Claim
    <3> QED BY <2>2
  <2>4. \A k \in 0 .. K : k \in Good
    <3> HIDE DEF Good
    <3> QED BY <2>1, <2>3, InductionFromZero, Zenon
  <2>5. Claim(K)
    <3> HIDE DEF Claim
    <3>1. K \in 0 .. K /\ K # 0
      OBVIOUS
    <3>2. K \in Good
      BY <2>4, <3>1
    <3> QED BY <3>1, <3>2
  <2> DEFINE there == \E v \in D.items : Equal(p.val, v)
             q == (found(K) = by)
             R == Combined(op, p.val, D)
  <2>6. PICK w \in BOOLEAN : u[K].val = Boolean(q, w)
    BY <2>5
  <2>7. there <=> found(K)
    <3>1. \A k \in 1 .. K : Equal(p.val, vals[k]) <=> Equal(l.val, vals[k])
      BY <1>5, <1>9, EqualTwin DEF Twin
    <3> QED BY <3>1
  <2>8. R = {Bool(there = (op = "in"))}
    <3>1. CombinedBy(op, p.val, D, R)
      BY CombinedParts
    <3>2. R = IF D.type \in Hashing /\ ~Hashable(p.val) THEN {} ELSE {Bool(there = (op = "in"))}
      BY <3>1, Zenon DEF CombinedBy
    <3>3. ~(D.type \in Hashing /\ ~Hashable(p.val))
      BY <1>5, <1>9 DEF Twin
    <3> HIDE DEF R, there
    <3> QED BY <3>2, <3>3
  <2>9. q \in BOOLEAN /\ (there = (op = "in")) = q
    BY <2>7
  <2>10. ~u[K].raised /\ u[K].calls = l.calls
    BY <2>5
  <2> HIDE DEF q, there, R
  <2>11. R = {Bool(q)}
    BY <2>8, <2>9, Zenon
  <2>12. With(op, p, Always(D)) = Gives(Bool(q), p.calls)
    <3> DEFINE r == Always(D)[p.calls]
    <3>1. ~r.raised /\ r.val = D /\ r.calls = p.calls
      BY <1>5, AlwaysGives
    <3>2. With(op, p, Always(D)) = IF p.raised THEN p ELSE IF r.raised THEN r ELSE Ends(Combined(op, p.val, r.val), r.calls)
      BY DEF With
    <3> HIDE DEF r
    <3>3. With(op, p, Always(D)) = Ends(R, p.calls)
      BY <1>5, <1>9, <3>1, <3>2 DEF R
    <3>4. Ends(R, p.calls) = Gives(Bool(q), p.calls)
      BY <2>11 DEF Ends
    <3> QED BY <3>3, <3>4
  <2>13. Twin(hashes, Boolean(q, w), Bool(q))
    BY <2>9, BoolTwin
  <2> DEFINE g == Gives(Bool(q), p.calls)
  <2>14. ~g.raised /\ g.val = Bool(q) /\ g.calls = p.calls
    BY GivesParts
  <2>15. u[K].raised \in BOOLEAN /\ g.raised \in BOOLEAN
    <3>1. K \in 0 .. K
      OBVIOUS
    <3>2. u[K] \in Outcomes
      BY <1>3, <3>1
    <3> QED BY <3>2, OutcomeParts DEF Gives
  <2> HIDE DEF g
  <2>16. Like(hashes, u[K], g)
    BY <1>5, <2>6, <2>10, <2>13, <2>14, <2>15 DEF Like
  <2> QED BY <2>12, <2>16 DEF g, u, p
<1> QED BY <1>8, <1>9

-----------------------------------------------------------------------------
(* Expressions without effects *)

\* An expression that never calls pop().
Still(f) == \A c \in Nat : f[c].calls = c

(* An operation on values calls nothing. *)
LEMMA EndsCalls ==
  ASSUME NEW R, NEW c
  PROVE  Ends(R, c).calls = c
BY DEF Ends, Failed, Gives

(* An operation on operands without effects has none. *)
LEMMA StillWith ==
  ASSUME NEW op, NEW o, NEW c \in Nat, o.calls = c, NEW g, Still(g)
  PROVE  With(op, o, g).calls = c
<1> DEFINE r == g[c]
           R == Combined(op, o.val, r.val)
<1>1. With(op, o, g) = IF o.raised THEN o ELSE IF r.raised THEN r ELSE Ends(R, r.calls)
  BY DEF With
<1>2. r.calls = c
  BY DEF Still
<1>3. Ends(R, r.calls).calls = c
  BY <1>2, EndsCalls
<1> HIDE DEF r, R
<1> QED BY <1>1, <1>2, <1>3

(* Nor has it as an expression. *)
LEMMA StillBinary ==
  ASSUME NEW op, NEW f, NEW g, Still(f), Still(g)
  PROVE  Still(Binary(op, f, g))
<1>1. ASSUME NEW c \in Nat PROVE Binary(op, f, g)[c].calls = c
  <2>1. Binary(op, f, g)[c] = With(op, f[c], g)
    BY DEF Binary
  <2>2. f[c].calls = c
    BY DEF Still
  <2>3. With(op, f[c], g).calls = c
    BY <2>2, StillWith
  <2> QED BY <2>1, <2>3
<1> QED BY <1>1 DEF Still

(* A call with one argument has the effects of its argument only. *)
LEMMA StillUnary ==
  ASSUME NEW name, NEW helper, NEW f, Still(f)
  PROVE  Still(Unary(name, helper, f))
<1>1. ASSUME NEW c \in Nat PROVE Unary(name, helper, f)[c].calls = c
  <2> DEFINE o == f[c]
             R == Called(name, o.val, helper)
  <2>1. Unary(name, helper, f)[c] = IF o.raised THEN o ELSE Ends(R, o.calls)
    BY Zenon DEF Unary
  <2>2. o.calls = c
    BY DEF Still
  <2>3. Ends(R, o.calls).calls = c
    BY <2>2, EndsCalls
  <2> HIDE DEF o, R
  <2> QED BY <2>1, <2>2, <2>3
<1> QED BY <1>1 DEF Still

(* A chained comparison has the effects of its operands only. *)
LEMMA StillChained ==
  ASSUME NEW op, NEW further, NEW f, NEW g, NEW h, Still(f), Still(g), Still(h)
  PROVE  Still(Chained(op, further, f, g, h))
<1>1. ASSUME NEW c \in Nat PROVE Chained(op, further, f, g, h)[c].calls = c
  <2> DEFINE test == With(op, f[c], g)
             rest == With(further, g[f[c].calls], h)
  <2>1. Chained(op, further, f, g, h)[c] = IF test.raised \/ ~Truthy(test.val) THEN test ELSE rest
    BY Zenon DEF Chained
  <2>2. f[c].calls = c /\ g[c].calls = c
    BY DEF Still
  <2>3. test.calls = c
    BY <2>2, StillWith
  <2>4. g[f[c].calls].calls = c
    BY <2>2
  <2>5. rest.calls = c
    BY <2>4, StillWith
  <2> HIDE DEF test, rest
  <2> QED BY <2>1, <2>3, <2>5
<1> QED BY <1>1 DEF Still

(* A value has no effects. *)
LEMMA StillAlways ==
  ASSUME NEW v
  PROVE  Still(Always(v))
BY AlwaysGives DEF Still

(* Nor has a failure. *)
LEMMA StillFailure == Still([calls \in Nat |-> Failed(calls)])
BY DEF Still, Failed

(* Nor has a container. *)
LEMMA StillCollected ==
  ASSUME NEW b, NEW e, NEW x
  PROVE  Still(Collected(b, e, x))
<1> DEFINE Element(i) == b[e.subs[i]]
           Item(i) == IF Element(i).op = "name" THEN x ELSE LiteralValue(b, Element(i))
           breaks == \E i \in DOMAIN e.subs :
                         \/ Element(i).op = "unpack"
                         \/ Element(i).op = "name" /\ SetLike(e) /\ ~Hashable(x)
           v == [type |-> Kind(e), val |-> 0, wrapped |-> FALSE, items |-> {Item(i) : i \in DOMAIN e.subs}]
           failure == [calls \in Nat |-> Failed(calls)]
<1>1. Collected(b, e, x) = IF breaks THEN failure ELSE Always(v)
  BY Zenon DEF Collected
<1>2. Still(failure) /\ Still(Always(v))
  BY StillFailure, StillAlways
<1> HIDE DEF breaks, failure, v
<1> QED BY <1>1, <1>2

(* "and" and "or" have the effects of their operands only. *)
LEMMA StillShortcut ==
  ASSUME NEW by \in BOOLEAN, NEW parts \in Seq(Senses), \A i \in 1 .. Len(parts) : Still(parts[i])
  PROVE  Still(Shortcut(by, parts))
<1> DEFINE N == Len(parts)
<1>1. ASSUME NEW c \in Nat PROVE Upto(by, parts, c)[N].calls = c
  <2> DEFINE u == Upto(by, parts, c)
             Good == {k \in 0 .. N : u[k].calls = c}
  <2>1. /\ u[0] = Gives(Bool(~by), c)
        /\ \A k \in 1 .. N : u[k] = IF Decided(by, u[k - 1]) THEN u[k - 1] ELSE parts[k][u[k - 1].calls]
    BY UptoFollows
  <2>2. N \in Nat
    OBVIOUS
  <2> HIDE DEF u
  <2>3. 0 \in Good
    BY <2>1, <2>2, GivesParts
  <2>4. ASSUME NEW k \in 1 .. N, k - 1 \in Good PROVE k \in Good
    <3>1. u[k - 1].calls = c
      BY <2>4
    <3>2. parts[k][c].calls = c
      BY DEF Still
    <3> QED BY <2>1, <3>1, <3>2
  <2>5. \A k \in 0 .. N : k \in Good
    <3> HIDE DEF Good, N
    <3> QED BY <2>2, <2>3, <2>4, InductionFromZero, Zenon
  <2>6. N \in 0 .. N
    BY <2>2
  <2> QED BY <2>5, <2>6 DEF u
<1> QED BY <1>1 DEF Still, Shortcut

(* What a node of the source may be. *)
LEMMA SourceKinds ==
  ASSUME NEW t \in Targets, NEW n \in 1 .. TreeSize(t)
  PROVE  LET e == Body(t)[n]
         IN  \/ e.op \in {"const", "minus", "name", "pop", "unpack", "or", "and"}
             \/ IsContainer(e)
             \/ e.op = "compare" /\ IsSingle(e) /\ Len(e.subs) = 2
             \/ e.op = "compare" /\ Len(e.ops) = 2 /\ Len(e.subs) = 3
             \/ e.op = "call" /\ e.arg = "map" /\ Len(e.subs) = 2 /\ ~EmptyCall(e)
             \/ e.op = "call" /\ e.arg \in {"int", "str", "range"} /\ Len(e.subs) \in 1 .. 2 /\ ~EmptyCall(e)
<1> DEFINE b == Body(t)
           e == b[n]
<1>1. Shaped(b, n)
  BY BodyFacts
<1>2. EmptyCall(e) => Len(e.subs) = 0
  BY DEF EmptyCall
<1>3. e.op = "compare" => \/ IsSingle(e) /\ Len(e.subs) = 2
                          \/ Len(e.ops) = 2 /\ Len(e.subs) = 3
  <2>1. e.op = "compare" => ComparesWell(b, e)
    BY CompareShape
  <2> HIDE DEF e, b
  <2> QED BY <2>1, CompareCounts DEF IsSingle
<1>4. e.op = "call" => CallsWell(b, e)
  BY <1>1 DEF Shaped, Containers
<1> SUFFICES \/ e.op \in {"const", "minus", "name", "pop", "unpack", "or", "and"}
             \/ IsContainer(e)
             \/ e.op = "compare" /\ IsSingle(e) /\ Len(e.subs) = 2
             \/ e.op = "compare" /\ Len(e.ops) = 2 /\ Len(e.subs) = 3
             \/ e.op = "call" /\ e.arg = "map" /\ Len(e.subs) = 2 /\ ~EmptyCall(e)
             \/ e.op = "call" /\ e.arg \in {"int", "str", "range"} /\ Len(e.subs) \in 1 .. 2 /\ ~EmptyCall(e)
  BY DEF e
<1> HIDE DEF b
<1> QED BY <1>1, <1>2, <1>3, <1>4 DEF Shaped, CallsWell, IsContainer

(* A node has no effects of its own, unless it is a call of pop(). *)
LEMMA StillNode ==
  ASSUME NEW t \in Targets, NEW x \in Values, NEW n \in 1 .. TreeSize(t), Body(t)[n].op # "pop",
         \A i \in 1 .. Len(Body(t)[n].subs) :
            \/ Body(t)[n].op = "call" /\ Body(t)[n].arg = "map" /\ i = 1
            \/ Still(Meaning(Body(t), x)[Body(t)[n].subs[i]])
  PROVE  Still(Meaning(Body(t), x)[n])
<1> DEFINE b == Body(t)
           M == Meaning(b, x)
           e == b[n]
           Child(i) == M[e.subs[i]]
           L == Len(e.subs)
           it == M[n]
<1>1. /\ \A m \in 1 .. TreeSize(t) : M[m] \in Senses
      /\ it = Comes(b, x, M, n)
  BY BodyFacts, BodyFormed, MeaningFollows
<1>2. ByOp(b, x, M, e, it)
  BY <1>1, ComesByOp
<1>3. e \in Node
  BY BodyFacts
<1>4. L \in Nat /\ e.subs \in Seq(Nat)
  BY <1>3, NodeParts
<1>5. \A i \in 1 .. L : Child(i) \in Senses
  BY <1>1, SubsBefore
<1>6. \A i \in 1 .. L : (e.op = "call" /\ e.arg = "map" /\ i = 1) \/ Still(Child(i))
  OBVIOUS
<1>7. \/ e.op \in {"const", "minus", "name", "pop", "unpack", "or", "and"}
      \/ IsContainer(e)
      \/ e.op = "compare" /\ IsSingle(e) /\ L = 2
      \/ e.op = "compare" /\ Len(e.ops) = 2 /\ L = 3
      \/ e.op = "call" /\ e.arg = "map" /\ L = 2 /\ ~EmptyCall(e)
      \/ e.op = "call" /\ e.arg \in {"int", "str", "range"} /\ L \in 1 .. 2 /\ ~EmptyCall(e)
  BY SourceKinds
<1>8. e.op # "pop"
  OBVIOUS
<1> SUFFICES Still(it)
  OBVIOUS
<1> HIDE DEF b, M, e, it, Child, L
<1>9. CASE e.op \in {"const", "minus", "name", "unpack"}
  <2>1. (e.op = "const" => Still(it)) /\ (e.op = "minus" => Still(it)) /\ (e.op = "name" => Still(it)) /\ (e.op = "unpack" => Still(it))
    BY <1>2, StillAlways, StillFailure, Zenon DEF ByOp
  <2> QED BY <1>9, <2>1
<1>10. CASE e.op \in {"or", "and"}
  <2> DEFINE by == e.op = "or"
             parts == [i \in 1 .. L |-> Child(i)]
  <2>1. it = Shortcut(by, parts)
    BY <1>2, <1>10, Zenon DEF ByOp, Child, L
  <2>2. parts \in Seq(Senses) /\ Len(parts) = L
    BY <1>4, <1>5, OperandParts DEF L
  <2>3. \A i \in 1 .. Len(parts) : Still(parts[i])
    BY <1>6, <1>10, <2>2
  <2>4. by \in BOOLEAN
    OBVIOUS
  <2> HIDE DEF by, parts
  <2> QED BY <2>1, <2>2, <2>3, <2>4, StillShortcut
<1>11. CASE IsContainer(e)
  <2>1. it = Collected(b, e, x)
    BY <1>2, <1>11, Zenon DEF ByOp
  <2> QED BY <2>1, StillCollected
<1>12. CASE e.op = "compare" /\ IsSingle(e) /\ L = 2
  <2>1. it = Binary(e.ops[1], Child(1), Child(2))
    BY <1>2, <1>12, Zenon DEF ByOp, Child
  <2>2. Still(Child(1)) /\ Still(Child(2))
    BY <1>6, <1>12
  <2> QED BY <2>1, <2>2, StillBinary
<1>13. CASE e.op = "compare" /\ Len(e.ops) = 2 /\ L = 3
  <2>1. it = Chained(e.ops[1], e.ops[2], Child(1), Child(2), Child(3))
    BY <1>2, <1>13, Zenon DEF ByOp, Child
  <2>2. Still(Child(1)) /\ Still(Child(2)) /\ Still(Child(3))
    BY <1>6, <1>13
  <2> QED BY <2>1, <2>2, StillChained
<1>14. CASE e.op = "call" /\ e.arg = "map" /\ L = 2
  <2>1. it = Unary("map", FALSE, Child(2))
    BY <1>2, <1>14, Zenon DEF ByOp, Child, L
  <2>2. Still(Child(2))
    BY <1>6, <1>14
  <2> QED BY <2>1, <2>2, StillUnary
<1>15. CASE e.op = "call" /\ e.arg \in {"int", "str", "range"} /\ L = 1 /\ ~EmptyCall(e)
  <2>0. e.arg \notin {"map", "is"}
    BY <1>15
  <2>1. it = Unary(e.arg, FALSE, Child(1))
    BY <1>2, <1>15, <2>0, Zenon DEF ByOp, Child, L
  <2>2. Still(Child(1))
    BY <1>6, <1>15
  <2> QED BY <2>1, <2>2, StillUnary
<1>16. CASE e.op = "call" /\ e.arg \in {"int", "str", "range"} /\ L = 2 /\ ~EmptyCall(e)
  <2>0. e.arg \notin {"map", "is"}
    BY <1>16
  <2>1. it = Binary(e.arg, Child(1), Child(2))
    BY <1>2, <1>16, <2>0, Zenon DEF ByOp, Child, L
  <2>2. Still(Child(1)) /\ Still(Child(2))
    BY <1>6, <1>16
  <2> QED BY <2>1, <2>2, StillBinary
<1>17. 1 .. 2 = {1, 2}
  OBVIOUS
<1> QED BY <1>7, <1>8, <1>9, <1>10, <1>11, <1>12, <1>13, <1>14, <1>15, <1>16, <1>17

(* The children of a node after the first transformer. *)
LEMMA CallsSubs ==
  ASSUME NEW t \in Targets, NEW n \in 1 .. TreeSize(t)
  PROVE  LET e == Body(t)[n]
             c == CallsRewritten[t][n]
         IN  \/ c.subs = e.subs /\ (c.op = e.op \/ e.op = "call")
             \/ e.op = "call" /\ e.arg = "map" /\ Len(e.subs) = 2 /\ c.subs = <<e.subs[2]>>
<1> DEFINE b == Body(t)
           e == b[n]
           c == CallsRewritten[t][n]
           converts == e.op = "call" /\ e.arg \in {"int", "str"} /\ Len(e.subs) = 1
           ranges == e.op = "call" /\ e.arg = "range"
<1>1. WholeNode(e)
  BY BodyFacts, NodeWhole
<1>2. c = RewriteCall(b, e)
  BY CallsFacts
<1>3. /\ converts \/ ranges => c = Helper(e.arg, e.subs, e)
      /\ IsMapInt(b, e) => c = Helper("map", <<e.subs[2]>>, e)
      /\ ~converts /\ ~ranges /\ ~IsMapInt(b, e) => c = e
  BY <1>2, CallRewriting
<1>4. Helper(e.arg, e.subs, e).subs = e.subs /\ Helper("map", <<e.subs[2]>>, e).subs = <<e.subs[2]>>
  BY <1>1, HelperParts
<1>5. IsMapInt(b, e) => e.op = "call" /\ e.arg = "map" /\ Len(e.subs) = 2
  BY DEF IsMapInt
<1> SUFFICES \/ c.subs = e.subs /\ (c.op = e.op \/ e.op = "call")
             \/ e.op = "call" /\ e.arg = "map" /\ Len(e.subs) = 2 /\ c.subs = <<e.subs[2]>>
  BY DEF c, e
<1> HIDE DEF c, e, b
<1> QED BY <1>3, <1>4, <1>5

(* A subtree without a call of pop() evaluates without effects. *)
LEMMA QuietStill ==
  ASSUME NEW t \in Targets, NEW x \in Values, NEW n \in 1 .. TreeSize(t), Quiet(CallsRewritten[t], n)
  PROVE  Still(Meaning(Body(t), x)[n])
<1> DEFINE b == Body(t)
           c == CallsRewritten[t]
           M == Meaning(b, x)
           N == TreeSize(t)
<1>1. PICK S \in SUBSET DOMAIN c :
        n \in S /\ \A m \in S : c[m].op # "pop" /\ ToSet(c[m].subs) \subseteq S
  BY DEF Quiet
<1> DEFINE Good == {m \in 1 .. N : m \in S => Still(M[m])}
<1>2. N \in Nat
  BY BodyFacts
<1>3. ASSUME NEW m \in 1 .. N, \A k \in 1 .. m - 1 : k \in Good PROVE m \in Good
  <2> SUFFICES ASSUME m \in S PROVE Still(M[m])
    OBVIOUS
  <2> DEFINE e == b[m]
             L == Len(e.subs)
  <2>1. e \in Node
    BY BodyFacts
  <2>2. L \in Nat /\ e.subs \in Seq(Nat)
    BY <2>1, NodeParts
  <2>3. \/ c[m].subs = e.subs /\ (c[m].op = e.op \/ e.op = "call")
        \/ e.op = "call" /\ e.arg = "map" /\ L = 2 /\ c[m].subs = <<e.subs[2]>>
    BY CallsSubs
  <2>4. c[m].op # "pop" /\ ToSet(c[m].subs) \subseteq S
    BY <1>1
  <2>5. e.op # "pop"
    BY <2>3, <2>4
  <2>6. ASSUME NEW i \in 1 .. L
        PROVE  (e.op = "call" /\ e.arg = "map" /\ i = 1) \/ Still(M[e.subs[i]])
    <3>1. e.subs[i] \in 1 .. m - 1
      BY SubsBefore
    <3>2. e.subs[i] \in S => Still(M[e.subs[i]])
      BY <1>3, <3>1
    <3>3. CASE c[m].subs = e.subs
      <4>1. e.subs[i] \in ToSet(e.subs)
        BY <2>2 DEF ToSet
      <4> QED BY <2>4, <3>2, <3>3, <4>1
    <3>4. CASE e.op = "call" /\ e.arg = "map" /\ L = 2 /\ c[m].subs = <<e.subs[2]>>
      <4>1. e.subs[2] \in ToSet(<<e.subs[2]>>)
        BY DEF ToSet
      <4>2. i = 1 \/ i = 2
        BY <3>4
      <4> QED BY <2>4, <3>2, <3>4, <4>1, <4>2
    <3> QED BY <2>3, <3>3, <3>4
  <2> QED BY <2>5, <2>6, StillNode
<1>4. \A m \in 1 .. N : m \in Good
  <2> HIDE DEF Good, N
  <2> QED BY <1>2, <1>3, InductionUpTo, Zenon
<1> QED BY <1>1, <1>4

\* Whether every value a run can come across has a hash.
HashesAll(v) == Hashable(v) /\ \A i \in DOMAIN Supply : Hashable(Supply[i])

(* A node that is no call is of the same operation after the first transformer. *)
LEMMA CallsOps ==
  ASSUME NEW t \in Targets, NEW n \in 1 .. TreeSize(t)
  PROVE  LET e == Body(t)[n]
             c == CallsRewritten[t][n]
         IN  c.op \notin {"call", "helper"} \/ e.op = "compare" => c = e
<1> DEFINE e == Body(t)[n]
           c == CallsRewritten[t][n]
<1>1. /\ e.op # "call" \/ EmptyCall(e) => c = e
      /\ e.op = "call" /\ ~EmptyCall(e) => c.op \in {"call", "helper"}
  BY CallsSame
<1>2. EmptyCall(e) => e.op = "call"
  BY DEF EmptyCall
<1> HIDE DEF e, c
<1> SUFFICES c.op \notin {"call", "helper"} \/ e.op = "compare" => c = e
  BY DEF e, c
<1> QED BY <1>1, <1>2

(* What Ordinary says of the nodes of the source. *)
LEMMA OrdinaryMap ==
  ASSUME NEW t \in Targets, NEW v, Ordinary(t, v), NEW n \in 1 .. TreeSize(t), IsMapInt(Body(t), Body(t)[n])
  PROVE  n = TreeSize(t) /\ Convertible(v)
<1> DEFINE b == CallsRewritten[t]
           e == Body(t)[n]
<1>1. b[n] = Helper("map", <<e.subs[2]>>, e)
  BY CallsFacts, CallRewriting
<1>2. b[n].op = "helper" /\ b[n].arg = "map"
  <2>1. WholeNode(e)
    BY BodyFacts, NodeWhole
  <2>2. Helper("map", <<e.subs[2]>>, e).op = "helper" /\ Helper("map", <<e.subs[2]>>, e).arg = "map"
    BY <2>1, HelperParts
  <2> QED BY <1>1, <2>2
<1>3. DOMAIN b = 1 .. TreeSize(t) /\ TreeSize(t) \in Nat
  BY CallsFacts, BodyFacts
<1>4. Len(b) = TreeSize(t)
  <2>1. b = [k \in 1 .. TreeSize(t) |-> RewriteCall(Body(t), Body(t)[k])]
    BY BodyFacts DEF CallsRewritten
  <2> HIDE DEF b
  <2> QED BY <1>3, <2>1
<1>5. \A k \in DOMAIN b : b[k].op = "helper" /\ b[k].arg = "map" => k = Len(b) /\ Convertible(v)
  BY Zenon DEF Ordinary
<1> QED BY <1>2, <1>3, <1>4, <1>5

(* A test in a set or a dict is compared only where every value has a hash. *)
LEMMA OrdinaryHashes ==
  ASSUME NEW t \in Targets, NEW v, Ordinary(t, v), NEW n \in 1 .. TreeSize(t), IsMembership(Body(t)[n]),
         SetLike(Second(Body(t), Body(t)[n]))
  PROVE  HashesAll(v)
<1> DEFINE c == CallsRewritten[t]
           e == Body(t)[n]
           k == e.subs[2]
<1>1. Len(e.subs) = 2 /\ c[k] = Second(Body(t), e)
  BY MembershipSame
<1>2. k \in 1 .. TreeSize(t)
  <2>1. 2 \in 1 .. Len(e.subs)
    BY <1>1
  <2> QED BY <2>1, SubsBefore, Zenon
<1>3. k \in DOMAIN c
  BY <1>2, CallsFacts
<1>4. HashesAll(v) \/ \A m \in DOMAIN c : ~SetLike(c[m])
  BY Zenon DEF Ordinary, HashesAll
<1> HIDE DEF c, k
<1> QED BY <1>1, <1>3, <1>4

(* "is" is compared only alone and with a sentinel. *)
LEMMA OrdinaryIdentity ==
  ASSUME NEW t \in Targets, NEW v, Ordinary(t, v), NEW n \in 1 .. TreeSize(t),
         Body(t)[n].op = "compare", NEW i \in 1 .. Len(Body(t)[n].ops), Body(t)[n].ops[i] = "is"
  PROVE  Len(Body(t)[n].ops) = 1 /\ IsSentinel(Second(Body(t), Body(t)[n]))
<1> DEFINE c == CallsRewritten[t]
           e == Body(t)[n]
           k == e.subs[2]
<1>1. c[n] = e
  BY CallsOps
<1>2. e \in Node
  BY BodyFacts
<1>3. "is" \in ToSet(e.ops)
  BY <1>2, NodeParts DEF ToSet
<1>4. n \in DOMAIN c
  BY CallsFacts
<1>5. Len(e.ops) = 1 /\ IsSentinel(c[k])
  <2>1. \A m \in DOMAIN c : c[m].op = "compare" /\ "is" \in ToSet(c[m].ops) =>
          Len(c[m].ops) = 1 /\ IsSentinel(c[c[m].subs[2]])
    BY Zenon DEF Ordinary
  <2> HIDE DEF c
  <2> QED BY <1>1, <1>3, <1>4, <2>1
<1>6. ComparesWell(Body(t), e)
  BY CompareShape
<1>7. Len(e.subs) = 2
  BY <1>5, <1>6, CompareCounts
<1>8. k \in 1 .. TreeSize(t)
  <2>1. 2 \in 1 .. Len(e.subs)
    BY <1>7
  <2> QED BY <2>1, SubsBefore, Zenon
<1>9. c[k] = Body(t)[k]
  BY <1>5, <1>8, CallsOps DEF IsSentinel
<1> QED BY <1>5, <1>9 DEF Second

(* The left operand of a test that is rewritten: one element, or no effects. *)
LEMMA OrdinaryOnce ==
  ASSUME NEW t \in Targets, NEW v \in Values, Ordinary(t, v), NEW n \in 1 .. TreeSize(t), IsMembership(Body(t)[n]),
         AllLiteral(Body(t), Second(Body(t), Body(t)[n]))
  PROVE  LET b == Body(t)
             e == b[n]
             elements == Distinct(CallsRewritten[t], Second(b, e))
         IN  /\ Len(elements) = 1 \/ Still(Meaning(b, v)[e.subs[1]])
             /\ elements = <<>> => b[e.subs[1]].op \in {"name", "const", "minus"}
<1> DEFINE b == Body(t)
           c == CallsRewritten[t]
           e == b[n]
           k == e.subs[1]
           elements == Distinct(c, Second(b, e))
           M == Meaning(b, v)
<1>1. /\ Len(e.subs) = 2 /\ c[n] = e /\ c[e.subs[2]] = Second(b, e)
      /\ IsRewritten(c, e)
  BY MembershipSame
<1>2. n \in DOMAIN c
  BY CallsFacts
<1>3. EvaluatedOnce(c, e)
  <2>1. \A m \in DOMAIN c : IsRewritten(c, c[m]) => EvaluatedOnce(c, c[m])
    BY Zenon DEF Ordinary
  <2> HIDE DEF c
  <2> QED BY <1>1, <1>2, <2>1
<1>4. \/ Len(elements) = 1
      \/ Len(elements) > 1 /\ Quiet(c, k)
      \/ c[k].op \in {"name", "const", "minus"}
  <2> HIDE DEF c
  <2> QED BY <1>1, <1>3 DEF EvaluatedOnce
<1>5. k \in 1 .. TreeSize(t)
  <2>1. 1 \in 1 .. Len(e.subs)
    BY <1>1
  <2> QED BY <2>1, SubsBefore, Zenon
<1>6. Quiet(c, k) => Still(M[k])
  BY <1>5, QuietStill
<1>7. ASSUME c[k].op \in {"name", "const", "minus"}
      PROVE  b[k].op \in {"name", "const", "minus"} /\ Still(M[k])
  <2>1. c[k] = b[k]
    BY <1>5, <1>7, CallsOps
  <2>2. b[k].op \in {"name", "const", "minus"}
    BY <1>7, <2>1
  <2>3. ByOp(b, v, M, b[k], M[k])
    <3>1. M[k] = Comes(b, v, M, k)
      BY <1>5, BodyFacts, BodyFormed, MeaningFollows
    <3> QED BY <3>1, ComesByOp
  <2> HIDE DEF b, M, k
  <2>4. (b[k].op = "const" => Still(M[k])) /\ (b[k].op = "minus" => Still(M[k])) /\ (b[k].op = "name" => Still(M[k]))
    BY <2>3, StillAlways, Zenon DEF ByOp
  <2> QED BY <2>2, <2>4
<1>8. elements = <<>> => Len(elements) = 0
  OBVIOUS
<1> HIDE DEF elements, M, k, c, b
<1> SUFFICES /\ Len(elements) = 1 \/ Still(M[k])
             /\ elements = <<>> => b[k].op \in {"name", "const", "minus"}
  BY DEF elements, M, k, c, b
<1> QED BY <1>4, <1>6, <1>7, <1>8

-----------------------------------------------------------------------------
(* The rewritten tree on a wrapped argument beside the source on a plain one *)

\* The source of a target on an argument, and its rewriting on the wrapped argument.
PlainMeaning(t, v) == Meaning(Body(t), v)
WrappedMeaning(t, drawn, v) == Meaning(Compiled(t, drawn), Wrap(v))

(* Both trees have a meaning, and each node is given it by its operation. *)
LEMMA Meanings ==
  ASSUME NEW t \in Targets, NEW drawn, NEW v \in Values, NEW n \in 1 .. TreeSize(t)
  PROVE  /\ PlainMeaning(t, v)[n] \in Senses /\ WrappedMeaning(t, drawn, v)[n] \in Senses
         /\ ByOp(Body(t), v, PlainMeaning(t, v), Body(t)[n], PlainMeaning(t, v)[n])
         /\ ByOp(Compiled(t, drawn), Wrap(v), WrappedMeaning(t, drawn, v), Compiled(t, drawn)[n], WrappedMeaning(t, drawn, v)[n])
<1>1. PlainMeaning(t, v)[n] \in Senses /\ PlainMeaning(t, v)[n] = Comes(Body(t), v, PlainMeaning(t, v), n)
  BY BodyFacts, BodyFormed, MeaningFollows DEF PlainMeaning
<1>2. /\ WrappedMeaning(t, drawn, v)[n] \in Senses
      /\ WrappedMeaning(t, drawn, v)[n] = Comes(Compiled(t, drawn), Wrap(v), WrappedMeaning(t, drawn, v), n)
  <2>1. Wrap(v) \in Values /\ TreeSize(t) \in Nat
    BY WrapParts, BodyFacts
  <2>2. DOMAIN Compiled(t, drawn) = 1 .. TreeSize(t) /\ \A m \in 1 .. TreeSize(t) : Formed(Compiled(t, drawn), Wrap(v), m)
    BY CompiledParts, CompiledFormed
  <2> QED BY <2>1, <2>2, MeaningFollows DEF WrappedMeaning
<1>3. ByOp(Body(t), v, PlainMeaning(t, v), Body(t)[n], Comes(Body(t), v, PlainMeaning(t, v), n))
  BY ComesByOp
<1>4. ByOp(Compiled(t, drawn), Wrap(v), WrappedMeaning(t, drawn, v), Compiled(t, drawn)[n],
           Comes(Compiled(t, drawn), Wrap(v), WrappedMeaning(t, drawn, v), n))
  BY ComesByOp
<1> QED BY <1>1, <1>2, <1>3, <1>4, Zenon

(* A value on one side and the same value on the other. *)
LEMMA MatchesAlways ==
  ASSUME NEW hashes, NEW v, NEW w, Twin(hashes, v, w)
  PROVE  Matches(hashes, Always(v), Always(w))
<1> SUFFICES ASSUME NEW c \in Nat PROVE Like(hashes, Always(v)[c], Always(w)[c])
  BY DEF Matches
<1>1. /\ ~Always(v)[c].raised /\ Always(v)[c].val = v /\ Always(v)[c].calls = c
      /\ ~Always(w)[c].raised /\ Always(w)[c].val = w /\ Always(w)[c].calls = c
  BY AlwaysGives
<1>2. Always(v)[c].raised = Always(w)[c].raised
  <2>1. Always(v)[c] = Gives(v, c) /\ Always(w)[c] = Gives(w, c)
    BY AlwaysGives
  <2> QED BY <2>1 DEF Gives
<1> QED BY <1>1, <1>2 DEF Like

(* Both sides call pop() as often, and get the same. *)
LEMMA MatchesPopped ==
  ASSUME NEW hashes, hashes => \A i \in DOMAIN Supply : Hashable(Supply[i])
  PROVE  Matches(hashes, Popped, Popped)
<1> SUFFICES ASSUME NEW c \in Nat PROVE Like(hashes, Popped[c], Popped[c])
  BY DEF Matches
<1> DEFINE i == (c % Len(Supply)) + 1
           v == Supply[i]
<1>1. Supply \in Seq(Values) /\ Len(Supply) \in Nat \ {0} /\ \A k \in DOMAIN Supply : ~Supply[k].wrapped
  BY RewritingAssumption
<1>2. i \in DOMAIN Supply
  BY <1>1
<1>3. v \in Values /\ ~v.wrapped /\ (hashes => Hashable(v))
  BY <1>1, <1>2
<1>4. Popped[c] = Gives(v, c + 1)
  BY DEF Popped
<1> HIDE DEF v, i
<1>5. Popped[c].val = v
  BY <1>4, GivesParts
<1>6. Twin(hashes, v, v)
  BY <1>3 DEF Twin
<1> QED BY <1>5, <1>6 DEF Like

(* A literal is its own counterpart. *)
LEMMA LiteralTwin ==
  ASSUME NEW hashes, NEW k \in Values, ~k.wrapped, k.type \in LiteralTypes
  PROVE  Twin(hashes, k, k)
BY DEF Twin, LiteralTypes, Hashable

(* Constants, the parameter and calls of pop(). *)
LEMMA LeafMatches ==
  ASSUME NEW t \in Targets, NEW drawn, NEW v \in Values, ~v.wrapped, NEW n \in 1 .. TreeSize(t),
         NEW hashes, hashes <=> HashesAll(v), Body(t)[n].op \in {"const", "minus", "name", "pop"}
  PROVE  Matches(hashes, WrappedMeaning(t, drawn, v)[n], PlainMeaning(t, v)[n])
<1> DEFINE b == Body(t)
           r == Compiled(t, drawn)
           e == b[n]
           f == r[n]
           it == WrappedMeaning(t, drawn, v)[n]
           that == PlainMeaning(t, v)[n]
<1>1. Alike(e, f)
  BY SimpleKept
<1>2. ByOp(b, v, PlainMeaning(t, v), e, that) /\ ByOp(r, Wrap(v), WrappedMeaning(t, drawn, v), f, it)
  BY Meanings
<1>3. IsLiteralElement(e) => LET k == LiteralValue(b, e)
                             IN  LiteralValue(r, f) = k /\ k \in Values /\ ~k.wrapped /\ k.type \in LiteralTypes
  BY LiteralSame
<1>4. Wrap(v) \in Values /\ Wrap(v).type = v.type /\ Wrap(v).val = v.val
  BY WrapParts
<1>5. f.op = e.op
  BY <1>1 DEF Alike
<1>6. e.op = "const" => f.value = e.value
  BY <1>1 DEF Alike
<1> SUFFICES Matches(hashes, it, that)
  OBVIOUS
<1> HIDE DEF b, r, e, f, it, that
<1>7. CASE e.op \in {"const", "minus"}
  <2> DEFINE k == LiteralValue(b, e)
  <2>1. LiteralValue(r, f) = k /\ Twin(hashes, k, k)
    <3>1. IsLiteralElement(e)
      BY <1>7 DEF IsLiteralElement
    <3> HIDE DEF k
    <3> QED BY <1>3, <3>1, LiteralTwin DEF k
  <2>2. e.op = "const" => k = e.value /\ LiteralValue(r, f) = f.value
    BY <1>5 DEF LiteralValue
  <2>3. e.op = "const" => it = Always(k) /\ that = Always(k)
    BY <1>2, <1>5, <1>6, <2>2, Zenon DEF ByOp
  <2>4. e.op = "minus" => it = Always(k) /\ that = Always(k)
    BY <1>2, <1>5, <2>1, Zenon DEF ByOp
  <2> HIDE DEF k
  <2>5. it = Always(k) /\ that = Always(k)
    BY <1>7, <2>3, <2>4
  <2> QED BY <2>1, <2>5, MatchesAlways
<1>8. CASE e.op = "name"
  <2>1. it = Always(Wrap(v)) /\ that = Always(v)
    BY <1>2, <1>5, <1>8, Zenon DEF ByOp
  <2>2. Twin(hashes, Wrap(v), v)
    BY <1>4 DEF Twin, HashesAll
  <2> QED BY <2>1, <2>2, MatchesAlways
<1>9. CASE e.op = "pop"
  <2>1. it = Popped /\ that = Popped
    BY <1>2, <1>5, <1>9, Zenon DEF ByOp
  <2> QED BY <2>1, MatchesPopped DEF HashesAll
<1>10. e.op \in {"const", "minus", "name", "pop"}
  BY DEF e, b
<1> QED BY <1>7, <1>8, <1>9, <1>10

\* The children of a node that are expressions come to the same on both sides.
ChildrenMatch(t, drawn, v, hashes, n) ==
    \A i \in 1 .. Len(Body(t)[n].subs) :
        LET m == Body(t)[n].subs[i]
        IN  IsExpression(Body(t)[m]) => Matches(hashes, WrappedMeaning(t, drawn, v)[m], PlainMeaning(t, v)[m])

(* "or" and "and". *)
LEMMA ShortcutNode ==
  ASSUME NEW t \in Targets, NEW drawn, NEW v \in Values, NEW n \in 1 .. TreeSize(t), NEW hashes,
         ChildrenMatch(t, drawn, v, hashes, n), Body(t)[n].op \in {"or", "and"}
  PROVE  Matches(hashes, WrappedMeaning(t, drawn, v)[n], PlainMeaning(t, v)[n])
<1> DEFINE b == Body(t)
           r == Compiled(t, drawn)
           W == WrappedMeaning(t, drawn, v)
           P == PlainMeaning(t, v)
           e == b[n]
           f == r[n]
           it == W[n]
           that == P[n]
           L == Len(e.subs)
           New(i) == W[e.subs[i]]
           Old(i) == P[e.subs[i]]
           by == e.op = "or"
           parts == [i \in 1 .. L |-> New(i)]
           bare == [i \in 1 .. L |-> Old(i)]
<1>1. Alike(e, f)
  BY SimpleKept
<1>2. ByOp(b, v, P, e, that) /\ ByOp(r, Wrap(v), W, f, it)
  BY Meanings
<1>3. e \in Node /\ Shaped(b, n)
  BY BodyFacts
<1>4. L \in Nat /\ DOMAIN e.subs = 1 .. L
  BY <1>3, NodeParts
<1>5. \A i \in 1 .. L : e.subs[i] \in 1 .. TreeSize(t)
  BY SubsBefore
<1>6. \A i \in 1 .. L : New(i) \in Senses /\ Old(i) \in Senses
  BY <1>5, Meanings
<1>7. \A i \in 1 .. L : IsExpression(b[e.subs[i]])
  <2> HIDE DEF b
  <2> QED BY <1>3, <1>4 DEF Shaped, ExpressionsAt, Containers, b
<1>8. \A i \in 1 .. L : Matches(hashes, New(i), Old(i))
  BY <1>7 DEF ChildrenMatch
<1>9. e.op \in {"or", "and"}
  OBVIOUS
<1>10. f.op = e.op /\ f.subs = e.subs
  BY <1>1 DEF Alike
<1> SUFFICES Matches(hashes, it, that)
  OBVIOUS
<1>11. that = Shortcut(by, bare)
  <2> HIDE DEF b, e, P, that
  <2> QED BY <1>2, <1>9, Zenon DEF ByOp
<1>12. it = Shortcut(by, parts)
  <2> HIDE DEF r, f, e, W, it
  <2> QED BY <1>2, <1>9, <1>10, Zenon DEF ByOp
<1>13. /\ parts \in Seq(Senses) /\ Len(parts) = L
       /\ bare \in Seq(Senses) /\ Len(bare) = L
  <2> HIDE DEF New, Old, L
  <2> QED BY <1>4, <1>6, OperandParts
<1>14. \A i \in 1 .. Len(bare) : Matches(hashes, parts[i], bare[i])
  <2> HIDE DEF New, Old, L
  <2>1. \A i \in 1 .. L : parts[i] = New(i) /\ bare[i] = Old(i)
    OBVIOUS
  <2> HIDE DEF parts, bare
  <2> QED BY <1>8, <1>13, <2>1
<1>15. by \in BOOLEAN
  OBVIOUS
<1> HIDE DEF by, parts, bare, it, that
<1> QED BY <1>11, <1>12, <1>13, <1>14, <1>15, ShortcutMatches

(* What the right operand of a comparison that stays as it is adds to the outcome. *)
LEMMA OperandAgrees ==
  ASSUME NEW t \in Targets, NEW drawn, NEW v \in Values, NEW n \in 1 .. TreeSize(t), NEW hashes,
         ChildrenMatch(t, drawn, v, hashes, n), Ordinary(t, v),
         Body(t)[n].op = "compare",
         ~(IsSingle(Body(t)[n]) /\ Body(t)[n].ops[1] = "is" /\ IsSentinel(Second(Body(t), Body(t)[n]))),
         NEW i \in 1 .. Len(Body(t)[n].ops)
  PROVE  LET m == Body(t)[n].subs[i + 1]
             op == Body(t)[n].ops[i]
         IN  Agrees(hashes, op, op, WrappedMeaning(t, drawn, v)[m], PlainMeaning(t, v)[m])
<1> DEFINE b == Body(t)
           r == Compiled(t, drawn)
           W == WrappedMeaning(t, drawn, v)
           P == PlainMeaning(t, v)
           e == b[n]
           m == e.subs[i + 1]
           op == e.ops[i]
<1>1. ComparesWell(b, e) /\ e \in Node
  BY CompareShape, BodyFacts
<1>2. /\ Len(e.subs) = Len(e.ops) + 1 /\ DOMAIN e.ops = 1 .. Len(e.ops) /\ Len(e.ops) \in Nat
      /\ \/ op \in {"==", "!=", "is"} /\ IsExpression(b[m])
         \/ op \in {"in", "notin"} /\ IsContainer(b[m])
  <2>1. DOMAIN e.ops = 1 .. Len(e.ops) /\ Len(e.ops) \in Nat
    BY <1>1, NodeParts
  <2>2. i \in DOMAIN e.ops
    BY <2>1
  <2>3. /\ Len(e.subs) = Len(e.ops) + 1
        /\ \A j \in DOMAIN e.ops :
             \/ e.ops[j] \in {"==", "!=", "is"} /\ IsExpression(b[e.subs[j + 1]])
             \/ e.ops[j] \in {"in", "notin"} /\ IsContainer(b[e.subs[j + 1]])
    BY <1>1, Zenon DEF ComparesWell
  <2> QED BY <2>1, <2>2, <2>3
<1>3. i + 1 \in 1 .. Len(e.subs)
  BY <1>2
<1>4. m \in 1 .. TreeSize(t)
  BY <1>3, SubsBefore, Zenon
<1>5. ByOp(b, v, P, b[m], P[m]) /\ ByOp(r, Wrap(v), W, r[m], W[m])
  BY <1>4, Meanings
<1>6. IsExpression(b[m]) => Matches(hashes, W[m], P[m])
  <2> HIDE DEF W, P
  <2> QED BY <1>3 DEF ChildrenMatch, W, P
<1> SUFFICES Agrees(hashes, op, op, W[m], P[m])
  OBVIOUS
<1>7. CASE op \in {"==", "!="} /\ IsExpression(b[m])
  <2> HIDE DEF b, m, op, W, P
  <2> QED BY <1>6, <1>7, AgreesEquality
<1>8. CASE op = "is"
  <2>1. Len(e.ops) = 1 /\ IsSentinel(Second(b, e))
    BY <1>8, OrdinaryIdentity
  <2>2. IsSingle(e) /\ e.ops[1] = "is"
    BY <1>2, <1>8, <2>1 DEF IsSingle
  <2> QED BY <2>1, <2>2
<1>9. CASE op \in {"in", "notin"} /\ IsContainer(b[m])
  <2>1. Alike(b[m], r[m])
    BY <1>4, <1>9, SimpleKept DEF IsContainer, Containers
  <2>2. IsContainer(r[m])
    <3> HIDE DEF b, r, m
    <3> QED BY <1>9, <2>1 DEF Alike, IsContainer, EmptyCall
  <2>3. P[m] = Collected(b, b[m], v) /\ W[m] = Collected(r, r[m], Wrap(v))
    <3> HIDE DEF b, r, m, P, W
    <3> QED BY <1>5, <1>9, <2>2, Zenon DEF ByOp
  <2>4. Agrees(hashes, op, op, Collected(r, r[m], Wrap(v)), Collected(b, b[m], v))
    BY <1>4, <1>9, AgreesCollected
  <2> QED BY <2>3, <2>4
<1>10. \/ op = "is"
       \/ op \in {"==", "!="} /\ IsExpression(b[m])
       \/ op \in {"in", "notin"} /\ IsContainer(b[m])
  BY <1>2
<1> QED BY <1>7, <1>8, <1>9, <1>10

(* A comparison that stays as it is. *)
LEMMA CompareNode ==
  ASSUME NEW t \in Targets, NEW drawn, NEW v \in Values, NEW n \in 1 .. TreeSize(t), NEW hashes,
         ChildrenMatch(t, drawn, v, hashes, n), Ordinary(t, v),
         KeptCompare(Body(t), Body(t)[n], Compiled(t, drawn)[n])
  PROVE  Matches(hashes, WrappedMeaning(t, drawn, v)[n], PlainMeaning(t, v)[n])
<1> DEFINE b == Body(t)
           r == Compiled(t, drawn)
           W == WrappedMeaning(t, drawn, v)
           P == PlainMeaning(t, v)
           e == b[n]
           f == r[n]
           it == W[n]
           that == P[n]
           New(i) == W[e.subs[i]]
           Old(i) == P[e.subs[i]]
<1>1. e.op = "compare" /\ f.op = e.op /\ f.ops = e.ops /\ f.subs = e.subs
  BY DEF KeptCompare, Alike
<1>2. ByOp(b, v, P, e, that) /\ ByOp(r, Wrap(v), W, f, it)
  BY Meanings
<1>3. ComparesWell(b, e)
  BY <1>1, CompareShape
<1>4. (Len(e.ops) = 1 /\ Len(e.subs) = 2) \/ (Len(e.ops) = 2 /\ Len(e.subs) = 3)
  BY <1>3, CompareCounts
<1>5. \A i \in 1 .. Len(e.ops) : Agrees(hashes, e.ops[i], e.ops[i], New(i + 1), Old(i + 1))
  BY <1>1, OperandAgrees, Zenon DEF KeptCompare
<1>6. \A i \in 1 .. Len(e.subs) : e.subs[i] \in 1 .. TreeSize(t)
  BY SubsBefore
<1>7. \A i \in 1 .. Len(e.subs) : New(i) \in Senses /\ Old(i) \in Senses
  BY <1>6, Meanings
<1>8. \A i \in 1 .. Len(e.subs) : IsExpression(b[e.subs[i]]) => Matches(hashes, New(i), Old(i))
  BY DEF ChildrenMatch
<1>9. /\ IsExpression(b[e.subs[1]])
      /\ Len(e.ops) = 2 => e.ops[1] \in {"==", "!=", "is"}
      /\ \A i \in DOMAIN e.ops : e.ops[i] \in {"==", "!=", "is"} => IsExpression(b[e.subs[i + 1]])
  <2> SUFFICES /\ IsExpression(b[e.subs[1]])
               /\ Len(e.ops) = 1 \/ e.ops[1] \in {"==", "!=", "is"}
               /\ \A i \in DOMAIN e.ops : e.ops[i] \in {"==", "!=", "is"} => IsExpression(b[e.subs[i + 1]])
    OBVIOUS
  <2>1. IsExpression(b[e.subs[1]])
    BY <1>3, Zenon DEF ComparesWell
  <2>2. Len(e.ops) = 1 \/ e.ops[1] \in {"==", "!=", "is"}
    BY <1>3, Zenon DEF ComparesWell
  <2>3. ASSUME NEW i \in DOMAIN e.ops, e.ops[i] \in {"==", "!=", "is"} PROVE IsExpression(b[e.subs[i + 1]])
    <3>1. \/ e.ops[i] \in {"==", "!=", "is"} /\ IsExpression(b[e.subs[i + 1]])
          \/ e.ops[i] \in {"in", "notin"} /\ IsContainer(b[e.subs[i + 1]])
      BY <1>3, Zenon DEF ComparesWell
    <3> QED BY <2>3, <3>1
  <2> QED BY <2>1, <2>2, <2>3, Zenon
<1>10. e \in Node
  BY BodyFacts
<1>11. DOMAIN e.ops = 1 .. Len(e.ops)
  BY <1>10, NodeParts
<1> SUFFICES Matches(hashes, it, that)
  OBVIOUS
<1>12. CASE Len(e.ops) = 1 /\ Len(e.subs) = 2
  <2>1. IsSingle(e) /\ IsSingle(f)
    <3> HIDE DEF e, f
    <3> QED BY <1>1, <1>12 DEF IsSingle
  <2>2. it = Binary(e.ops[1], New(1), New(2)) /\ that = Binary(e.ops[1], Old(1), Old(2))
    <3> HIDE DEF e, f, W, P, b, r, it, that
    <3> QED BY <1>1, <1>2, <2>1, Zenon DEF ByOp
  <2>3. Agrees(hashes, e.ops[1], e.ops[1], New(2), Old(2))
    <3>1. 1 \in 1 .. Len(e.ops) /\ 1 + 1 = 2
      BY <1>12
    <3> HIDE DEF e, W, P
    <3> QED BY <1>5, <3>1
  <2>4. Matches(hashes, New(1), Old(1)) /\ New(1) \in Senses /\ Old(1) \in Senses
    <3>1. 1 \in 1 .. Len(e.subs)
      BY <1>12
    <3> HIDE DEF e, W, P, b
    <3> QED BY <1>7, <1>8, <1>9, <3>1
  <2> HIDE DEF it, that, New, Old, e
  <2> QED BY <2>2, <2>3, <2>4, BinaryMatches
<1>13. CASE Len(e.ops) = 2 /\ Len(e.subs) = 3
  <2>2. /\ it = Chained(e.ops[1], e.ops[2], New(1), New(2), New(3))
        /\ that = Chained(e.ops[1], e.ops[2], Old(1), Old(2), Old(3))
    <3> HIDE DEF e, f, W, P, b, r, it, that
    <3> QED BY <1>1, <1>2, <1>13, Zenon DEF ByOp
  <2>3. Agrees(hashes, e.ops[1], e.ops[1], New(2), Old(2)) /\ Agrees(hashes, e.ops[2], e.ops[2], New(3), Old(3))
    <3>1. 1 \in 1 .. Len(e.ops) /\ 1 + 1 = 2 /\ 2 \in 1 .. Len(e.ops) /\ 2 + 1 = 3
      BY <1>13
    <3> HIDE DEF e, W, P
    <3> QED BY <1>5, <3>1
  <2>4. Matches(hashes, New(1), Old(1)) /\ New(1) \in Senses /\ Old(1) \in Senses
    <3>1. 1 \in 1 .. Len(e.subs)
      BY <1>13
    <3> HIDE DEF e, W, P, b
    <3> QED BY <1>7, <1>8, <1>9, <3>1
  <2>5. Matches(hashes, New(2), Old(2)) /\ New(2) \in Senses /\ Old(2) \in Senses
    <3>1. 2 \in 1 .. Len(e.subs) /\ 1 \in 1 .. Len(e.ops) /\ 1 + 1 = 2
      BY <1>13
    <3>2. IsExpression(b[e.subs[2]])
      BY <1>9, <1>11, <1>13, <3>1
    <3> HIDE DEF e, W, P, b
    <3> QED BY <1>7, <1>8, <3>1, <3>2
  <2> HIDE DEF it, that, New, Old, e
  <2> QED BY <2>2, <2>3, <2>4, <2>5, ChainedMatches
<1> QED BY <1>4, <1>12, <1>13

(* "is" with a sentinel, through the helper that unwraps its operands. *)
LEMMA UnwrappingNode ==
  ASSUME NEW t \in Targets, NEW drawn, NEW v \in Values, NEW n \in 1 .. TreeSize(t), NEW hashes,
         ChildrenMatch(t, drawn, v, hashes, n), IsSentinel(Second(Body(t), Body(t)[n])),
         Unwrapping(Body(t), Body(t)[n], Compiled(t, drawn)[n])
  PROVE  Matches(hashes, WrappedMeaning(t, drawn, v)[n], PlainMeaning(t, v)[n])
<1> DEFINE b == Body(t)
           r == Compiled(t, drawn)
           W == WrappedMeaning(t, drawn, v)
           P == PlainMeaning(t, v)
           e == b[n]
           f == r[n]
           it == W[n]
           that == P[n]
           k == e.subs[1]
           m == e.subs[2]
           value == b[m].value
<1>1. /\ IsSingle(e) /\ e.ops[1] = "is" /\ IsSentinel(b[m])
      /\ f.op = "helper" /\ f.arg = "is" /\ f.subs = e.subs
  BY DEF Unwrapping, Second
<1>2. ByOp(b, v, P, e, that) /\ ByOp(r, Wrap(v), W, f, it)
  BY Meanings
<1>3. ComparesWell(b, e)
  BY <1>1, CompareShape DEF IsSingle
<1>4. Len(e.subs) = 2 /\ IsExpression(b[k])
  <2>1. Len(e.subs) = 2
    BY <1>1, <1>3, CompareCounts DEF IsSingle
  <2>2. IsExpression(b[k])
    BY <1>3, Zenon DEF ComparesWell
  <2> QED BY <2>1, <2>2
<1>5. 1 \in 1 .. Len(e.subs) /\ 2 \in 1 .. Len(e.subs)
  BY <1>4
<1>6. k \in 1 .. TreeSize(t) /\ m \in 1 .. TreeSize(t)
  BY <1>5, SubsBefore, Zenon
<1>7. P[k] \in Senses /\ Matches(hashes, W[k], P[k])
  <2>1. Matches(hashes, W[k], P[k])
    BY <1>4, <1>5 DEF ChildrenMatch
  <2> QED BY <1>6, <2>1, Meanings
<1>8. ByOp(b, v, P, b[m], P[m]) /\ ByOp(r, Wrap(v), W, r[m], W[m])
  BY <1>6, Meanings
<1>9. b[m].op = "const"
  BY <1>1 DEF IsSentinel
<1>10. value \in Values /\ ~value.wrapped
  <2>1. IsLiteralElement(b[m])
    BY <1>9 DEF IsLiteralElement
  <2>2. LiteralValue(b, b[m]) \in Values /\ ~LiteralValue(b, b[m]).wrapped
    BY <1>6, <2>1, LiteralSame
  <2> QED BY <1>9, <2>2 DEF LiteralValue
<1>11. r[m].op = "const" /\ r[m].value = value
  <2>1. Alike(b[m], r[m])
    BY <1>6, <1>9, SimpleKept
  <2> QED BY <1>9, <2>1 DEF Alike
<1> SUFFICES Matches(hashes, it, that)
  OBVIOUS
<1>12. P[m] = Always(value) /\ W[m] = Always(value)
  <2> HIDE DEF b, r, m, P, W
  <2> QED BY <1>8, <1>9, <1>11, Zenon DEF ByOp
<1>13. that = Binary("is", P[k], P[m])
  <2> HIDE DEF b, r, e, P, that
  <2> QED BY <1>1, <1>2, Zenon DEF ByOp
<1>14. it = Binary("unwrappedIs", W[k], W[m])
  <2>1. f.op = "helper" /\ f.arg = "is" /\ Len(f.subs) = 2
    BY <1>1, <1>4
  <2> HIDE DEF b, r, e, f, W, it
  <2> QED BY <1>1, <1>2, <2>1, Zenon DEF ByOp
<1>15. Agrees(hashes, "unwrappedIs", "is", Always(value), Always(value))
  <2> HIDE DEF value
  <2> QED BY <1>10, AgreesIdentity
<1> HIDE DEF it, that, W, P, k, m, value
<1> QED BY <1>7, <1>12, <1>13, <1>14, <1>15, BinaryMatches

(* Calls of int(), str(), range() and map(), as builtins or through the helpers. *)
LEMMA CallNode ==
  ASSUME NEW t \in Targets, NEW drawn, NEW v \in Values, NEW n \in 1 .. TreeSize(t), NEW hashes,
         ChildrenMatch(t, drawn, v, hashes, n),
         Body(t)[n].op = "call", ~EmptyCall(Body(t)[n]),
         LeftAlone(Body(t)[n], Compiled(t, drawn)[n]) \/ Helped(Body(t)[n], Compiled(t, drawn)[n])
  PROVE  Matches(hashes, WrappedMeaning(t, drawn, v)[n], PlainMeaning(t, v)[n])
<1> DEFINE b == Body(t)
           r == Compiled(t, drawn)
           W == WrappedMeaning(t, drawn, v)
           P == PlainMeaning(t, v)
           e == b[n]
           f == r[n]
           it == W[n]
           that == P[n]
           L == Len(e.subs)
           New(i) == W[e.subs[i]]
           Old(i) == P[e.subs[i]]
<1>1. e.op = "call" /\ ~EmptyCall(e) /\ (LeftAlone(e, f) \/ Helped(e, f))
  OBVIOUS
<1>2. ByOp(b, v, P, e, that) /\ ByOp(r, Wrap(v), W, f, it)
  BY Meanings
<1>3. CallsWell(b, e) /\ e \in Node
  BY <1>1, BodyFacts DEF Shaped, Containers
<1>4. DOMAIN e.subs = 1 .. L /\ L \in Nat
  BY <1>3, NodeParts
<1>5. \/ e.arg \in {"int", "str", "range"} /\ L \in 1 .. 2 /\ \A i \in 1 .. L : IsExpression(b[e.subs[i]])
      \/ e.arg = "map" /\ L = 2 /\ IsExpression(b[e.subs[2]])
  <2> HIDE DEF b, e
  <2> QED BY <1>1, <1>3, <1>4 DEF CallsWell, ExpressionsAt
<1>6. \A i \in 1 .. L : e.subs[i] \in 1 .. TreeSize(t)
  BY SubsBefore
<1>7. \A i \in 1 .. L : New(i) \in Senses /\ Old(i) \in Senses
  BY <1>6, Meanings
<1>8. \A i \in 1 .. L : IsExpression(b[e.subs[i]]) => Matches(hashes, New(i), Old(i))
  BY DEF ChildrenMatch
<1>9. f.arg = e.arg /\ f.subs = e.subs /\ (f.op = "call" \/ f.op = "helper")
  BY <1>1 DEF LeftAlone, Helped, Alike
<1>10. f.op = "call" => ~EmptyCall(f)
  BY <1>1, <1>9 DEF EmptyCall
<1>11. f.op = "helper" => e.arg # "map"
  BY <1>1 DEF LeftAlone, Helped, Alike
<1>12. 1 .. 2 = {1, 2}
  OBVIOUS
<1> SUFFICES Matches(hashes, it, that)
  OBVIOUS
<1> HIDE DEF W, P, it, that, b, r, e, f
<1>13. CASE e.arg = "map" /\ L = 2 /\ IsExpression(b[e.subs[2]])
  <2>1. f.op = "call" /\ f.arg = "map" /\ Len(f.subs) = 2 /\ e.arg = "map" /\ Len(e.subs) = 2
    BY <1>9, <1>11, <1>13
  <2>2. it = Unary("map", FALSE, New(2)) /\ that = Unary("map", FALSE, Old(2))
    BY <1>1, <1>2, <1>9, <2>1, Zenon DEF ByOp
  <2>3. Matches(hashes, New(2), Old(2))
    BY <1>8, <1>13
  <2>4. FALSE \in BOOLEAN
    OBVIOUS
  <2>5. "map" # "map" \/ ~FALSE
    OBVIOUS
  <2> HIDE DEF New, Old
  <2> QED BY <2>2, <2>3, <2>4, <2>5, UnaryMatches, Zenon
<1>14. CASE e.arg \in {"int", "str", "range"} /\ L = 2 /\ \A i \in 1 .. L : IsExpression(b[e.subs[i]])
  <2>1. f.arg \notin {"map", "is"} /\ e.arg \notin {"map", "is"} /\ Len(f.subs) = 2 /\ Len(e.subs) = 2
    BY <1>9, <1>14
  <2>2. that = Binary(e.arg, Old(1), Old(2))
    BY <1>1, <1>2, <2>1, Zenon DEF ByOp
  <2>3. it = Binary(e.arg, New(1), New(2))
    <3>1. f.arg # "map" /\ f.arg # "is"
      BY <2>1
    <3>2. f.op = "call" => it = Binary(f.arg, W[f.subs[1]], W[f.subs[2]])
      BY <1>2, <1>10, <2>1, Zenon DEF ByOp
    <3>3. f.op = "helper" => it = Binary(f.arg, W[f.subs[1]], W[f.subs[2]])
      BY <1>2, <2>1, <3>1, Zenon DEF ByOp
    <3> QED BY <1>9, <3>2, <3>3
  <2>4. /\ Matches(hashes, New(1), Old(1)) /\ Matches(hashes, New(2), Old(2)) /\ Old(1) \in Senses
    BY <1>7, <1>8, <1>14
  <2>5. Agrees(hashes, e.arg, e.arg, New(2), Old(2))
    <3> HIDE DEF New, Old
    <3> QED BY <1>14, <2>4, AgreesArguments
  <2> HIDE DEF New, Old
  <2> QED BY <2>2, <2>3, <2>4, <2>5, BinaryMatches
<1>15. CASE e.arg \in {"int", "str", "range"} /\ L = 1 /\ \A i \in 1 .. L : IsExpression(b[e.subs[i]])
  <2> DEFINE name == e.arg
  <2>1. f.arg = name /\ name \notin {"map", "is"} /\ Len(f.subs) = 1 /\ Len(e.subs) = 1 /\ name # "map" /\ name # "is"
    BY <1>9, <1>15
  <2>2. that = Unary(name, FALSE, Old(1))
    BY <1>1, <1>2, <2>1, Zenon DEF ByOp
  <2>3. f.op = "call" => it = Unary(name, FALSE, New(1))
    BY <1>2, <1>9, <1>10, <2>1, Zenon DEF ByOp
  <2>4. f.op = "helper" => it = Unary(name, TRUE, New(1))
    BY <1>2, <1>9, <2>1, Zenon DEF ByOp
  <2>5. Matches(hashes, New(1), Old(1))
    BY <1>8, <1>15
  <2>6. FALSE \in BOOLEAN /\ TRUE \in BOOLEAN
    OBVIOUS
  <2>7. name # "map" \/ ~FALSE
    OBVIOUS
  <2>8. name # "map" \/ ~TRUE
    BY <2>1
  <2> HIDE DEF New, Old, name
  <2>9. Matches(hashes, Unary(name, FALSE, New(1)), Unary(name, FALSE, Old(1)))
    BY <2>5, <2>6, <2>7, UnaryMatches, Zenon
  <2>10. Matches(hashes, Unary(name, TRUE, New(1)), Unary(name, FALSE, Old(1)))
    BY <2>5, <2>6, <2>8, UnaryMatches, Zenon
  <2> QED BY <1>9, <2>2, <2>3, <2>4, <2>9, <2>10, Zenon
<1> QED BY <1>5, <1>12, <1>13, <1>14, <1>15

(* The first argument a membership test looks for in a container, and the container. *)
LEMMA MembershipSides ==
  ASSUME NEW t \in Targets, NEW drawn, NEW v \in Values, NEW n \in 1 .. TreeSize(t), NEW hashes,
         ChildrenMatch(t, drawn, v, hashes, n), IsMembership(Body(t)[n]),
         AllLiteral(Body(t), Second(Body(t), Body(t)[n]))
  PROVE  LET b == Body(t)
             e == b[n]
             g == Second(b, e)
             k == e.subs[1]
             m == e.subs[2]
             P == PlainMeaning(t, v)
             W == WrappedMeaning(t, drawn, v)
             D == [type |-> Kind(g), val |-> 0, wrapped |-> FALSE,
                   items |-> {LiteralValue(b, b[g.subs[i]]) : i \in 1 .. Len(g.subs)}]
         IN  /\ k \in 1 .. TreeSize(t) /\ P[k] \in Senses /\ W[k] \in Senses /\ Matches(hashes, W[k], P[k])
             /\ P[n] = Binary(e.ops[1], P[k], Always(D))
<1> DEFINE b == Body(t)
           e == b[n]
           g == Second(b, e)
           k == e.subs[1]
           m == e.subs[2]
           P == PlainMeaning(t, v)
           W == WrappedMeaning(t, drawn, v)
           Element(i) == b[g.subs[i]]
           Item(i) == IF Element(i).op = "name" THEN v ELSE LiteralValue(b, Element(i))
           breaks == \E i \in DOMAIN g.subs :
                         \/ Element(i).op = "unpack"
                         \/ Element(i).op = "name" /\ SetLike(g) /\ ~Hashable(v)
           items == {Item(i) : i \in DOMAIN g.subs}
           values == {LiteralValue(b, Element(i)) : i \in 1 .. Len(g.subs)}
<1>1. Len(e.subs) = 2 /\ IsContainer(g) /\ IsExpression(b[k]) /\ g \in Node
  BY MembershipSame
<1>2. 1 \in 1 .. Len(e.subs) /\ 2 \in 1 .. Len(e.subs)
  BY <1>1
<1>3. k \in 1 .. TreeSize(t) /\ m \in 1 .. TreeSize(t)
  BY <1>2, SubsBefore, Zenon
<1>4. P[k] \in Senses /\ W[k] \in Senses
  BY <1>3, Meanings
<1>5. Matches(hashes, W[k], P[k])
  BY <1>1, <1>2 DEF ChildrenMatch
<1>6. ByOp(b, v, P, e, P[n]) /\ ByOp(b, v, P, b[m], P[m])
  BY <1>3, Meanings
<1>7. P[n] = Binary(e.ops[1], P[k], P[m])
  <2>1. IsSingle(e)
    BY DEF IsMembership
  <2> HIDE DEF b, P, e
  <2> QED BY <1>6, <2>1, Zenon DEF ByOp
<1>8. P[m] = Collected(b, g, v)
  <2>1. b[m] = g
    BY DEF Second
  <2> HIDE DEF b, P, m, g
  <2> QED BY <1>1, <1>6, <2>1, Zenon DEF ByOp
<1>9. DOMAIN g.subs = 1 .. Len(g.subs)
  BY <1>1, NodeParts
<1>10. \A i \in 1 .. Len(g.subs) : Element(i).op \notin {"name", "unpack"}
  BY DEF AllLiteral, IsLiteralElement
<1>11. ~breaks /\ items = values
  BY <1>9, <1>10
<1>12. Collected(b, g, v) = IF breaks THEN [calls \in Nat |-> Failed(calls)]
                            ELSE Always([type |-> Kind(g), val |-> 0, wrapped |-> FALSE, items |-> items])
  BY Zenon DEF Collected
<1> HIDE DEF breaks, items
<1>13. Collected(b, g, v) = Always([type |-> Kind(g), val |-> 0, wrapped |-> FALSE, items |-> values])
  BY <1>11, <1>12, Zenon
<1> QED BY <1>3, <1>4, <1>5, <1>7, <1>8, <1>13, Zenon

(* Nothing is found in an empty container. *)
LEMMA FoundInNone ==
  ASSUME NEW op \in {"in", "notin"}, NEW w, NEW D, D.items = {}, D.type \notin Hashing \/ Hashable(w)
  PROVE  Combined(op, w, D) = {Bool(op = "notin")}
<1> DEFINE it == Combined(op, w, D)
           found == \E v \in D.items : Equal(w, v)
<1>1. CombinedBy(op, w, D, it)
  BY CombinedParts
<1>2. it = {Bool(found = (op = "in"))}
  <2>1. ~(D.type \in Hashing /\ ~Hashable(w))
    OBVIOUS
  <2>2. it = IF D.type \in Hashing /\ ~Hashable(w) THEN {} ELSE {Bool(found = (op = "in"))}
    <3> HIDE DEF it
    <3> QED BY <1>1, Zenon DEF CombinedBy
  <2> HIDE DEF it, found
  <2> QED BY <2>1, <2>2, Zenon
<1>3. (found = (op = "in")) = (op = "notin")
  <2>1. found = FALSE
    OBVIOUS
  <2>2. (op = "in" /\ op # "notin") \/ (op # "in" /\ op = "notin")
    OBVIOUS
  <2> QED BY <2>1, <2>2
<1> HIDE DEF it, found
<1> QED BY <1>2, <1>3, Zenon DEF it

(* A test in an empty container, whose operand is not evaluated. *)
LEMMA DecidesNode ==
  ASSUME NEW t \in Targets, NEW drawn, NEW v \in Values, ~v.wrapped, NEW n \in 1 .. TreeSize(t),
         NEW hashes, hashes <=> HashesAll(v), ChildrenMatch(t, drawn, v, hashes, n), Ordinary(t, v),
         Decides(Body(t), Body(t)[n], Compiled(t, drawn)[n]),
         Distinct(CallsRewritten[t], Second(Body(t), Body(t)[n])) = <<>>
  PROVE  Matches(hashes, WrappedMeaning(t, drawn, v)[n], PlainMeaning(t, v)[n])
<1> DEFINE b == Body(t)
           r == Compiled(t, drawn)
           W == WrappedMeaning(t, drawn, v)
           P == PlainMeaning(t, v)
           e == b[n]
           f == r[n]
           g == Second(b, e)
           k == e.subs[1]
           op == e.ops[1]
           it == W[n]
           that == P[n]
           values == {LiteralValue(b, b[g.subs[i]]) : i \in 1 .. Len(g.subs)}
           D == [type |-> Kind(g), val |-> 0, wrapped |-> FALSE, items |-> values]
           won == Bool(op = "notin")
<1>1. /\ IsMembership(e) /\ AllLiteral(b, g) /\ Draws(b, g, <<>>)
      /\ f.op = "const" /\ f.value = won
  BY DEF Decides
<1>2. k \in 1 .. TreeSize(t) /\ that = Binary(op, P[k], Always(D))
  BY <1>1, MembershipSides
<1>3. b[k].op \in {"name", "const", "minus"}
  BY <1>1, OrdinaryOnce
<1>4. it = Always(won)
  <2>1. ByOp(r, Wrap(v), W, f, it)
    BY Meanings
  <2> HIDE DEF r, W, f, it, won
  <2> QED BY <1>1, <2>1, Zenon DEF ByOp
<1>5. PICK w : P[k] = Always(w) /\ (hashes => Hashable(w))
  <2>1. ByOp(b, v, P, b[k], P[k])
    BY <1>2, Meanings
  <2>2. IsLiteralElement(b[k]) => LiteralValue(b, b[k]).type \in LiteralTypes
    BY <1>2, LiteralSame
  <2>3. CASE b[k].op \in {"const", "minus"}
    <3>1. Hashable(LiteralValue(b, b[k]))
      BY <2>2, <2>3 DEF IsLiteralElement, LiteralTypes, Hashable
    <3>2. b[k].op = "const" => LiteralValue(b, b[k]) = b[k].value
      BY DEF LiteralValue
    <3> HIDE DEF b, P, k
    <3>3. b[k].op = "const" => P[k] = Always(LiteralValue(b, b[k]))
      BY <2>1, <3>2, Zenon DEF ByOp
    <3>4. b[k].op = "minus" => P[k] = Always(LiteralValue(b, b[k]))
      BY <2>1, Zenon DEF ByOp
    <3>5. P[k] = Always(LiteralValue(b, b[k]))
      BY <2>3, <3>3, <3>4
    <3> QED BY <3>1, <3>5
  <2>4. CASE b[k].op = "name"
    <3>1. P[k] = Always(v)
      <4> HIDE DEF b, P, k
      <4> QED BY <2>1, <2>4, Zenon DEF ByOp
    <3> QED BY <3>1 DEF HashesAll
  <2> QED BY <1>3, <2>3, <2>4
<1>6. values = {}
  <2>1. Len(g.subs) \in Nat
    <3>1. g \in Node
      BY <1>1, MembershipSame
    <3> QED BY <3>1, NodeParts
  <2>2. \A i \in 1 .. Len(g.subs) : FALSE
    <3>1. \A i \in 1 .. Len(g.subs) : \E j \in 1 .. Len(<<>>) : TRUE
      BY <1>1 DEF Draws
    <3> QED BY <3>1
  <2> QED BY <2>2
<1>7. op \in {"in", "notin"}
  BY <1>1 DEF IsMembership
<1>8. D.items = {} /\ (D.type \notin Hashing \/ Hashable(w))
  <2>1. D.type \in Hashing => SetLike(g)
    <3>1. IsContainer(g)
      BY <1>1, MembershipSame
    <3> QED BY <3>1 DEF SetLike
  <2>2. SetLike(g) => HashesAll(v)
    BY <1>1, OrdinaryHashes
  <2> QED BY <1>5, <1>6, <2>1, <2>2
<1>9. Combined(op, w, D) = {won}
  <2> HIDE DEF op, D
  <2> QED BY <1>7, <1>8, FoundInNone
<1>10. won \in Values /\ Twin(hashes, won, won)
  <2>1. (op = "notin") \in BOOLEAN /\ FALSE \in BOOLEAN
    OBVIOUS
  <2> HIDE DEF op
  <2>2. won \in Values /\ Twin(hashes, Boolean(op = "notin", FALSE), won)
    BY <2>1, BoolTwin, Zenon
  <2> QED BY <2>2, Zenon DEF Bool
<1> SUFFICES ASSUME NEW c \in Nat PROVE Like(hashes, Always(won)[c], Binary(op, Always(w), Always(D))[c])
  BY <1>2, <1>4, <1>5 DEF Matches
<1> HIDE DEF won, D, op
<1>11. Binary(op, Always(w), Always(D))[c] = With(op, Always(w)[c], Always(D))
  BY DEF Binary
<1>12. With(op, Always(w)[c], Always(D)) = Ends({won}, c)
  <2>1. ~Always(w)[c].raised /\ Always(w)[c].val = w /\ Always(w)[c].calls = c
    BY AlwaysGives
  <2>2. ~Always(D)[c].raised /\ Always(D)[c].val = D /\ Always(D)[c].calls = c
    BY AlwaysGives
  <2> QED BY <1>9, <2>1, <2>2 DEF With
<1>13. Ends({won}, c) = Always(won)[c]
  <2>1. Ends({won}, c) = Gives(won, c)
    BY DEF Ends
  <2>2. Always(won)[c] = Gives(won, c)
    BY AlwaysGives
  <2> QED BY <2>1, <2>2
<1>14. Matches(hashes, Always(won), Always(won))
  BY <1>10, MatchesAlways
<1> QED BY <1>11, <1>12, <1>13, <1>14 DEF Matches

(* The results of int(), range() and map() are no strings. *)
LEMMA CalledKind ==
  ASSUME NEW name, name # "str", NEW v, NEW helper, NEW r \in Called(name, v, helper)
  PROVE  ~IsText(r)
<1> DEFINE C1 == name = "int" /\ (Numeric(v) \/ v.type = "str")
           C2 == name = "str"
           C3 == name = "range" /\ Numeric(v)
           C4 == name = "map" /\ ~helper /\ Iterable(v)
           C5 == name = "map" /\ helper /\ Convertible(v)
           Made(type, keeps) == {[type |-> type, val |-> v.val, wrapped |-> keeps]}
           kept == helper /\ v.wrapped
           R2 == Made(IF v.type \in {"int", "str"} THEN "str" ELSE "text", kept)
           it == Called(name, v, helper)
<1>1. it = CASE C1 -> Made("int", kept) [] C2 -> R2 [] C3 -> Made("range", FALSE) [] C4 -> Made("map", FALSE)
             [] C5 -> Made("list", FALSE) [] OTHER -> {}
  BY Zenon DEF Called
<1>2. ~C2
  OBVIOUS
<1>3. \A type, keeps : Made(type, keeps) = {[type |-> type, val |-> v.val, wrapped |-> keeps]}
  OBVIOUS
<1> HIDE DEF C1, C2, C3, C4, C5, R2, it, Made
<1>4. it \in {Made("int", kept), Made("range", FALSE), Made("map", FALSE), Made("list", FALSE), {}}
  BY <1>1, <1>2
<1>5. \A type, keeps : r \in Made(type, keeps) => r.type = type
  BY <1>3
<1>6. r \in it
  BY DEF it
<1>7. r.type \in {"int", "range", "map", "list"}
  BY <1>4, <1>5, <1>6
<1> QED BY <1>7 DEF IsText

(* No comparison, and no call with two arguments, gives a string. *)
LEMMA CombinedKind ==
  ASSUME NEW op, NEW l, NEW r, NEW w \in Combined(op, l, r)
  PROVE  ~IsText(w)
<1>1. Boolean(TRUE, TRUE).type = "bool"
  BY BoolType
<1>2. \A p, q : Boolean(p, q).type = "bool"
  BY DEF Boolean
<1>3. \/ \E p, q : w = Boolean(p, q)
      \/ w \in Called("int", l, FALSE)
      \/ w \in Called("range", l, FALSE)
  BY DEF Combined, Bool
<1> QED BY <1>2, <1>3, CalledKind DEF IsText

\* It never comes to a string.
Textless(f) == \A c \in Nat : f[c].raised \/ ~IsText(f[c].val)

(* One result that is no string, or none, ends in no string. *)
LEMMA EndsTextless ==
  ASSUME NEW R, \A r \in R : ~IsText(r), NEW c
  PROVE  Ends(R, c).raised \/ ~IsText(Ends(R, c).val)
<1>1. CASE R = {}
  BY <1>1 DEF Ends, Failed
<1>2. CASE R # {}
  <2>1. (CHOOSE r \in R : TRUE) \in R
    BY <1>2
  <2> DEFINE v == CHOOSE r \in R : TRUE
  <2>2. Ends(R, c) = Gives(v, c)
    BY <1>2 DEF Ends
  <2>3. ~IsText(v)
    BY <2>1
  <2> HIDE DEF v
  <2> QED BY <2>2, <2>3, GivesParts
<1> QED BY <1>1, <1>2

(* Nor does an operation on two operands. *)
LEMMA WithTextless ==
  ASSUME NEW op, NEW l, NEW right
  PROVE  With(op, l, right).raised \/ ~IsText(With(op, l, right).val)
<1> DEFINE r == right[l.calls]
           ends == Ends(Combined(op, l.val, r.val), r.calls)
<1>1. ends.raised \/ ~IsText(ends.val)
  BY CombinedKind, EndsTextless
<1>2. With(op, l, right) = IF l.raised THEN l ELSE IF r.raised THEN r ELSE ends
  BY DEF With
<1> HIDE DEF ends, r
<1> QED BY <1>1, <1>2

(* Comparisons and calls but str() come to no strings. *)
LEMMA OperationTextless ==
  ASSUME NEW op, NEW further, NEW helper, NEW f, NEW g, NEW h
  PROVE  /\ Textless(Binary(op, f, g)) /\ Textless(Chained(op, further, f, g, h))
         /\ op # "str" => Textless(Unary(op, helper, f))
<1>1. Textless(Binary(op, f, g))
  <2> SUFFICES ASSUME NEW c \in Nat PROVE Binary(op, f, g)[c].raised \/ ~IsText(Binary(op, f, g)[c].val)
    BY DEF Textless
  <2>1. Binary(op, f, g)[c] = With(op, f[c], g)
    BY DEF Binary
  <2> QED BY <2>1, WithTextless
<1>2. Textless(Chained(op, further, f, g, h))
  <2> DEFINE it == Chained(op, further, f, g, h)
  <2> SUFFICES ASSUME NEW c \in Nat PROVE it[c].raised \/ ~IsText(it[c].val)
    BY DEF Textless
  <2> DEFINE test == With(op, f[c], g)
             end == With(further, g[f[c].calls], h)
  <2>1. it[c] = IF test.raised \/ ~Truthy(test.val) THEN test ELSE end
    BY DEF Chained
  <2>2. (test.raised \/ ~IsText(test.val)) /\ (end.raised \/ ~IsText(end.val))
    BY WithTextless
  <2> HIDE DEF test, end, it
  <2> QED BY <2>1, <2>2
<1>3. ASSUME op # "str" PROVE Textless(Unary(op, helper, f))
  <2> DEFINE it == Unary(op, helper, f)
  <2> SUFFICES ASSUME NEW c \in Nat PROVE it[c].raised \/ ~IsText(it[c].val)
    BY DEF Textless
  <2> DEFINE o == f[c]
             end == Ends(Called(op, o.val, helper), o.calls)
  <2>1. it[c] = IF o.raised THEN o ELSE end
    BY DEF Unary
  <2>2. end.raised \/ ~IsText(end.val)
    BY <1>3, CalledKind, EndsTextless
  <2> HIDE DEF o, end, it
  <2> QED BY <2>1, <2>2
<1> QED BY <1>1, <1>2, <1>3

(* A literal is the same after the first transformer. *)
LEMMA CallsLiteral ==
  ASSUME NEW t \in Targets, NEW n \in 1 .. TreeSize(t), IsLiteralElement(Body(t)[n])
  PROVE  LiteralValue(CallsRewritten[t], CallsRewritten[t][n]) = LiteralValue(Body(t), Body(t)[n])
<1> DEFINE b == Body(t)
           c == CallsRewritten[t]
           e == b[n]
           m == e.subs[1]
<1>1. c[n] = e
  BY CallsSame DEF IsLiteralElement
<1>2. CASE e.op = "const"
  BY <1>1, <1>2 DEF LiteralValue
<1>3. CASE e.op = "minus"
  <2>1. Len(e.subs) = 1 /\ b[m].op = "const"
    <3>1. Shaped(b, n)
      BY BodyFacts
    <3> HIDE DEF b
    <3> QED BY <1>3, <3>1 DEF Shaped, Containers
  <2>2. 1 \in 1 .. Len(e.subs)
    BY <2>1
  <2>3. m \in 1 .. TreeSize(t)
    BY <2>2, SubsBefore
  <2>4. c[m] = b[m]
    BY <2>1, <2>3, CallsSame
  <2> SUFFICES LiteralValue(c, c[n]) = LiteralValue(b, e)
    OBVIOUS
  <2>5. LiteralValue(c, e) = [type |-> "int", val |-> -c[m].value.val, wrapped |-> FALSE]
    <3> HIDE DEF b, c
    <3> QED BY <1>3, Zenon DEF LiteralValue, e
  <2>6. LiteralValue(b, e) = [type |-> "int", val |-> -b[m].value.val, wrapped |-> FALSE]
    <3> HIDE DEF b, c
    <3> QED BY <1>3, Zenon DEF LiteralValue, e
  <2> HIDE DEF b, c, e, m
  <2> QED BY <1>1, <2>4, <2>5, <2>6
<1> QED BY <1>2, <1>3 DEF IsLiteralElement

(* What matches no string is no wrapped one. *)
LEMMA TextlessUntexted ==
  ASSUME NEW hashes, NEW f, NEW g, Matches(hashes, f, g), Textless(g)
  PROVE  Untexted(f)
<1> SUFFICES ASSUME NEW c \in Nat, ~f[c].raised PROVE ~IsText(f[c].val)
  BY DEF Untexted
<1>1. Like(hashes, f[c], g[c])
  BY DEF Matches
<1>2. ~g[c].raised /\ f[c].val.type = g[c].val.type
  BY <1>1 DEF Like, Twin
<1>3. ~IsText(g[c].val)
  BY <1>2 DEF Textless
<1> QED BY <1>2, <1>3 DEF IsText

(* The left operand of a test of Kindred operands is no wrapped string, or every element *)
(* is a string.                                                                          *)
LEMMA OperandKindred ==
  ASSUME NEW t \in Targets, NEW drawn, NEW v \in Values, NEW n \in 1 .. TreeSize(t), Comparable(t, v),
         IsMembership(Body(t)[n]), AllLiteral(Body(t), Second(Body(t), Body(t)[n])), NEW hashes,
         Matches(hashes, WrappedMeaning(t, drawn, v)[Body(t)[n].subs[1]], PlainMeaning(t, v)[Body(t)[n].subs[1]])
  PROVE  LET c == CallsRewritten[t]
             elements == Distinct(c, Second(Body(t), Body(t)[n]))
         IN  \/ Untexted(WrappedMeaning(t, drawn, v)[Body(t)[n].subs[1]])
             \/ \A j \in DOMAIN elements : IsText(LiteralValue(c, c[elements[j]]))
<1> DEFINE b == Body(t)
           c == CallsRewritten[t]
           r == Compiled(t, drawn)
           e == b[n]
           k == e.subs[1]
           elements == Distinct(c, Second(b, e))
           W == WrappedMeaning(t, drawn, v)
           P == PlainMeaning(t, v)
           texts == \A j \in DOMAIN elements : IsText(LiteralValue(c, c[elements[j]]))
<1>1. Len(e.subs) = 2 /\ c[n] = e /\ c[e.subs[2]] = Second(b, e) /\ IsRewritten(c, e) /\ IsExpression(b[k])
  BY MembershipSame
<1>2. n \in DOMAIN c
  BY CallsFacts
<1>3. Kindred(c, e, v)
  <2>1. \A m \in DOMAIN c : IsRewritten(c, c[m]) => Kindred(c, c[m], v)
    BY Zenon DEF Comparable
  <2> HIDE DEF c
  <2> QED BY <1>1, <1>2, <2>1
<1>4. \/ texts
      \/ c[k].op = "name" /\ ~IsText(v)
      \/ c[k].op \in {"const", "minus", "pop", "compare"}
      \/ c[k].op \in {"call", "helper"} /\ c[k].arg # "str"
  <2> HIDE DEF c
  <2> QED BY <1>1, <1>3 DEF Kindred
<1>5. k \in 1 .. TreeSize(t)
  <2>1. 1 \in 1 .. Len(e.subs)
    BY <1>1
  <2> QED BY <2>1, SubsBefore, Zenon
<1>6. ByOp(b, v, P, b[k], P[k]) /\ ByOp(r, Wrap(v), W, r[k], W[k])
  BY <1>5, Meanings
<1>7. Matches(hashes, W[k], P[k])
  OBVIOUS
<1>8. ASSUME c[k].op \in {"const", "minus", "name", "pop", "compare"} PROVE c[k] = b[k]
  BY <1>5, <1>8, CallsOps
<1>9. b[k].op \in {"const", "minus", "name", "pop"} => Alike(b[k], r[k])
  BY <1>5, SimpleKept
<1>10. ASSUME c[k].op \in {"const", "minus"} PROVE Untexted(W[k])
  <2> DEFINE u == LiteralValue(r, r[k])
  <2>1. b[k].op \in {"const", "minus"} /\ IsLiteralElement(b[k])
    BY <1>8, <1>10 DEF IsLiteralElement
  <2>2. ~u.wrapped
    BY <1>5, <2>1, LiteralSame
  <2>3. r[k].op = b[k].op
    BY <1>9, <2>1 DEF Alike
  <2>4. r[k].op = "const" => u = r[k].value
    BY DEF LiteralValue
  <2>5. W[k] = Always(u)
    <3> HIDE DEF u, W, r, k, b
    <3>1. r[k].op = "const" => W[k] = Always(u)
      BY <1>6, <2>4, Zenon DEF ByOp
    <3>2. r[k].op = "minus" => W[k] = Always(u)
      BY <1>6, Zenon DEF ByOp, u
    <3> QED BY <2>1, <2>3, <3>1, <3>2
  <2> HIDE DEF u, W
  <2> QED BY <2>2, <2>5, AlwaysGives DEF Untexted
<1>11. ASSUME c[k].op = "name", ~IsText(v) PROVE Untexted(W[k])
  <2>1. b[k].op = "name"
    BY <1>8, <1>11
  <2>2. r[k].op = "name"
    BY <1>9, <2>1 DEF Alike
  <2>3. W[k] = Always(Wrap(v))
    <3> HIDE DEF W, r, k
    <3> QED BY <1>6, <2>2, Zenon DEF ByOp
  <2>4. ~IsText(Wrap(v))
    BY <1>11, WrapParts DEF IsText
  <2> HIDE DEF W
  <2> QED BY <2>3, <2>4, AlwaysGives DEF Untexted
<1>12. ASSUME c[k].op = "pop" PROVE Untexted(W[k])
  <2>1. b[k].op = "pop"
    BY <1>8, <1>12
  <2>2. r[k].op = "pop"
    BY <1>9, <2>1 DEF Alike
  <2>3. W[k] = Popped
    <3> HIDE DEF W, r, k
    <3> QED BY <1>6, <2>2, Zenon DEF ByOp
  <2>4. \A i \in Nat : ~Popped[i].val.wrapped
    <3> SUFFICES ASSUME NEW i \in Nat PROVE ~Popped[i].val.wrapped
      OBVIOUS
    <3> DEFINE j == (i % Len(Supply)) + 1
    <3>1. Supply \in Seq(Values) /\ Len(Supply) \in Nat \ {0} /\ \A m \in DOMAIN Supply : ~Supply[m].wrapped
      BY RewritingAssumption
    <3>2. j \in DOMAIN Supply
      BY <3>1
    <3>3. Popped[i] = Gives(Supply[j], i + 1)
      BY DEF Popped
    <3> HIDE DEF j
    <3> QED BY <3>1, <3>2, <3>3, GivesParts
  <2> HIDE DEF W
  <2> QED BY <2>3, <2>4 DEF Untexted
<1>13. ASSUME c[k].op = "compare" PROVE Textless(P[k])
  <2>1. b[k].op = "compare"
    BY <1>8, <1>13
  <2>2. \/ IsSingle(b[k])
        \/ b[k].op = "compare" /\ Len(b[k].ops) = 2
    <3>1. \/ b[k].op \in {"const", "minus", "name", "pop", "unpack", "or", "and"}
          \/ IsContainer(b[k])
          \/ b[k].op = "compare" /\ IsSingle(b[k]) /\ Len(b[k].subs) = 2
          \/ b[k].op = "compare" /\ Len(b[k].ops) = 2 /\ Len(b[k].subs) = 3
          \/ b[k].op = "call"
      BY <1>5, SourceKinds, Zenon
    <3>2. ~IsContainer(b[k])
      BY <2>1 DEF IsContainer, Containers, EmptyCall
    <3> HIDE DEF b, k
    <3> QED BY <2>1, <3>1, <3>2
  <2> HIDE DEF P, b, k
  <2>3. IsSingle(b[k]) => P[k] = Binary(b[k].ops[1], P[b[k].subs[1]], P[b[k].subs[2]])
    BY <1>6, Zenon DEF ByOp
  <2>4. b[k].op = "compare" /\ Len(b[k].ops) = 2 =>
          P[k] = Chained(b[k].ops[1], b[k].ops[2], P[b[k].subs[1]], P[b[k].subs[2]], P[b[k].subs[3]])
    BY <1>6, Zenon DEF ByOp
  <2> QED BY <2>2, <2>3, <2>4, OperationTextless
<1>14. ASSUME c[k].op \in {"call", "helper"}, c[k].arg # "str" PROVE Textless(P[k])
  <2> DEFINE d == b[k]
  <2>1. IsExpression(d) /\ ~EmptyCall(d) /\ d.op # "helper"
    <3>1. IsExpression(d)
      BY <1>1
    <3> HIDE DEF d
    <3> QED BY <3>1 DEF IsExpression
  <2>2. d.op = "call"
    BY <1>5, <1>14, <2>1, CallsSame
  <2>3. d.arg # "str"
    <3>1. c[k] = RewriteCall(b, d) /\ WholeNode(d)
      BY <1>5, CallsFacts, BodyFacts, NodeWhole
    <3>2. \A name, subs : Helper(name, subs, d).arg = name
      BY <3>1, HelperParts
    <3>3. d.arg = "str" => ~IsMapInt(b, d)
      BY DEF IsMapInt
    <3>4. ASSUME d.arg = "str" PROVE c[k].arg = "str"
      <4>1. c[k] = d \/ c[k] = Helper(d.arg, d.subs, d)
        BY <3>1, <3>3, <3>4, CallRewriting
      <4> HIDE DEF d, c, k
      <4> QED BY <3>2, <3>4, <4>1
    <3> QED BY <1>14, <3>4
  <2>4. \/ d.arg = "map" /\ Len(d.subs) = 2
        \/ d.arg \in {"int", "range"} /\ Len(d.subs) \in 1 .. 2
    <3>1. \/ d.op \in {"const", "minus", "name", "pop", "unpack", "or", "and"}
          \/ IsContainer(d)
          \/ d.op = "compare"
          \/ d.op = "call" /\ d.arg = "map" /\ Len(d.subs) = 2 /\ ~EmptyCall(d)
          \/ d.op = "call" /\ d.arg \in {"int", "str", "range"} /\ Len(d.subs) \in 1 .. 2 /\ ~EmptyCall(d)
      BY <1>5, SourceKinds, Zenon
    <3>2. ~IsContainer(d)
      BY <2>1, <2>2 DEF IsContainer, Containers
    <3> HIDE DEF d
    <3> QED BY <2>2, <2>3, <3>1, <3>2
  <2>5. ByOp(b, v, P, d, P[k])
    BY <1>6
  <2> DEFINE C(i) == P[d.subs[i]]
  <2> HIDE DEF P, b, k, d
  <2>6. d.arg = "map" /\ Len(d.subs) = 2 => P[k] = Unary("map", FALSE, C(2))
    BY <2>2, <2>5, Zenon DEF ByOp
  <2>7. d.arg \in {"int", "range"} => d.arg \notin {"map", "is"}
    OBVIOUS
  <2>8. d.arg \in {"int", "range"} /\ Len(d.subs) = 2 => P[k] = Binary(d.arg, C(1), C(2))
    BY <2>1, <2>2, <2>5, <2>7, Zenon DEF ByOp
  <2>9. d.arg \in {"int", "range"} /\ Len(d.subs) = 1 => P[k] = Unary(d.arg, FALSE, C(1))
    BY <2>1, <2>2, <2>5, <2>7, Zenon DEF ByOp
  <2>10. 1 .. 2 = {1, 2}
    OBVIOUS
  <2> HIDE DEF C
  <2>11. "map" # "str"
    OBVIOUS
  <2>12. Textless(Unary("map", FALSE, C(2)))
    BY <2>11, OperationTextless, Zenon
  <2>13. Textless(Binary(d.arg, C(1), C(2))) /\ Textless(Unary(d.arg, FALSE, C(1)))
    BY <2>3, OperationTextless, Zenon
  <2> QED BY <2>4, <2>6, <2>8, <2>9, <2>10, <2>12, <2>13
<1>15. Textless(P[k]) => Untexted(W[k])
  <2> HIDE DEF W, P
  <2> QED BY <1>7, TextlessUntexted, Zenon
<1> SUFFICES Untexted(W[k]) \/ texts
  BY DEF texts
<1> HIDE DEF W, P, c, k, b, texts
<1> QED BY <1>4, <1>10, <1>11, <1>12, <1>13, <1>14, <1>15

(* A test that has become equalities. *)
LEMMA TestsNode ==
  ASSUME NEW t \in Targets, NEW drawn, NEW v \in Values, NEW n \in 1 .. TreeSize(t),
         NEW hashes, hashes <=> HashesAll(v), ChildrenMatch(t, drawn, v, hashes, n), Comparable(t, v),
         Tests(Body(t), Body(t)[n], Compiled(t, drawn)[n],
               Distinct(CallsRewritten[t], Second(Body(t), Body(t)[n])))
  PROVE  Matches(hashes, WrappedMeaning(t, drawn, v)[n], PlainMeaning(t, v)[n])
<1> DEFINE b == Body(t)
           r == Compiled(t, drawn)
           W == WrappedMeaning(t, drawn, v)
           P == PlainMeaning(t, v)
           e == b[n]
           f == r[n]
           g == Second(b, e)
           k == e.subs[1]
           m == e.subs[2]
           op == e.ops[1]
           elements == Distinct(CallsRewritten[t], g)
           K == Len(elements)
           vals == [j \in 1 .. K |-> LiteralValue(b, b[elements[j]])]
           it == W[n]
           that == P[n]
           values == {LiteralValue(b, b[g.subs[i]]) : i \in 1 .. Len(g.subs)}
           D == [type |-> Kind(g), val |-> 0, wrapped |-> FALSE, items |-> values]
           by == op = "in"
           oq == IF by THEN "tagged==" ELSE "tagged!="
           Part(j) == Binary(oq, W[k], Always(vals[j]))
           parts == [j \in 1 .. K |-> Part(j)]
<1>1. /\ IsMembership(e) /\ AllLiteral(b, g) /\ Draws(b, g, elements) /\ elements # <<>>
      /\ f.op = "tests" /\ f.subs = <<k>> \o elements
      /\ f.ops = IF op = "in" THEN <<"or", "tagged==">> ELSE <<"and", "tagged!=">>
  BY Zenon DEF Tests
<1>2. /\ k \in 1 .. TreeSize(t) /\ P[k] \in Senses /\ W[k] \in Senses /\ Matches(hashes, W[k], P[k])
      /\ that = Binary(op, P[k], Always(D))
  BY <1>1, MembershipSides
<1>3. elements \in Seq(Nat) /\ K \in Nat \ {0}
  BY <1>1 DEF Draws
<1>4. g \in Node /\ m \in 1 .. TreeSize(t) /\ b[m] = g /\ IsContainer(g)
  <2>1. Len(e.subs) = 2 /\ IsContainer(g) /\ g \in Node
    BY <1>1, MembershipSame
  <2>2. 2 \in 1 .. Len(e.subs)
    BY <2>1
  <2> QED BY <2>1, <2>2, SubsBefore, Zenon DEF Second
<1>5. \A j \in 1 .. K : elements[j] \in 1 .. TreeSize(t) /\ IsLiteralElement(b[elements[j]])
  <2> SUFFICES ASSUME NEW j \in 1 .. K PROVE elements[j] \in 1 .. TreeSize(t) /\ IsLiteralElement(b[elements[j]])
    OBVIOUS
  <2>1. PICK i \in 1 .. Len(g.subs) : elements[j] = g.subs[i]
    BY <1>1 DEF Draws
  <2>2. g.subs[i] \in 1 .. TreeSize(t)
    BY <1>4, SubsBefore
  <2> QED BY <1>1, <2>1, <2>2 DEF AllLiteral
<1>6. \A j \in 1 .. K : vals[j] \in Values /\ ~vals[j].wrapped /\ W[elements[j]] = Always(vals[j])
  <2> SUFFICES ASSUME NEW j \in 1 .. K
               PROVE  vals[j] \in Values /\ ~vals[j].wrapped /\ W[elements[j]] = Always(vals[j])
    OBVIOUS
  <2> DEFINE l == elements[j]
             u == LiteralValue(b, b[l])
  <2>1. Alike(b[l], r[l]) /\ LiteralValue(r, r[l]) = u /\ u \in Values /\ ~u.wrapped
    BY <1>5, LiteralSame
  <2>2. ByOp(r, Wrap(v), W, r[l], W[l])
    BY <1>5, Meanings
  <2>3. b[l].op \in {"const", "minus"}
    BY <1>5 DEF IsLiteralElement
  <2>4. r[l].op = b[l].op
    BY <2>1 DEF Alike
  <2>5. r[l].op = "const" => LiteralValue(r, r[l]) = r[l].value
    BY DEF LiteralValue
  <2>6. vals[j] = u
    OBVIOUS
  <2> HIDE DEF vals, W, b, r, l, u
  <2>7. r[l].op = "const" => W[l] = Always(u)
    BY <2>1, <2>2, <2>5, Zenon DEF ByOp
  <2>8. r[l].op = "minus" => W[l] = Always(u)
    BY <2>1, <2>2, Zenon DEF ByOp
  <2> QED BY <2>1, <2>3, <2>4, <2>6, <2>7, <2>8 DEF l
<1>7. op \in {"in", "notin"}
  BY <1>1 DEF IsMembership
<1>8. /\ Len(f.subs) = K + 1 /\ f.subs[1] = k
      /\ \A j \in 1 .. K : f.subs[j + 1] = elements[j]
  <2> HIDE DEF k, elements
  <2>1. k \in Nat
    BY <1>2
  <2>2. <<k>> \in Seq(Nat) /\ Len(<<k>>) = 1 /\ <<k>>[1] = k
    BY <2>1
  <2> HIDE DEF f
  <2> QED BY <1>1, <1>3, <2>2
<1>9. (f.ops[1] = "or") = by /\ f.ops[2] = oq
  <2> HIDE DEF f, op
  <2>1. op = "in" => f.ops[1] = "or" /\ f.ops[2] = "tagged=="
    BY <1>1
  <2>2. op # "in" => f.ops[1] = "and" /\ f.ops[2] = "tagged!="
    BY <1>1
  <2> QED BY <2>1, <2>2
<1>10. it = Shortcut(by, parts)
  <2> DEFINE row == [i \in 1 .. Len(f.subs) - 1 |-> Binary(f.ops[2], W[f.subs[1]], W[f.subs[i + 1]])]
  <2>1. ByOp(r, Wrap(v), W, f, it)
    BY Meanings
  <2>2. it = Shortcut(f.ops[1] = "or", row)
    <3> HIDE DEF r, W, f, it
    <3> QED BY <1>1, <2>1, Zenon DEF ByOp
  <2>3. 1 .. Len(f.subs) - 1 = 1 .. K
    BY <1>3, <1>8
  <2>4. \A j \in 1 .. K : Binary(f.ops[2], W[f.subs[1]], W[f.subs[j + 1]]) = Part(j)
    <3> HIDE DEF f, W, vals, oq, elements, k, K
    <3> QED BY <1>6, <1>8, <1>9
  <2>5. row = parts
    <3> HIDE DEF f, W, Part, K
    <3> QED BY <2>3, <2>4
  <2> HIDE DEF it, row, parts, by, f
  <2> QED BY <1>9, <2>2, <2>5, Zenon
<1>11. \A w : (\E u \in D.items : Equal(w, u)) <=> \E j \in 1 .. K : Equal(w, vals[j])
  <2>1. \A u \in values : \E j \in 1 .. K : u = vals[j]
    <3> SUFFICES ASSUME NEW i \in 1 .. Len(g.subs)
                 PROVE  \E j \in 1 .. K : LiteralValue(b, b[g.subs[i]]) = vals[j]
      OBVIOUS
    <3>1. PICK j \in 1 .. K : LiteralValue(b, b[elements[j]]) = LiteralValue(b, b[g.subs[i]])
      BY <1>1 DEF Draws
    <3> QED BY <3>1
  <2>2. \A j \in 1 .. K : vals[j] \in values
    <3> SUFFICES ASSUME NEW j \in 1 .. K PROVE vals[j] \in values
      OBVIOUS
    <3>1. PICK i \in 1 .. Len(g.subs) : elements[j] = g.subs[i]
      BY <1>1 DEF Draws
    <3> QED BY <3>1
  <2>3. D.items = values
    OBVIOUS
  <2> HIDE DEF values, vals, D
  <2> QED BY <2>1, <2>2, <2>3
<1>12. D.type \notin Hashing \/ hashes
  <2>1. D.type \in Hashing => SetLike(g)
    BY <1>4 DEF SetLike
  <2>2. SetLike(g) => HashesAll(v)
    BY <1>1, OrdinaryHashes DEF Comparable
  <2> QED BY <2>1, <2>2
<1>13. K = 1 \/ \A c \in Nat : P[k][c].calls = c
  <2>1. K = 1 \/ Still(P[k])
    BY <1>1, OrdinaryOnce, Zenon DEF PlainMeaning, Comparable
  <2> QED BY <2>1 DEF Still
<1>14. by \in BOOLEAN /\ (by <=> op = "in")
  OBVIOUS
<1>15. oq = IF by THEN "tagged==" ELSE "tagged!="
  OBVIOUS
<1>16. \A j \in 1 .. K : vals[j] \in Values /\ ~vals[j].wrapped
  BY <1>6
<1>18. Untexted(W[k]) \/ \A j \in 1 .. K : IsText(vals[j])
  <2>1. Untexted(W[k]) \/ \A j \in DOMAIN elements : IsText(LiteralValue(CallsRewritten[t], CallsRewritten[t][elements[j]]))
    <3> HIDE DEF W, P
    <3>1. Matches(hashes, W[k], P[k])
      BY <1>2
    <3> QED BY <1>1, <3>1, OperandKindred DEF W, P
  <2>2. DOMAIN elements = 1 .. K
    BY <1>3
  <2>3. \A j \in 1 .. K : LiteralValue(CallsRewritten[t], CallsRewritten[t][elements[j]]) = vals[j]
    BY <1>5, CallsLiteral
  <2> HIDE DEF vals, W, k, elements, K
  <2> QED BY <2>1, <2>2, <2>3
<1>17. Matches(hashes, Shortcut(by, parts), Binary(op, P[k], Always(D)))
  <2> DEFINE left == W[k]
             bare == P[k]
  <2>1. left \in Senses /\ bare \in Senses /\ Matches(hashes, left, bare)
    BY <1>2
  <2>5. Untexted(left) \/ \A j \in 1 .. K : IsText(vals[j])
    BY <1>18
  <2>2. K = 1 \/ \A c \in Nat : bare[c].calls = c
    BY <1>13
  <2> HIDE DEF by, oq, op, vals, D, left, bare, K
  <2>3. Row(hashes, op, by, oq, left, bare, K, vals, D)
    BY <1>3, <1>7, <1>11, <1>12, <1>14, <1>15, <1>16, <2>1, <2>2, <2>5, Zenon DEF Row
  <2>4. RowDecides(hashes, op, by, oq, left, bare, K, vals, D)
    BY <2>3, TestsMatch, Zenon
  <2> QED BY <2>4, Zenon DEF RowDecides, left, bare
<1> QED BY <1>2, <1>10, <1>17, Zenon

(* Every expression of the rewritten target, but for an expanded map(int,), comes to *)
(* what it comes to in the source.                                                   *)
LEMMA NodesMatch ==
  ASSUME NEW t \in Targets, NEW drawn, NEW v \in Values, ~v.wrapped, Comparable(t, v),
         NEW n \in 1 .. TreeSize(t), IsExpression(Body(t)[n]), ~IsMapInt(Body(t), Body(t)[n])
  PROVE  Matches(HashesAll(v), WrappedMeaning(t, drawn, v)[n], PlainMeaning(t, v)[n])
<1> DEFINE b == Body(t)
           r == Compiled(t, drawn)
           N == TreeSize(t)
           Paired(m) == Matches(HashesAll(v), WrappedMeaning(t, drawn, v)[m], PlainMeaning(t, v)[m])
           Good == {m \in 1 .. N : IsExpression(b[m]) /\ ~IsMapInt(b, b[m]) => Paired(m)}
<1>1. N \in Nat
  BY BodyFacts
<1>2. ASSUME NEW m \in 1 .. N, \A k \in 1 .. m - 1 : k \in Good PROVE m \in Good
  <2> SUFFICES ASSUME IsExpression(b[m]), ~IsMapInt(b, b[m]) PROVE Paired(m)
    OBVIOUS
  <2> DEFINE e == b[m]
             f == r[m]
             elements == Distinct(CallsRewritten[t], Second(b, e))
  <2>1. Renders(b, e, f, elements)
    BY NodeRenders
  <2>2. PICK hashes : hashes = HashesAll(v)
    OBVIOUS
  <2>3. ChildrenMatch(t, drawn, v, hashes, m)
    <3> SUFFICES ASSUME NEW i \in 1 .. Len(e.subs), IsExpression(b[e.subs[i]])
                 PROVE  Matches(hashes, WrappedMeaning(t, drawn, v)[e.subs[i]], PlainMeaning(t, v)[e.subs[i]])
      BY DEF ChildrenMatch
    <3>1. e.subs[i] \in 1 .. m - 1 /\ e.subs[i] \in 1 .. N
      BY SubsBefore
    <3>2. ~IsMapInt(b, b[e.subs[i]])
      <4>1. e.subs[i] # N
        BY <1>1, <3>1
      <4> QED BY <3>1, <4>1, OrdinaryMap DEF Comparable
    <3>3. e.subs[i] \in Good
      BY <1>2, <3>1
    <3> QED BY <2>2, <3>2, <3>3
  <2>4. hashes <=> HashesAll(v)
    BY <2>2
  <2> SUFFICES Matches(hashes, WrappedMeaning(t, drawn, v)[m], PlainMeaning(t, v)[m])
    BY <2>2
  <2>5. CASE e.op \in {"const", "minus", "name", "pop"}
    BY <2>4, <2>5, LeafMatches
  <2>6. CASE e.op \in {"or", "and"}
    BY <2>3, <2>6, ShortcutNode
  <2>7. CASE e.op = "call"
    <3>1. LeftAlone(e, f) \/ Helped(e, f)
      <4>1. ~IsMapInt(b, e)
        OBVIOUS
      <4> HIDE DEF e, f, elements, b
      <4> QED BY <2>1, <2>7, <4>1 DEF Renders, KeptCompare, Expanded, Unwrapping, Decides, Tests, IsSingle, IsMembership
    <3>2. ~EmptyCall(e)
      BY DEF IsExpression
    <3> QED BY <2>3, <2>7, <3>1, <3>2, CallNode
  <2>8. CASE e.op = "compare"
    <3>1. \/ KeptCompare(b, e, f)
          \/ Unwrapping(b, e, f)
          \/ Decides(b, e, f) /\ elements = <<>>
          \/ Tests(b, e, f, elements)
      <4> HIDE DEF e, f, elements, b
      <4> QED BY <2>1, <2>8 DEF Renders, LeftAlone, Helped, Expanded, IsMapInt, EmptyCall
    <3>2. CASE KeptCompare(b, e, f)
      BY <2>3, <3>2, CompareNode DEF Comparable
    <3>3. CASE Unwrapping(b, e, f)
      <4>1. e.ops[1] = "is" /\ 1 \in 1 .. Len(e.ops)
        BY <3>3 DEF Unwrapping, IsSingle
      <4>2. IsSentinel(Second(b, e))
        BY <2>8, <4>1, OrdinaryIdentity DEF Comparable
      <4> QED BY <2>3, <3>3, <4>2, UnwrappingNode
    <3>4. CASE Decides(b, e, f) /\ elements = <<>>
      BY <2>3, <2>4, <3>4, DecidesNode DEF Comparable
    <3>5. CASE Tests(b, e, f, elements)
      BY <2>3, <2>4, <3>5, TestsNode
    <3> QED BY <3>1, <3>2, <3>3, <3>4, <3>5
  <2> QED BY <2>5, <2>6, <2>7, <2>8 DEF IsExpression
<1>3. \A m \in 1 .. N : m \in Good
  <2> HIDE DEF Good, N
  <2> QED BY <1>1, <1>2, InductionUpTo, Zenon
<1> QED BY <1>3

(* map(int,) of a numeral or a list of integers: a list for the iterator. *)
LEMMA MapLists ==
  ASSUME NEW v \in Values, ~v.wrapped, Convertible(v)
  PROVE  SameOutcome(Unary("map", TRUE, Always(Wrap(v)))[0], Unary("map", FALSE, Always(v))[0])
<1> DEFINE w == Wrap(v)
           list == [type |-> "list", val |-> w.val, wrapped |-> FALSE]
           map == [type |-> "map", val |-> v.val, wrapped |-> FALSE]
           got == Unary("map", TRUE, Always(w))[0]
           expected == Unary("map", FALSE, Always(v))[0]
<1>1. w \in Values /\ w.type = v.type /\ w.val = v.val
  BY WrapParts
<1>2. Convertible(w) /\ Iterable(v)
  BY <1>1 DEF Convertible, Iterable
<1>3. Called("map", w, TRUE) = {list}
  BY <1>2 DEF Called
<1>4. Called("map", v, FALSE) = {map}
  BY <1>2 DEF Called
<1> HIDE DEF w, list, map
<1>5. Always(w)[0] = Gives(w, 0) /\ Always(v)[0] = Gives(v, 0)
  BY AlwaysGives
<1>6. /\ ~Gives(w, 0).raised /\ Gives(w, 0).val = w /\ Gives(w, 0).calls = 0
      /\ ~Gives(v, 0).raised /\ Gives(v, 0).val = v /\ Gives(v, 0).calls = 0
  BY GivesParts
<1>7. Ends({list}, 0) = Gives(list, 0) /\ Ends({map}, 0) = Gives(map, 0)
  BY DEF Ends
<1>8. got = Gives(list, 0)
  <2>1. got = IF Always(w)[0].raised THEN Always(w)[0]
              ELSE Ends(Called("map", Always(w)[0].val, TRUE), Always(w)[0].calls)
    BY Zenon, 0 \in Nat DEF Unary
  <2> HIDE DEF got
  <2> QED BY <1>3, <1>5, <1>6, <1>7, <2>1, Zenon
<1>9. expected = Gives(map, 0)
  <2>1. expected = IF Always(v)[0].raised THEN Always(v)[0]
                   ELSE Ends(Called("map", Always(v)[0].val, FALSE), Always(v)[0].calls)
    BY Zenon, 0 \in Nat DEF Unary
  <2> HIDE DEF expected
  <2> QED BY <1>4, <1>5, <1>6, <1>7, <2>1, Zenon
<1>10. Lists(list, map)
  <2>1. list \in [type : {"list"}, val : {v.val}, wrapped : {FALSE}]
    BY <1>1 DEF list
  <2>2. [list EXCEPT !.type = "map"] \in [type : {"map"}, val : {v.val}, wrapped : {FALSE}]
    BY <2>1
  <2>3. map \in [type : {"map"}, val : {v.val}, wrapped : {FALSE}]
    BY DEF map
  <2>4. [list EXCEPT !.type = "map"] = map
    BY <2>2, <2>3
  <2>5. list.type = "list"
    BY DEF list
  <2> QED BY <2>4, <2>5 DEF Lists
<1> HIDE DEF got, expected
<1>11. got.val = list /\ expected.val = map
  BY <1>8, <1>9, GivesParts
<1>12. got.raised = expected.raised /\ got.calls = expected.calls
  BY <1>8, <1>9 DEF Gives
<1> QED BY <1>10, <1>11, <1>12 DEF SameOutcome, got, expected, w

(* Outcomes that differ in wrappers only are the same outcome. *)
LEMMA LikeOutcome ==
  ASSUME NEW hashes, NEW o, NEW p, Like(hashes, o, p)
  PROVE  SameOutcome(o, p)
<1>1. o.raised = p.raised /\ o.calls = p.calls
  BY DEF Like
<1>2. ~o.raised => Bare(o.val) = p.val
  <2> SUFFICES ASSUME ~o.raised PROVE Bare(o.val) = p.val
    OBVIOUS
  <2>1. Twin(hashes, o.val, p.val)
    BY DEF Like
  <2>2. /\ o.val \in Values /\ p.val \in Values /\ o.val.type = p.val.type /\ o.val.val = p.val.val
        /\ ~p.val.wrapped
    BY <2>1 DEF Twin
  <2> QED BY <2>2, BareTwin
<1> QED BY <1>1, <1>2 DEF SameOutcome

(* The rewritten tree has the nodes of the source. *)
LEMMA TreeLength ==
  ASSUME NEW t \in Targets, NEW drawn
  PROVE  Len(Compiled(t, drawn)) = TreeSize(t)
<1>1. DOMAIN Body(t) = 1 .. TreeSize(t) /\ TreeSize(t) \in Nat
  BY BodyFacts
<1> DEFINE node(n) == [Rewritten[t][n] EXCEPT !.line = Shifted(t, n),
                                !.chain = IF n \in Tagged(t) THEN ChainFor(t, drawn, n) ELSE NoChain]
           tree == [n \in 1 .. TreeSize(t) |-> node(n)]
<1>2. Compiled(t, drawn) = tree
  BY <1>1, Zenon DEF Compiled
<1> HIDE DEF node
<1>3. Len(tree) = TreeSize(t)
  BY <1>1
<1> QED BY <1>2, <1>3

(* An expanded map(int,) is a call of the helper. *)
LEMMA ExpandedNode ==
  ASSUME NEW t \in Targets, NEW drawn, NEW n \in 1 .. TreeSize(t), IsMapInt(Body(t), Body(t)[n])
  PROVE  LET e == Body(t)[n]
             f == Compiled(t, drawn)[n]
         IN  f.op = "helper" /\ f.arg = "map" /\ f.subs = <<e.subs[2]>>
<1> DEFINE e == Body(t)[n]
           c == CallsRewritten[t][n]
           f == Compiled(t, drawn)[n]
<1>1. c = Helper("map", <<e.subs[2]>>, e)
  BY CallsFacts, CallRewriting
<1>2. c.op = "helper" /\ c.arg = "map" /\ c.subs = <<e.subs[2]>>
  <2>1. WholeNode(e)
    BY BodyFacts, NodeWhole
  <2> DEFINE h == Helper("map", <<e.subs[2]>>, e)
  <2>2. h.op = "helper" /\ h.arg = "map" /\ h.subs = <<e.subs[2]>>
    BY <2>1, HelperParts
  <2> HIDE DEF h, c
  <2> QED BY <1>1, <2>2 DEF h
<1>3. Rewritten[t][n] = RewriteCompare(CallsRewritten[t], c)
  BY CallsFacts
<1>4. Rewritten[t][n] = c
  <2>1. ~IsSingle(c) /\ ~IsRewritten(CallsRewritten[t], c)
    <3> HIDE DEF c
    <3> QED BY <1>2 DEF IsSingle, IsRewritten, IsMembership
  <2> QED BY <1>3, <2>1, CompareRewriting
<1>5. Alike(Rewritten[t][n], f)
  BY CompiledParts
<1> HIDE DEF c, f
<1> QED BY <1>2, <1>4, <1>5 DEF Alike, f

(* The rewritten target does what the original does. *)
LEMMA TargetSame ==
  ASSUME NEW t \in Targets, NEW drawn, NEW v \in Values, ~v.wrapped, Comparable(t, v)
  PROVE  SameOutcome(Eval(Compiled(t, drawn), Wrap(v)), Eval(Body(t), v))
<1> DEFINE b == Body(t)
           r == Compiled(t, drawn)
           N == TreeSize(t)
           W == WrappedMeaning(t, drawn, v)
           P == PlainMeaning(t, v)
           e == b[N]
           f == r[N]
<1>1. N \in 1 .. N /\ IsExpression(e) /\ N \in Nat
  BY BodyFacts
<1>2. Eval(r, Wrap(v)) = W[N][0] /\ Eval(b, v) = P[N][0]
  <2>1. Len(r) = N /\ Len(b) = N
    BY TreeLength DEF TreeSize
  <2> HIDE DEF r, b, N
  <2>2. Eval(r, Wrap(v)) = Meaning(r, Wrap(v))[N][0] /\ Eval(b, v) = Meaning(b, v)[N][0]
    BY <2>1, Zenon DEF Eval
  <2> QED BY <2>2 DEF WrappedMeaning, PlainMeaning, r, b
<1>3. CASE ~IsMapInt(b, e)
  <2>1. Matches(HashesAll(v), W[N], P[N])
    BY <1>1, <1>3, NodesMatch
  <2>2. 0 \in Nat
    OBVIOUS
  <2>3. Like(HashesAll(v), W[N][0], P[N][0])
    <3> HIDE DEF W, P, N
    <3> QED BY <2>1, <2>2, Zenon DEF Matches
  <2>4. SameOutcome(W[N][0], P[N][0])
    <3> HIDE DEF W, P, N
    <3> QED BY <2>3, LikeOutcome, Zenon
  <2> QED BY <1>2, <2>4
<1>4. CASE IsMapInt(b, e)
  <2> DEFINE k == e.subs[2]
  <2>1. Convertible(v)
    BY <1>1, <1>4, OrdinaryMap DEF Comparable
  <2>2. f.op = "helper" /\ f.arg = "map" /\ f.subs = <<k>>
    BY <1>1, <1>4, ExpandedNode
  <2>3. e.op = "call" /\ e.arg = "map" /\ Len(e.subs) = 2 /\ b[k].op = "name"
    BY <1>4 DEF IsMapInt
  <2>4. ByOp(b, v, P, e, P[N]) /\ ByOp(r, Wrap(v), W, f, W[N])
    BY <1>1, Meanings
  <2>5. 2 \in 1 .. Len(e.subs)
    BY <2>3
  <2>6. k \in 1 .. N
    BY <1>1, <2>5, SubsBefore
  <2>7. ByOp(b, v, P, b[k], P[k]) /\ ByOp(r, Wrap(v), W, r[k], W[k])
    BY <2>6, Meanings
  <2>8. r[k].op = "name"
    <3>1. Alike(b[k], r[k])
      BY <2>3, <2>6, SimpleKept
    <3> QED BY <2>3, <3>1 DEF Alike
  <2>9. P[k] = Always(v) /\ W[k] = Always(Wrap(v))
    <3> HIDE DEF b, r, k, P, W
    <3> QED BY <2>3, <2>7, <2>8, Zenon DEF ByOp
  <2>10. P[N] = Unary("map", FALSE, P[k])
    <3> HIDE DEF P, e, b, N
    <3> QED BY <2>3, <2>4, Zenon DEF ByOp
  <2>11. W[N] = Unary("map", TRUE, W[k])
    <3>1. Len(f.subs) = 1 /\ f.subs[1] = k /\ f.arg # "is"
      BY <2>2
    <3>2. W[N] = Unary(f.arg, TRUE, W[f.subs[1]])
      <4> HIDE DEF W, f, r, N
      <4> QED BY <2>2, <2>4, <3>1, Zenon DEF ByOp
    <3> HIDE DEF W, f, r, N
    <3> QED BY <2>2, <3>1, <3>2, Zenon
  <2>12. SameOutcome(Unary("map", TRUE, Always(Wrap(v)))[0], Unary("map", FALSE, Always(v))[0])
    BY <2>1, MapLists
  <2> HIDE DEF W, P, k, N, r, b
  <2> QED BY <1>2, <2>9, <2>10, <2>11, <2>12, Zenon DEF r, b
<1> QED BY <1>3, <1>4

-----------------------------------------------------------------------------
(* Chain ids and places *)

(* The tests of a tree are numbered in their order. *)
LEMMA TagCount ==
  ASSUME NEW t \in Targets
  PROVE  /\ Tagged(t) \subseteq 1 .. TreeSize(t) /\ IsFiniteSet(Tagged(t)) /\ Cardinality(Tagged(t)) \in Nat
         /\ \A n \in Tagged(t) : /\ Cardinality(Tagged(t) \cap 1 .. n) \in Nat \ {0}
                                 /\ Cardinality(Tagged(t) \cap 1 .. n) <= Cardinality(Tagged(t))
         /\ \A m, n \in Tagged(t) :
              m < n => Cardinality(Tagged(t) \cap 1 .. m) < Cardinality(Tagged(t) \cap 1 .. n)
<1> DEFINE S == Tagged(t)
           Upto1(n) == S \cap 1 .. n
<1>1. TreeSize(t) \in Nat /\ S \subseteq 1 .. TreeSize(t)
  BY BodyFacts DEF Tagged
<1>2. IsFiniteSet(S)
  <2>1. IsFiniteSet(1 .. TreeSize(t))
    BY <1>1, FS_Interval
  <2> HIDE DEF S
  <2> QED BY <1>1, <2>1, FS_Subset
<1>3. \A n : IsFiniteSet(Upto1(n)) /\ Cardinality(Upto1(n)) \in Nat /\ Cardinality(Upto1(n)) <= Cardinality(S)
  BY <1>2, FS_Subset, FS_CardinalityType
<1>4. ASSUME NEW n \in S PROVE Cardinality(Upto1(n)) # 0
  <2>1. n \in Upto1(n)
    BY <1>1
  <2> QED BY <1>3, <2>1, FS_EmptySet
<1>5. ASSUME NEW m \in S, NEW n \in S, m < n PROVE Cardinality(Upto1(m)) < Cardinality(Upto1(n))
  <2>1. Upto1(m) \subseteq Upto1(n) /\ n \in Upto1(n) /\ n \notin Upto1(m)
    BY <1>1, <1>5
  <2>2. Cardinality(Upto1(m)) <= Cardinality(Upto1(n)) /\ Cardinality(Upto1(m)) # Cardinality(Upto1(n))
    <3> HIDE DEF Upto1, S
    <3> QED BY <1>3, <2>1, FS_Subset
  <2> QED BY <1>3, <2>2
<1> QED BY <1>1, <1>2, <1>3, <1>4, <1>5, FS_CardinalityType

(* A test, and a comparison that is left, was a comparison in the source. *)
LEMMA TestSource ==
  ASSUME NEW t \in Targets, NEW n \in 1 .. TreeSize(t), Rewritten[t][n].op \in {"tests", "compare"}
  PROVE  Body(t)[n].op = "compare"
<1> DEFINE e == Body(t)[n]
           f == Compiled(t, 0)[n]
           elements == Distinct(CallsRewritten[t], Second(Body(t), e))
           b == Body(t)
<1>1. Alike(Rewritten[t][n], f)
  BY CompiledParts
<1>2. f.op \in {"tests", "compare"}
  BY <1>1 DEF Alike
<1>3. Renders(b, e, f, elements)
  BY NodeRenders
<1>4. e.op # "tests"
  BY SourceKinds DEF IsContainer, Containers, EmptyCall
<1> SUFFICES e.op = "compare"
  OBVIOUS
<1> HIDE DEF b, e, f, elements
<1> QED BY <1>2, <1>3, <1>4 DEF Renders, LeftAlone, KeptCompare, Helped, Expanded, Unwrapping, Decides, Tests, Alike,
       IsSingle, IsMembership, IsMapInt, EmptyCall

\* Where a node is when the walk meets it once.
Origin(t, n) == <<InFile(t, n), Body(t)[n].col>>
\* Where it is in the compiled tree.
Spot(t, n) == <<Shifted(t, n), Body(t)[n].col>>

(* A node that the walk meets once stands where its source stands. *)
LEMMA SpotOnce ==
  ASSUME NEW t \in Targets, NEW n \in 1 .. TreeSize(t), Visits[t][n] = 1
  PROVE  Shifted(t, n) = InFile(t, n) /\ Spot(t, n) = Origin(t, n)
<1>1. Source[t].start \in Nat /\ Body(t)[n] \in Node
  BY RewritingAssumption, BodyFacts
<1>2. Body(t)[n].line \in Nat
  BY <1>1, NodeParts
<1>3. Shifted(t, n) = InFile(t, n)
  BY <1>1, <1>2 DEF Shifted, Offset, InFile
<1> QED BY <1>3 DEF Spot, Origin

(* The position of a compiled node. *)
LEMMA SpotCompiled ==
  ASSUME NEW t \in Targets, NEW drawn, NEW n \in 1 .. TreeSize(t)
  PROVE  Position(Compiled(t, drawn)[n]) = Spot(t, n)
BY CompiledParts DEF Position, Spot

(* Comparisons of targets whose tests do not move are found at different places. *)
LEMMA SpotsApart ==
  ASSUME NEW t \in Targets, NEW u \in Targets, ~MovesTests(t), ~MovesTests(u),
         NEW n \in 1 .. TreeSize(t), NEW m \in 1 .. TreeSize(u),
         Body(t)[n].op = "compare", Body(u)[m].op = "compare",
         Visits[t][n] # 0, Visits[u][m] # 0, Spot(t, n) = Spot(u, m)
  PROVE  t = u /\ n = m
<1>1. n \in DOMAIN Body(t) /\ m \in DOMAIN Body(u)
  BY BodyFacts
<1>2. Visits[t][n] = 1 /\ Visits[u][m] = 1
  BY <1>1 DEF MovesTests
<1>3. Origin(t, n) = Origin(u, m)
  BY <1>2, SpotOnce
<1>4. InFile(t, n) = InFile(u, m) /\ Body(t)[n].col = Body(u)[m].col
  BY <1>3 DEF Origin
<1> QED BY <1>1, <1>4, RewritingAssumption

(* Chain ids of two trees numbered one after the other, and of two tests of one tree. *)
LEMMA ChainNumber ==
  ASSUME NEW t \in Targets, NEW d \in Nat, NEW n \in 1 .. TreeSize(t)
  PROVE  LET chain == Compiled(t, d)[n].chain
         IN  /\ n \notin Tagged(t) => chain = NoChain
             /\ n \in Tagged(t) => /\ chain = d + Cardinality(Tagged(t) \cap 1 .. n)
                                   /\ chain \in Nat /\ d < chain /\ chain <= d + Cardinality(Tagged(t))
<1>1. Compiled(t, d)[n].chain = IF n \in Tagged(t) THEN ChainFor(t, d, n) ELSE NoChain
  BY CompiledParts
<1>2. n \in Tagged(t) => /\ Cardinality(Tagged(t) \cap 1 .. n) \in Nat \ {0}
                         /\ Cardinality(Tagged(t) \cap 1 .. n) <= Cardinality(Tagged(t))
  BY TagCount
<1>3. Cardinality(Tagged(t)) \in Nat
  BY TagCount
<1> DEFINE count == Cardinality(Tagged(t) \cap 1 .. n)
           all == Cardinality(Tagged(t))
<1>4. n \in Tagged(t) => ChainFor(t, d, n) = d + count
  BY DEF ChainFor
<1> HIDE DEF count, all
<1>5. n \in Tagged(t) => count \in Nat \ {0} /\ count <= all /\ all \in Nat
  BY <1>2, <1>3 DEF count, all
<1>6. n \in Tagged(t) => d + count \in Nat /\ d < d + count /\ d + count <= d + all
  BY <1>5
<1> QED BY <1>1, <1>4, <1>6 DEF count, all

-----------------------------------------------------------------------------
(* The inductive invariant *)

\* Trees are numbered one after the other, a tree that is rewritten again anew.
Numbered(base) ==
    /\ base \in [Targets -> Nat]
    /\ \A t \in Functions :
         compiled[t] = Compiled(t, base[t]) /\ base[t] + Cardinality(Tagged(t)) <= counter
    /\ \A t, u \in Functions :
         t = u \/ base[t] + Cardinality(Tagged(t)) <= base[u] \/ base[u] + Cardinality(Tagged(u)) <= base[t]

\* Whatever the registry knows is the place of a test of a target rewritten before.
Sited ==
    \A p \in DOMAIN registry :
        \E u \in Targets : compiled[u] # NoTree /\ \E m \in Sites(u) : p = Spot(u, m)

\* No test of a rewritten target has moved.
Settled == \A t \in Targets : compiled[t] # NoTree => ~MovesTests(t)

\* As long as no test moves, the registry knows each test of a target by its last id.
Known ==
    Settled => \A t \in Functions : \A n \in Sites(t) :
        Spot(t, n) \in DOMAIN registry /\ registry[Spot(t, n)] = compiled[t][n].chain

\* A run is one of the rewritten tree beside one of the source.
Recorded ==
    last.ran =>
        /\ last.target \in Targets /\ last.argument \in Arguments
        /\ \E drawn : /\ last.got = Eval(Compiled(last.target, drawn), Wrap(last.argument))
                      /\ last.expected = Eval(Body(last.target), last.argument)

\* Inductive; the three properties follow from it.
RewritingInv ==
    /\ counter \in Nat /\ compiled = [t \in Targets |-> compiled[t]]
    /\ \E base : Numbered(base)
    /\ Sited
    /\ Known
    /\ Recorded

(* Nothing is rewritten at the start. *)
LEMMA InvAtStart == RewritingInit => RewritingInv
<1> SUFFICES ASSUME RewritingInit PROVE RewritingInv
  OBVIOUS
<1>1. \A t \in Targets : compiled[t] = NoTree
  BY DEF RewritingInit
<1>2. Functions = {}
  BY <1>1 DEF Functions
<1>3. Numbered([t \in Targets |-> 0])
  BY <1>2 DEF Numbered
<1>4. counter \in Nat /\ compiled = [t \in Targets |-> compiled[t]]
  BY <1>1 DEF RewritingInit
<1>5. Sited
  BY DEF RewritingInit, Sited
<1>6. Known
  BY <1>2 DEF Known
<1>7. Recorded
  BY DEF RewritingInit, Recorded, NoRun
<1> QED BY <1>3, <1>4, <1>5, <1>6, <1>7 DEF RewritingInv

(* A target that was rewritten has a tree. *)
LEMMA TreeNotEmpty ==
  ASSUME NEW t \in Targets
  PROVE  Body(t) # NoTree /\ \A drawn : Compiled(t, drawn) # NoTree
<1>1. TreeSize(t) # 0 /\ \A drawn : Len(Compiled(t, drawn)) = TreeSize(t)
  BY BodyFacts, TreeLength
<1>2. Len(NoTree) = 0
  BY DEF NoTree
<1> QED BY <1>1, <1>2 DEF TreeSize

(* Runs: nothing changes but the record. *)
LEMMA InvByRun ==
  ASSUME RewritingInv, NEW t \in Targets, Run(t)
  PROVE  RewritingInv'
<1>1. /\ UNCHANGED <<counter, registry, compiled, tally, rewrites>>
      /\ compiled[t] # NoTree /\ Source[t].kind = "function"
  BY DEF Run
<1>2. PICK base : Numbered(base)
  BY DEF RewritingInv
<1>3. Functions' = Functions
  BY <1>1 DEF Functions
<1>4. Numbered(base)'
  BY <1>1, <1>2, <1>3 DEF Numbered
<1>5. Sited' /\ Known'
  BY <1>1, <1>3 DEF RewritingInv, Sited, Known, Settled
<1>6. Recorded'
  <2>1. PICK v \in Arguments :
          last' = [ran |-> TRUE, target |-> t, argument |-> v,
                   got |-> Eval(compiled[t], Wrap(v)), expected |-> Eval(Body(t), v)]
    BY DEF Run
  <2>2. last'.target = t /\ last'.argument = v /\ last'.got = Eval(compiled[t], Wrap(v))
        /\ last'.expected = Eval(Body(t), v)
    BY <2>1
  <2>3. compiled[t] = Compiled(t, base[t])
    BY <1>1, <1>2 DEF Numbered, Functions
  <2> QED BY <2>2, <2>3 DEF Recorded
<1> QED BY <1>1, <1>4, <1>5, <1>6 DEF RewritingInv

(* A lambda is refused and nothing is recorded. *)
LEMMA InvByLambda ==
  ASSUME RewritingInv, last' = NoRun, UNCHANGED <<counter, registry, compiled>>
  PROVE  RewritingInv'
<1>1. Functions' = Functions
  BY DEF Functions
<1>2. \A base : Numbered(base) => Numbered(base)'
  BY <1>1 DEF Numbered
<1>3. Sited' /\ Known'
  BY <1>1 DEF RewritingInv, Sited, Known, Settled
<1>4. Recorded'
  BY DEF Recorded, NoRun
<1> QED BY <1>2, <1>3, <1>4 DEF RewritingInv

(* The step that rewrites, registers and compiles a target. *)
LEMMA InvByRewrite ==
  ASSUME RewritingInv, NEW t \in Targets, Source[t].kind # "lambda",
         counter' = counter + Cardinality(Tagged(t)),
         Register(t, Compiled(t, counter)),
         compiled' = [compiled EXCEPT ![t] = IF Source[t].kind = "class" THEN Body(t) ELSE Compiled(t, counter)],
         last' = NoRun
  PROVE  RewritingInv'
<1> DEFINE tree == Compiled(t, counter)
<1>1. counter \in Nat /\ compiled = [u \in Targets |-> compiled[u]] /\ Cardinality(Tagged(t)) \in Nat
  BY TagCount DEF RewritingInv
<1>2. /\ compiled'[t] = IF Source[t].kind = "class" THEN Body(t) ELSE tree
      /\ \A u \in Targets : u # t => compiled'[u] = compiled[u]
      /\ compiled' = [u \in Targets |-> compiled'[u]]
  <2> HIDE DEF tree
  <2> QED BY <1>1 DEF tree
<1>3. compiled'[t] # NoTree
  BY <1>2, TreeNotEmpty
<1>4. PICK base : Numbered(base)
  BY DEF RewritingInv
<1>5. Source[t].kind = "function" \/ Source[t].kind = "class"
  BY RewritingAssumption
<1>6. \A u \in Functions' : u \in Targets /\ (u # t => u \in Functions) /\ (u = t => compiled'[t] = tree)
  BY <1>2 DEF Functions
<1>7. \E later : Numbered(later)'
  <2>0. PICK d : d = counter
    OBVIOUS
  <2> DEFINE later == [base EXCEPT ![t] = d]
             size(u) == Cardinality(Tagged(u))
  <2>1. base \in [Targets -> Nat] /\ later \in [Targets -> Nat]
    BY <1>1, <1>4, <2>0 DEF Numbered
  <2>2. later[t] = counter /\ \A u \in Targets : u # t => later[u] = base[u]
    BY <2>0, <2>1
  <2>3. \A u \in Targets : size(u) \in Nat
    BY TagCount
  <2>4. \A u \in Functions : compiled[u] = Compiled(u, base[u]) /\ base[u] + size(u) <= counter
    BY <1>4 DEF Numbered
  <2>5. \A u, w \in Functions : u = w \/ base[u] + size(u) <= base[w] \/ base[w] + size(w) <= base[u]
    BY <1>4 DEF Numbered
  <2>6. counter' = counter + size(t)
    OBVIOUS
  <2> HIDE DEF later, size, tree
  <2>7. \A u \in Functions' : compiled'[u] = Compiled(u, later[u]) /\ later[u] + size(u) <= counter'
    <3> SUFFICES ASSUME NEW u \in Functions'
                 PROVE  compiled'[u] = Compiled(u, later[u]) /\ later[u] + size(u) <= counter'
      OBVIOUS
    <3>1. CASE u = t
      <4>1. compiled'[u] = Compiled(u, later[u])
        BY <1>6, <2>2, <3>1 DEF tree
      <4>2. later[u] + size(u) <= counter'
        BY <1>1, <2>2, <2>3, <2>6, <3>1
      <4> QED BY <4>1, <4>2
    <3>2. CASE u # t
      <4>1. u \in Functions /\ u \in Targets /\ later[u] = base[u] /\ compiled'[u] = compiled[u]
        BY <1>2, <1>6, <2>2, <3>2
      <4>2. base[u] \in Nat /\ size(u) \in Nat /\ size(t) \in Nat /\ base[u] + size(u) <= counter
        BY <2>1, <2>3, <2>4, <4>1
      <4>3. base[u] + size(u) <= counter'
        BY <1>1, <2>6, <4>2
      <4> QED BY <2>4, <4>1, <4>3
    <3> QED BY <3>1, <3>2
  <2>8. ASSUME NEW u \in Functions', NEW w \in Functions'
        PROVE  u = w \/ later[u] + size(u) <= later[w] \/ later[w] + size(w) <= later[u]
    <3>1. CASE u # t /\ w # t
      BY <1>6, <2>2, <2>5, <3>1
    <3>2. CASE u = t /\ w # t
      BY <1>6, <2>2, <2>4, <3>2
    <3>3. CASE u # t /\ w = t
      BY <1>6, <2>2, <2>4, <3>3
    <3> QED BY <3>1, <3>2, <3>3
  <2>9. Numbered(later)'
    BY <2>1, <2>7, <2>8, Zenon DEF Numbered, size
  <2> QED BY <2>9
<1>8. PICK site \in [Places(t, tree) -> Sites(t)] :
        /\ \A p \in Places(t, tree) : Position(tree[site[p]]) = p
        /\ registry' = [p \in DOMAIN registry \cup Places(t, tree) |->
                          IF p \in Places(t, tree) THEN tree[site[p]].chain ELSE registry[p]]
  <2>1. PICK site \in [Places(t, tree) -> Sites(t)] :
          /\ \A p \in DOMAIN site : Position(tree[site[p]]) = p
          /\ registry' = [p \in DOMAIN registry \cup DOMAIN site |->
                            IF p \in DOMAIN site THEN tree[site[p]].chain ELSE registry[p]]
    BY Zenon DEF Register
  <2>2. DOMAIN site = Places(t, tree)
    BY <2>1
  <2> HIDE DEF tree
  <2> QED BY <2>1, <2>2, Zenon
<1>9. \A u \in Targets : Sites(u) \subseteq 1 .. TreeSize(u) /\ \A m \in Sites(u) : m \in Tagged(u) /\ Visits[u][m] # 0
  BY TagCount DEF Sites
<1>10. Places(t, tree) = {Spot(t, n) : n \in Sites(t)}
  <2>1. \A n \in Sites(t) : Position(tree[n]) = Spot(t, n)
    BY <1>9, SpotCompiled
  <2> HIDE DEF tree
  <2> QED BY <2>1 DEF Places
<1>11. \A p \in Places(t, tree) : site[p] \in Sites(t) /\ Spot(t, site[p]) = p
  <2>1. \A n \in Sites(t) : Position(tree[n]) = Spot(t, n)
    BY <1>9, SpotCompiled
  <2> HIDE DEF tree
  <2> QED BY <1>8, <2>1
<1> HIDE DEF tree
<1>12. /\ DOMAIN registry' = DOMAIN registry \cup Places(t, tree)
       /\ \A p \in Places(t, tree) : registry'[p] = tree[site[p]].chain
       /\ \A p \in DOMAIN registry : p \notin Places(t, tree) => registry'[p] = registry[p]
  BY <1>8
<1>13. Sited'
  <2> SUFFICES ASSUME NEW p \in DOMAIN registry'
               PROVE  \E u \in Targets : compiled'[u] # NoTree /\ \E m \in Sites(u) : p = Spot(u, m)
    BY DEF Sited
  <2>1. CASE p \in Places(t, tree)
    BY <1>3, <1>10, <2>1
  <2>2. CASE p \in DOMAIN registry
    <3>1. PICK u \in Targets : compiled[u] # NoTree /\ \E m \in Sites(u) : p = Spot(u, m)
      BY <2>2 DEF RewritingInv, Sited
    <3>2. compiled'[u] # NoTree
      BY <1>2, <1>3, <3>1
    <3> QED BY <3>1, <3>2
  <2> QED BY <1>12, <2>1, <2>2
<1>14. Known'
  <2> SUFFICES ASSUME Settled', NEW u \in Functions', NEW n \in Sites(u)
               PROVE  Spot(u, n) \in DOMAIN registry' /\ registry'[Spot(u, n)] = compiled'[u][n].chain
    BY DEF Known
  <2>1. Settled
    BY <1>2, <1>3 DEF Settled
  <2>2. u \in Targets /\ compiled'[u] # NoTree
    BY DEF Functions
  <2>3. ~MovesTests(t) /\ ~MovesTests(u)
    BY <1>3, <2>2 DEF Settled
  <2>4. \A w \in Targets : \A m \in Sites(w) : Body(w)[m].op = "compare"
    <3> SUFFICES ASSUME NEW w \in Targets, NEW m \in Sites(w) PROVE Body(w)[m].op = "compare"
      OBVIOUS
    <3>1. m \in 1 .. TreeSize(w) /\ Rewritten[w][m].op = "tests"
      BY <1>9 DEF Tagged
    <3> QED BY <3>1, TestSource
  <2>5. \A m \in Sites(t) : Spot(u, n) = Spot(t, m) => u = t /\ n = m
    BY <1>9, <2>2, <2>3, <2>4, SpotsApart
  <2>6. CASE u = t
    <3>1. Spot(u, n) \in Places(t, tree)
      BY <1>10, <2>6
    <3>2. site[Spot(u, n)] = n
      BY <1>11, <2>5, <3>1
    <3>3. compiled'[t] = tree
      BY <1>6, <2>6
    <3> QED BY <1>12, <2>6, <3>1, <3>2, <3>3
  <2>7. CASE u # t
    <3>1. u \in Functions /\ compiled'[u] = compiled[u]
      BY <1>2, <1>6, <2>7
    <3>2. Spot(u, n) \in DOMAIN registry /\ registry[Spot(u, n)] = compiled[u][n].chain
      BY <2>1, <3>1 DEF RewritingInv, Known
    <3>3. Spot(u, n) \notin Places(t, tree)
      BY <1>10, <2>5, <2>7
    <3> QED BY <1>12, <3>1, <3>2, <3>3
  <2> QED BY <2>6, <2>7
<1>15. Recorded'
  BY DEF Recorded, NoRun
<1>16. counter' \in Nat
  BY <1>1
<1> QED BY <1>2, <1>7, <1>13, <1>14, <1>15, <1>16 DEF RewritingInv

(* RewritingInv is an invariant: every tree that runs is the one compiled from the *)
(* source, and the registry knows the place and the last id of each of its tests.  *)
THEOREM RewritingInvHolds == RewritingSpec => []RewritingInv
<1>1. RewritingInit => RewritingInv
  BY InvAtStart
<1>2. RewritingInv /\ [RewritingNext]_rewritingVars => RewritingInv'
  <2> SUFFICES ASSUME RewritingInv, [RewritingNext]_rewritingVars PROVE RewritingInv'
    OBVIOUS
  <2>1. CASE UNCHANGED rewritingVars
    <3>1. UNCHANGED <<counter, registry, compiled, last>>
      BY <2>1 DEF rewritingVars
    <3>2. Functions' = Functions
      BY <3>1 DEF Functions
    <3>3. \A base : Numbered(base) => Numbered(base)'
      BY <3>1, <3>2 DEF Numbered
    <3>4. Sited' /\ Known' /\ Recorded'
      BY <3>1, <3>2 DEF RewritingInv, Sited, Known, Settled, Recorded
    <3> QED BY <3>1, <3>3, <3>4 DEF RewritingInv
  <2>2. ASSUME NEW t \in Targets, Rewrite(t) PROVE RewritingInv'
    <3>1. last' = NoRun
      BY <2>2 DEF Rewrite
    <3>2. CASE Source[t].kind = "lambda"
      <4>1. UNCHANGED <<counter, registry, compiled>>
        BY <2>2, <3>2, Zenon DEF Rewrite
      <4> QED BY <3>1, <4>1, InvByLambda
    <3>3. CASE Source[t].kind # "lambda"
      <4>1. /\ counter' = counter + Cardinality(Tagged(t))
            /\ Register(t, Compiled(t, counter))
            /\ compiled' = [compiled EXCEPT ![t] = IF Source[t].kind = "class" THEN Body(t) ELSE Compiled(t, counter)]
        BY <2>2, <3>3, Zenon DEF Rewrite
      <4> QED BY <3>1, <3>3, <4>1, InvByRewrite
    <3> QED BY <3>2, <3>3
  <2>3. ASSUME NEW t \in Targets, Run(t) PROVE RewritingInv'
    BY <2>3, InvByRun
  <2> QED BY <2>1, <2>2, <2>3 DEF RewritingNext
<1> QED BY <1>1, <1>2, PTL DEF RewritingSpec

(* What runs is the compiled tree, so the result is the one of the original. *)
LEMMA SameByInv == RewritingInv => SameResult
<1> SUFFICES ASSUME RewritingInv, last.ran, Comparable(last.target, last.argument)
             PROVE  SameOutcome(last.got, last.expected)
  BY DEF SameResult
<1>1. /\ last.target \in Targets /\ last.argument \in Arguments
      /\ \E drawn : /\ last.got = Eval(Compiled(last.target, drawn), Wrap(last.argument))
                    /\ last.expected = Eval(Body(last.target), last.argument)
  BY DEF RewritingInv, Recorded
<1>2. last.argument \in Values /\ ~last.argument.wrapped
  BY <1>1, RewritingAssumption
<1> QED BY <1>1, <1>2, TargetSame

(* Ids are handed out once, and places of tests are not shared. *)
LEMMA ChainsByInv == RewritingInv => ChainsTrue
<1> SUFFICES ASSUME RewritingInv, Settled, NEW t \in Functions, NEW n \in Reached(t)
             PROVE  LET e == compiled[t][n]
                    IN  /\ e.op = "tests" => registry[Position(e)] = e.chain
                        /\ e.op = "compare" => Position(e) \notin DOMAIN registry
                        /\ e.chain # NoChain =>
                             \A u \in Functions : \A m \in Reached(u) :
                                 compiled[u][m].chain = e.chain => t = u /\ n = m
  BY Zenon DEF ChainsTrue, Settled
<1> DEFINE e == compiled[t][n]
<1>1. PICK base : Numbered(base)
  BY DEF RewritingInv
<1>2. \A u \in Functions : u \in Targets /\ compiled[u] # NoTree /\ compiled[u] = Compiled(u, base[u]) /\ base[u] \in Nat
  BY <1>1 DEF Numbered, Functions
<1>3. \A u \in Functions : \A m \in Reached(u) : m \in 1 .. TreeSize(u) /\ Visits[u][m] # 0
  BY <1>2, BodyFacts DEF Reached
<1>4. \A u \in Functions : \A m \in Reached(u) : Position(compiled[u][m]) = Spot(u, m) /\ compiled[u][m].op = Rewritten[u][m].op
  BY <1>2, <1>3, SpotCompiled, CompiledParts DEF Alike
<1>5. ASSUME e.op = "tests" PROVE registry[Position(e)] = e.chain
  <2>1. n \in Sites(t)
    BY <1>2, <1>3, <1>4, <1>5, BodyFacts DEF Sites, Tagged
  <2>2. registry[Spot(t, n)] = e.chain
    BY <2>1 DEF RewritingInv, Known
  <2> QED BY <1>4, <2>2
<1>6. ASSUME e.op = "compare", Position(e) \in DOMAIN registry PROVE FALSE
  <2>1. PICK u \in Targets : compiled[u] # NoTree /\ \E m \in Sites(u) : Position(e) = Spot(u, m)
    BY <1>6 DEF RewritingInv, Sited
  <2>2. PICK m \in Sites(u) : Spot(t, n) = Spot(u, m)
    BY <1>4, <2>1
  <2>3. m \in 1 .. TreeSize(u) /\ Rewritten[u][m].op = "tests" /\ Visits[u][m] # 0
    BY BodyFacts DEF Sites, Tagged
  <2>4. Rewritten[t][n].op = "compare"
    BY <1>4, <1>6
  <2>5. Body(t)[n].op = "compare" /\ Body(u)[m].op = "compare"
    BY <1>2, <1>3, <2>3, <2>4, TestSource
  <2>6. ~MovesTests(t) /\ ~MovesTests(u)
    BY <1>2, <2>1 DEF Settled
  <2>7. t = u /\ n = m
    BY <1>2, <1>3, <2>2, <2>3, <2>5, <2>6, SpotsApart
  <2> QED BY <2>3, <2>4, <2>7
<1>7. ASSUME NEW w \in Functions, NEW k \in Reached(w)
      PROVE  LET chain == compiled[w][k].chain
             IN  /\ k \notin Tagged(w) => chain = NoChain
                 /\ k \in Tagged(w) => /\ chain = base[w] + Cardinality(Tagged(w) \cap 1 .. k)
                                       /\ chain \in Nat /\ base[w] < chain
                                       /\ chain <= base[w] + Cardinality(Tagged(w))
  <2>1. w \in Targets /\ k \in 1 .. TreeSize(w) /\ base[w] \in Nat /\ compiled[w] = Compiled(w, base[w])
    BY <1>2, <1>3
  <2>2. LET chain == Compiled(w, base[w])[k].chain
        IN  /\ k \notin Tagged(w) => chain = NoChain
            /\ k \in Tagged(w) => /\ chain = base[w] + Cardinality(Tagged(w) \cap 1 .. k)
                                  /\ chain \in Nat /\ base[w] < chain
                                  /\ chain <= base[w] + Cardinality(Tagged(w))
    BY <2>1, ChainNumber, Zenon
  <2> QED BY <2>1, <2>2, Zenon
<1>8. ASSUME e.chain # NoChain, NEW u \in Functions, NEW m \in Reached(u), compiled[u][m].chain = e.chain
      PROVE  t = u /\ n = m
  <2> DEFINE size(w) == Cardinality(Tagged(w))
  <2>1. n \in Tagged(t) /\ m \in Tagged(u)
    BY <1>8, <1>7
  <2>2. /\ e.chain = base[t] + Cardinality(Tagged(t) \cap 1 .. n)
        /\ e.chain \in Nat /\ base[t] < e.chain /\ e.chain <= base[t] + size(t)
    BY <1>7, <2>1
  <2>3. /\ e.chain = base[u] + Cardinality(Tagged(u) \cap 1 .. m)
        /\ base[u] < e.chain /\ e.chain <= base[u] + size(u)
    BY <1>8, <1>7, <2>1
  <2>4. size(t) \in Nat /\ size(u) \in Nat /\ base[t] \in Nat /\ base[u] \in Nat
    BY <1>2, TagCount
  <2>5. t = u \/ base[t] + size(t) <= base[u] \/ base[u] + size(u) <= base[t]
    BY <1>1 DEF Numbered
  <2> DEFINE c == e.chain
  <2>6. c \in Nat
    BY <2>2
  <2>7. t = u
    <3>1. base[t] < c /\ c <= base[t] + size(t) /\ base[u] < c /\ c <= base[u] + size(u)
      BY <2>2, <2>3
    <3> HIDE DEF c, size
    <3> QED BY <2>4, <2>5, <2>6, <3>1
  <2>8. n = m
    <3> DEFINE count(k) == Cardinality(Tagged(t) \cap 1 .. k)
    <3>1. c = base[t] + count(n) /\ c = base[t] + count(m)
      BY <2>2, <2>3, <2>7
    <3>2. count(n) \in Nat /\ count(m) \in Nat
      BY <1>2, <2>1, <2>7, TagCount
    <3>3. (n < m => count(n) < count(m)) /\ (m < n => count(m) < count(n))
      BY <1>2, <2>1, <2>7, TagCount
    <3>4. n \in Nat /\ m \in Nat
      <4>1. n \in 1 .. TreeSize(t) /\ m \in 1 .. TreeSize(u)
        BY <1>3
      <4> QED BY <4>1
    <3>5. count(n) = count(m)
      <4> HIDE DEF count, c
      <4> QED BY <2>4, <2>6, <3>1, <3>2
    <3> HIDE DEF count
    <3> QED BY <3>2, <3>3, <3>4, <3>5
  <2> QED BY <2>7, <2>8
<1> QED BY <1>5, <1>6, <1>8

(* The rewritten target does on wrapped arguments what the original does on plain *)
(* ones, with the exceptions Comparable names (rewrite_target).                   *)
THEOREM SameResultHolds == RewritingSpec => []SameResult
BY RewritingInvHolds, SameByInv, PTL

(* Each chain id belongs to one test of one function, and the site of each of its *)
(* equalities finds it (_register_chain_positions, _chain_id_for_compare_site).   *)
THEOREM ChainsTrueHolds == RewritingSpec => []ChainsTrue
BY RewritingInvHolds, ChainsByInv, PTL

=============================================================================
