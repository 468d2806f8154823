--------------------------- MODULE MCSolverQuery ---------------------------
(* Constraints and solver values for TLC. *)
EXTENDS SolverQuery

Cond(op, k, lit) ==
    [op |-> op, k |-> k, lit |-> lit, symbolic |-> FALSE, negated |-> FALSE, wanted |-> TRUE]

Both(c) == {[c EXCEPT !.wanted = w, !.negated = n] : w, n \in BOOLEAN}
Sides(c) == {c, [c EXCEPT !.wanted = FALSE]}

Not(op, lit) == [Cond(op, 0, lit) EXCEPT !.wanted = FALSE]

Numeric == Sides(Cond("int=", -1, <<>>)) \cup Sides(Cond("int<", 1, <<>>))
               \cup Sides(Cond("real<", 0, <<>>))

\* "a", "A", "a\n", "\"", "\\", "é"; upper also meets "SS", the upper case of a sharp s
Literals == {<<97>>, <<65>>, <<97, 10>>, <<34>>, <<92>>, <<233>>}

Textual ==
    UNION {Both(Cond("str=", 0, l)) : l \in Literals}
        \cup UNION {Sides(Cond(op, 0, l)) : op \in {"lower", "upper"}, l \in Literals \ {<<233>>}}
        \cup Sides(Cond("lower", 0, <<233>>)) \cup Sides(Cond("upper", 0, <<83, 83>>))
        \cup UNION {Sides(Cond("count", k, l)) : k \in -1..2, l \in {<<>>, <<97>>, <<97, 97>>}}
        \cup Sides([Cond("count", 1, <<>>) EXCEPT !.symbolic = TRUE])

\* Lengths before a text: a text that needs another length is then out of reach.
MCPaths ==
    {<<c>> : c \in Numeric \cup Textual}
        \cup {<<Cond("len=", k, <<>>), c>> : k \in 1..2, c \in {d \in Textual : d.wanted}}
        \cup {<<Cond("count", 1, <<97>>), c>> : c \in {d \in Textual : d.op = "lower"}}
        \cup {<<Not("str=", <<107>>), Not("str=", <<75>>), Cond("lower", 0, <<107>>)>>}

\* é and É, the sharp s and the Kelvin sign.
MCUnicode ==
    LET letter(case, low, up) ==
            [classes |-> {"alpha", case}, numeral |-> 0, lower |-> low, upper |-> up]
    IN  (233 :> letter("lower", <<233>>, <<201>>)) @@ (201 :> letter("upper", <<233>>, <<201>>))
            @@ (223 :> letter("lower", <<223>>, <<83, 83>>))
            @@ (8490 :> letter("upper", <<107>>, <<8490>>))

MCInts == {-1, 1}
MCHalves == {-3, 0, 1}

MCConfigs == {[store |-> "none", statsdir |-> FALSE], [store |-> "id", statsdir |-> TRUE]}

\* All texts of up to two of a, A and quote, the newline and the backslash, three
\* a's, "SS", "é", the sharp s, the Kelvin sign and the characters the formula holds
\* for "a\n".
MCTexts ==
    UNION {[1..n -> {97, 65, 34}] : n \in 0..2}
        \cup {<<10>>, <<92>>, <<97, 10>>, <<92, 92>>}
        \cup {<<97, 97, 97>>, <<83, 83>>, <<233>>, <<223>>, <<8490>>, <<97, 92, 110>>}

=============================================================================
