---------------------------- MODULE MCConcolic ----------------------------
(* Inputs and constants of the target for TLC. *)
EXTENDS ConcolicStrings

MCInputs == {-5, -4, 0, 3, 6}

MCLiterals == {-4, -3, 0, 2, 5}

\* The sharp s, the Kelvin sign, an Arabic-Indic one, a superscript two and the
\* no-break space.
MCUnicode ==
    LET Char(c, classes) == [classes |-> classes, numeral |-> 0, lower |-> <<c>>, upper |-> <<c>>]
    IN  (223 :> [Char(223, {"alpha", "lower"}) EXCEPT !.upper = <<83, 83>>])
        @@ (8490 :> [Char(8490, {"alpha", "upper"}) EXCEPT !.lower = <<107>>])
        @@ (1633 :> [Char(1633, {"decimal", "digit", "numeric"}) EXCEPT !.numeral = 1])
        @@ (178 :> Char(178, {"digit", "numeric"}))
        @@ (160 :> Char(160, {"blank"}))

\* "", "a", "A1", "-1", "1\n", " -a", "a1a"; and what int() reads or strip removes
\* beyond the expressions: "+1", "0_1", a tab and a one, then the characters above.
MCTexts ==
    {<<>>, <<97>>, <<65, 49>>, <<45, 49>>, <<49, 10>>, <<32, 45, 97>>, <<97, 49, 97>>}
        \cup {<<43, 49>>, <<48, 95, 49>>, <<9, 49>>}
        \cup {<<223>>, <<8490>>, <<45, 1633>>, <<178>>, <<160, 49>>}

\* "", "a", "1"
MCPieces == {<<>>, <<97>>, <<49>>}

=============================================================================
