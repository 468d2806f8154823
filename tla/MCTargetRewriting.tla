------------------------- MODULE MCTargetRewriting -------------------------
(* Targets of one file for TLC. *)
EXTENDS TargetRewriting

V(type, val) == [type |-> type, val |-> val, wrapped |-> FALSE]

\* A node in a line of the listing: column, operation, what it says, children.
K(col, type, val) == <<col, "const", V(type, val), <<>>>>
Name(col, name) == <<col, "name", name, <<>>>>
X(col) == Name(col, "x")
Pop(col) == <<col, "pop", "", <<>>>>
Unpack(col) == <<col, "unpack", "", <<>>>>
Compare(col, ops, subs) == <<col, "compare", ops, subs>>
Of(col, op, subs) == <<col, op, "", subs>>
Call(col, name, subs) == <<col, "call", name, subs>>

One(col) == K(col, "int", 1)
Two(col) == K(col, "int", 2)
True(col) == K(col, "bool", 1)
Text(col) == K(col, "str", 1)

Target(kind, start, body) == [kind |-> kind, start |-> start, body |-> body]

Listing == [
    \* x in {1, 1, True, -1};  x not in ("1", 2)
    inset |-> Target("function", 1,
                << X(3), One(11), One(13), True(15), One(20), Of(19, "minus", <<5>>),
                   Of(9, "set", <<2, 3, 4, 6>>), Compare(3, <<"in">>, <<1, 7>>) >>),
    notin |-> Target("function", 4,
                << X(3), Text(11), Two(13), Of(9, "tuple", <<2, 3>>), Compare(3, <<"notin">>, <<1, 4>>) >>),
    \* the same in a class
    inclass |-> Target("class", 7,
                << X(3), One(11), Two(13), Of(9, "list", <<2, 3>>), Compare(3, <<"in">>, <<1, 4>>) >>),
    \* int(x) in {1};  x not in frozenset();  pop() in [1, 2]
    single |-> Target("function", 10,
                << X(7), Call(3, "int", <<1>>), One(11), Of(9, "set", <<3>>), Compare(3, <<"in">>, <<2, 4>>) >>),
    empty |-> Target("function", 13, << X(3), Call(9, "frozenset", <<>>), Compare(3, <<"notin">>, <<1, 2>>) >>),
    popped |-> Target("function", 16,
                << Pop(3), One(11), Two(13), Of(9, "list", <<2, 3>>), Compare(3, <<"in">>, <<1, 4>>) >>),
    \* (str(x) in ["1"]) in {True, 1}
    nested |-> Target("function", 19,
                << X(8), Call(4, "str", <<1>>), Text(12), Of(9, "list", <<3>>), Compare(4, <<"in">>, <<2, 4>>),
                   True(20), One(22), Of(9, "set", <<6, 7>>), Compare(3, <<"in">>, <<5, 8>>) >>),
    \* x is None or x is True;  1 == x in {1};  pop() == 2 and x in {**x}
    sentinels |-> Target("function", 22,
                << X(3), K(9, "none", 0), Compare(3, <<"is">>, <<1, 2>>), X(17), True(22), Compare(17, <<"is">>, <<4, 5>>),
                   Of(3, "or", <<3, 6>>) >>),
    chained |-> Target("function", 25,
                << One(3), X(8), One(14), Of(9, "set", <<3>>), Compare(3, <<"==", "in">>, <<1, 2, 4>>) >>),
    unpacked |-> Target("function", 28,
                << Pop(3), Two(9), Compare(3, <<"==">>, <<1, 2>>), X(15), Unpack(21), Of(9, "dict", <<5>>),
                   Compare(15, <<"in">>, <<4, 6>>), Of(3, "and", <<3, 7>>) >>),
    \* map(int, x);  range(x, pop());  x in {1, x} or int(x, 10)
    mapint |-> Target("function", 31, << Name(4, "int"), X(9), Call(0, "map", <<1, 2>>) >>),
    ranged |-> Target("function", 34, << X(6), Pop(9), Call(0, "range", <<1, 2>>) >>),
    variable |-> Target("function", 37,
                << X(3), One(11), X(14), Of(9, "set", <<2, 3>>), Compare(3, <<"in">>, <<1, 4>>), X(20), K(23, "int", 10),
                   Call(18, "int", <<6, 7>>), Of(3, "or", <<5, 8>>) >>),
    lambda |-> Target("lambda", 40, << X(0) >>),
    \* x is (x in ())
    folded |-> Target("function", 43,
                << X(3), X(9), Of(14, "tuple", <<>>), Compare(9, <<"in">>, <<2, 3>>), Compare(3, <<"is">>, <<1, 4>>) >>)]

MCTargets == {"inset", "notin", "inclass", "single", "empty", "popped", "nested", "sentinels", "chained",
              "unpacked", "mapint", "ranged", "variable", "lambda", "folded"}

\* The nodes of the listing; bodies start in line 2 of their function.
Parsed(listed) ==
    LET Says(n, ops) == listed.body[n][2] \in ops
    IN  [listed EXCEPT !.body =
           [n \in DOMAIN listed.body |->
              [line |-> 2, col |-> listed.body[n][1], op |-> listed.body[n][2], chain |-> NoChain,
               arg |-> IF Says(n, {"name", "call"}) THEN listed.body[n][3] ELSE "",
               ops |-> IF Says(n, {"compare"}) THEN listed.body[n][3] ELSE <<>>,
               value |-> IF Says(n, {"const"}) THEN listed.body[n][3] ELSE NoValue,
               subs |-> listed.body[n][4]]]]

MCSource == [t \in MCTargets |-> Parsed(Listing[t])]
MCArguments == {V("int", 0), V("int", 1), V("int", 2), V("int", -1), V("bool", 1), V("bool", 0), V("str", 1), V("text", 7),
                V("none", 0), V("list", 1), V("set", 1)}
MCSupply == << V("int", 2), V("int", 1) >>

=============================================================================
