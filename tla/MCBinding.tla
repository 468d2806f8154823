----------------------------- MODULE MCBinding -----------------------------
(* Targets and arguments for TLC. *)
EXTENDS Binding

Param(name, positional, callable) ==
    [name |-> name, positional |-> positional, callable |-> callable]

\* def target(k: Callable = f, n = 0, /, *, a, b)
MCSignature ==
    << Param("k", TRUE, TRUE), Param("n", TRUE, FALSE), Param("a", FALSE, FALSE), Param("b", FALSE, FALSE) >>

MCNames == {"k", "n", "a", "b"}

Int0 == Value("Int", 0)
Str0 == Value("String", 0)
None == Value("None", 0)
Function == Value("function", 0)
Obj(kind, cells) == [kind |-> kind, cells |-> cells]
InOrder(names, h, args, seeds) == [heap |-> h, args |-> args, order |-> names, seeds |-> seeds]

\* Given in the order of the signature.
Start(h, args, seeds) ==
    InOrder(SelectSeq(<< "k", "n", "a", "b" >>, LAMBDA p : p \in DOMAIN args), h, args, seeds)
Args(k, n, a, b) == [p \in MCNames |->
                       CASE p = "k" -> k [] p = "n" -> n [] p = "a" -> a [] p = "b" -> b]

\* A dict with a list in it, beside an empty list; b given first.
Nested ==
    InOrder(<< "b", "a", "n", "k" >>,
          << Obj("dict", <<Int0, Ref(2)>>), Obj("list", <<Str0>>), Obj("list", <<>>) >>,
          Args(Function, Int0, Ref(1), Ref(3)), <<>>)

\* One list twice in a, and again as b; a seed without b.
Shared ==
    Start(<< Obj("dict", <<Ref(2), Ref(2)>>), Obj("list", <<Int0>>) >>,
          Args(Function, None, Ref(1), Ref(2)),
          << [p \in {"k", "n", "a"} |-> Args(None, Int0, Ref(1), None)[p]] >>)

\* Nothing given for k.
Gapped ==
    Start(<< Obj("list", <<Int0>>) >>,
          [p \in {"n", "a"} |-> Args(None, Int0, Ref(1), None)[p]], <<>>)

\* A number given for k, which is annotated as a function; nothing for n.
Dropped ==
    Start(<< Obj("list", <<Int0>>) >>,
          [p \in {"k", "a"} |-> Args(Int0, None, Ref(1), None)[p]], <<>>)

\* A container that holds itself, and one that cannot be copied.
Cyclic ==
    Start(<< Obj("dict", <<Int0, Ref(1)>>), Obj("dict", <<Int0, Ref(3)>>), Obj("opaque", <<>>) >>,
          Args(Function, Int0, Ref(1), Ref(2)), <<>>)

\* Seeds of another shape: a list for the dict, a list with a list in it twice for the
\* number, None for k.
Reshaped ==
    Start(<< Obj("dict", <<Int0>>), Obj("list", <<Int0, Ref(4), Ref(4)>>), Obj("dict", <<Ref(2)>>),
             Obj("list", <<Int0, None>>) >>,
          Args(Function, Int0, Ref(1), None),
          << Args(None, Int0, Ref(2), None), Args(None, Int0, Ref(3), None) >>)

\* A seed with a list that holds itself for a number.
Looping ==
    Start(<< Obj("dict", <<Int0>>), Obj("list", <<Int0, Ref(2)>>) >>,
          Args(Function, Int0, Ref(1), None), << Args(Function, Ref(2), Ref(1), None) >>)

\* A container of a also in b, which cannot be copied.
Entangled ==
    Start(<< Obj("dict", <<Int0>>), Obj("dict", <<Ref(1), Ref(3)>>), Obj("opaque", <<>>) >>,
          Args(Function, Int0, Ref(1), Ref(2)), <<>>)

Tupled ==
    Start(<< Obj("tuple", <<Int0, Ref(2)>>), Obj("list", <<>>) >>,
          Args(Function, Int0, Ref(1), Ref(2)), <<>>)

MCTemplates ==
    {Nested, Shared, Cyclic, Reshaped, Looping, Entangled, Tupled, Gapped, Dropped}
MCNumbers == {1, 2}

=============================================================================
