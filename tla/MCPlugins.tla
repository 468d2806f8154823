----------------------------- MODULE MCPlugins -----------------------------
(* An LLM plugin between two others, one of the same priority, for TLC. *)
EXTENDS Plugins

CONSTANTS early, peer

MCRegistration == <<peer, Llm, early>>
MCPriority == [p \in Plugins |-> IF p = early THEN 10 ELSE 50]
MCHandles == [p \in Plugins |-> CASE p = Llm -> {"collector", "resolver"}
                                  [] p = early -> Modes
                                  [] p = peer -> {"observer", "collector", "resolver"}]

List(entries) == [shape |-> "list", entries |-> entries]

MCReplies == {
    List(<<"flat", "callable", "empty", "scalar">>),
    List(<<"nested", "callable", "broken">>),
    List(<<"callable", "braced">>),
    List(<<"braced">>),
    [shape |-> "dict", entries |-> <<"callable">>]}

=============================================================================
