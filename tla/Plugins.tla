------------------------------ MODULE Plugins ------------------------------
(***************************************************************************)
(* Plugins of an exploration (engine/plugin/dispatcher.py) and the LLM       *)
(* plugin among them (plugins/llm): the engine asks plugins by priority, the *)
(* LLM plugin asks a service in a daemon thread, gives up after a timeout    *)
(* while the thread goes on, and parses what it gets.                        *)
(***************************************************************************)
EXTENDS Integers, Sequences, FiniteSets

CONSTANTS Others,      \* plugins besides the LLM plugin
          Llm,
          Registration,\* all plugins in the order they were registered
          Priority,
          Handles,     \* plugin -> the modes whose events it has a handler for
          Replies,     \* texts of the service: [shape, entries]
          MaxEvents

Plugins == Others \cup {Llm}
Modes == {"observer", "collector", "resolver"}
Kinds == {"flat", "callable", "nested", "empty", "scalar", "broken", "braced", "keyed"}

ASSUME PluginsAssumption ==
    /\ Llm \notin Others
    /\ Registration \in Seq(Plugins)
    /\ Len(Registration) = Cardinality(Plugins)
    /\ {Registration[i] : i \in DOMAIN Registration} = Plugins
    /\ Priority \in [Plugins -> Int]
    /\ Handles \in [Plugins -> SUBSET Modes] /\ "observer" \notin Handles[Llm]
    /\ \A r \in Replies : r.shape \in {"list", "dict"} /\ r.entries \in Seq(Kinds)
    /\ MaxEvents \in Nat

VARIABLES client,     \* whether OPENAI_API_KEY gave the plugin a client
          mode,       \* the kind of dispatch under way, or "idle", "failed", "reading", "reported"
          pending,    \* plugins the dispatch has still to ask
          gathered,   \* what the dispatch has collected or resolved
          joining,    \* the call complete() is waiting for, 0 if none
          calls,      \* the threads started
          container,  \* what they left for the caller
          tokens,     \* _input_tokens and _output_tokens, one for each response
          stats,      \* get_stats()
          parseFailed,
          events,
          asked,      \* plugins asked in this dispatch, and what came of it (history)
          heard       \* calls waited for to the end, and which one the text answers (history)

engineVars == <<mode, pending, gathered, joining, stats, parseFailed, events, asked, heard>>
threadVars == <<calls, container, tokens>>
vars == <<client, engineVars, threadVars>>

NoText == [shape |-> "none"]
Working == {"asking", "received", "adding_input", "counted", "adding_output", "complete"}

-----------------------------------------------------------------------------
(* parser.py: an input is [callable, inner], by whether a function is left among its *)
(* values and whether it was only part of an entry.                                  *)

Input(kind) == [callable |-> kind = "callable", inner |-> FALSE]
Inner == [callable |-> FALSE, inner |-> TRUE]

HasEntry(reply, kinds) == \E i \in DOMAIN reply.entries : reply.entries[i] \in kinds
First(reply, kinds) ==
    LET found == {i \in DOMAIN reply.entries : reply.entries[i] \in kinds}
    IN  IF found = {} THEN Len(reply.entries) + 1 ELSE CHOOSE i \in found : \A j \in found : i <= j

\* literal_eval takes the entries in order and raises TypeError, which nothing catches,
\* on what cannot be hashed: a dict in a set, or a list as key, also of a single entry.
Raises(reply) ==
    \/ HasEntry(reply, {"keyed"})
    \/ ~HasEntry(reply, {"broken"}) /\ First(reply, {"braced"}) < First(reply, {"callable"})

Evaluates(reply) == ~HasEntry(reply, {"broken", "braced", "keyed"})

Dicts == {"flat", "callable", "nested", "empty"}

Entries(reply) ==
    [i \in DOMAIN reply.entries |-> [kind |-> reply.entries[i], input |-> Input(reply.entries[i])]]

\* The entries of these kinds, in their order.
Those(entries, kinds) ==
    LET upTo[n \in 0..Len(entries)] ==
            IF n = 0 THEN <<>>
            ELSE IF entries[n].kind \in kinds THEN Append(upTo[n - 1], entries[n]) ELSE upTo[n - 1]
    IN  upTo[Len(entries)]

\* _recover_entries: innermost braces only.
Recovered(reply) ==
    LET found == Those(Entries(reply), Dicts \cup {"braced"})
    IN  [i \in DOMAIN found |->
           IF found[i].kind \in {"nested", "braced"} THEN [found[i] EXCEPT !.input = Inner] ELSE found[i]]

Parsed(reply) == IF Evaluates(reply) THEN Entries(reply) ELSE Recovered(reply)

IsList(reply) == IF Evaluates(reply) THEN reply.shape = "list" ELSE Recovered(reply) # <<>>

Sanitized__Skipped(p) == p.input
Sanitized(p) == [p.input EXCEPT !.callable = FALSE]

\* parse_input_list
Usable(reply) ==
    IF ~IsList(reply) THEN <<>>
    ELSE LET dicts == Those(Parsed(reply), (Dicts \cup {"braced"}) \ {"empty"})
         IN  [i \in DOMAIN dicts |-> Sanitized(dicts[i])]
Fails(reply) == IF ~IsList(reply) THEN 1 ELSE Len(Parsed(reply)) - Len(Usable(reply))

\* parse_single_input takes the first dict as it is.
Single(reply) ==
    LET dicts == Those(Parsed(reply), Dicts \cup {"braced"})
    IN  IF dicts = <<>> THEN <<>> ELSE <<dicts[1].input>>

-----------------------------------------------------------------------------
(* Dispatcher *)

Index(p) == CHOOSE i \in DOMAIN Registration : Registration[i] = p

Before__LastRegistered(p, q) ==
    \/ Priority[p] < Priority[q]
    \/ Priority[p] = Priority[q] /\ Index(p) > Index(q)

\* sorted() by priority is stable.
Before(p, q) ==
    \/ Priority[p] < Priority[q]
    \/ Priority[p] = Priority[q] /\ Index(p) < Index(q)

Asked == CHOOSE p \in pending : \A q \in pending \ {p} : Before(p, q)
Dispatching == mode \in Modes

Event ==
    /\ mode = "idle" /\ events < MaxEvents
    /\ \E m \in Modes :
         /\ mode' = m
         /\ pending' = {p \in Plugins : m \in Handles[p]}
    /\ gathered' = <<>> /\ asked' = <<>>
    /\ events' = events + 1
    /\ UNCHANGED <<client, threadVars, joining, stats, parseFailed, heard>>

\* What the handler asked returned; a resolver's answer ends the dispatch.
Returned(inputs) ==
    /\ gathered' = gathered \o [i \in DOMAIN inputs |-> [by |-> Asked, input |-> inputs[i]]]
    /\ asked' = Append(asked, [plugin |-> Asked, mode |-> mode, answered |-> inputs # <<>>, raised |-> FALSE])
    /\ pending' = IF mode = "resolver" /\ inputs # <<>> THEN {} ELSE pending \ {Asked}
    /\ UNCHANGED mode

\* Observers are guarded one by one; in the other modes the exception ends the exploration.
Raised ==
    /\ asked' = Append(asked, [plugin |-> Asked, mode |-> mode, answered |-> FALSE, raised |-> TRUE])
    /\ IF mode = "observer" THEN pending' = pending \ {Asked} /\ UNCHANGED <<mode, gathered>>
       ELSE mode' = "failed" /\ pending' = {} /\ gathered' = <<>>

AskOther ==
    /\ Dispatching /\ pending # {} /\ Asked \in Others
    /\ \/ Returned(<<>>)
       \/ mode # "observer" /\ Returned(<<Input("flat")>>)
       \/ Raised
    /\ UNCHANGED <<client, threadVars, joining, stats, parseFailed, events, heard>>

Dispatched ==
    /\ Dispatching /\ pending = {}
    /\ mode' = "idle"
    /\ UNCHANGED <<client, threadVars, pending, gathered, joining, stats, parseFailed, events, asked, heard>>

-----------------------------------------------------------------------------
(* LLMPlugin and OpenAIClient, in the engine's thread *)

AskNoClient ==
    /\ Dispatching /\ pending # {} /\ Asked = Llm /\ ~client
    /\ Returned(<<>>)
    /\ UNCHANGED <<client, threadVars, joining, stats, parseFailed, events, heard>>

Slot__Shared(i) == 1
\* The container is one of its own for each call of complete().
Slot(i) == i

StartCall ==
    /\ Dispatching /\ pending # {} /\ Asked = Llm /\ client /\ joining = 0
    /\ calls' = Append(calls, [phase |-> "asking", attempt |-> 1, usage |-> FALSE,
                                loaded |-> 0, text |-> NoText])
    /\ joining' = Len(calls) + 1
    /\ container' = IF Slot(joining') \in DOMAIN container THEN container
                    ELSE Append(container, [call |-> 0, text |-> NoText])
    /\ UNCHANGED <<client, mode, pending, gathered, tokens, stats, parseFailed, events, asked, heard>>

\* The handler goes on with the text in the container, or without one.
Completed(slot) ==
    LET text == slot.text
    IN  IF text = NoText THEN Returned(<<>>) /\ UNCHANGED parseFailed
        ELSE IF Raises(text) THEN Raised /\ UNCHANGED parseFailed
        ELSE IF mode = "resolver" THEN Returned(Single(text)) /\ UNCHANGED parseFailed
        ELSE Returned(Usable(text)) /\ parseFailed' = parseFailed + Fails(text)

Join ==
    /\ joining # 0 /\ calls[joining].phase \notin Working
    /\ Completed(container[Slot(joining)])
    /\ heard' = Append(heard, <<joining, container[Slot(joining)].call>>)
    /\ joining' = 0
    /\ UNCHANGED <<client, threadVars, stats, events>>

TimeoutAllowed__Never(call) == FALSE
\* join() returns with the thread still alive.
TimeoutAllowed(call) == call.phase \in Working

GiveUp ==
    /\ joining # 0 /\ TimeoutAllowed(calls[joining])
    /\ Returned(<<>>)
    /\ joining' = 0
    /\ UNCHANGED <<client, threadVars, stats, parseFailed, events, heard>>

\* get_stats reads the counters one after the other, while threads given up go on.
ReadInput ==
    /\ mode \in {"idle", "failed"}
    /\ mode' = "reading"
    /\ stats' = [stats EXCEPT !.input = tokens.input]
    /\ UNCHANGED <<client, threadVars, pending, gathered, joining, parseFailed, events, asked, heard>>

ReadOutput ==
    /\ mode = "reading"
    /\ mode' = "reported"
    /\ stats' = [stats EXCEPT !.output = tokens.output]
    /\ UNCHANGED <<client, threadVars, pending, gathered, joining, parseFailed, events, asked, heard>>

-----------------------------------------------------------------------------
(* The thread of call i: _raw_call with max_retries = 1, and _call *)

Moved(i, phase) == calls' = [calls EXCEPT ![i].phase = phase]

AttemptFails(i) ==
    /\ calls[i].phase = "asking"
    /\ calls' = IF calls[i].attempt = 1 THEN [calls EXCEPT ![i].attempt = 2]
                ELSE [calls EXCEPT ![i].phase = "error"]
    /\ UNCHANGED <<client, engineVars, container, tokens>>

Respond(i) ==
    /\ calls[i].phase = "asking"
    /\ \E r \in Replies, u \in BOOLEAN :
         calls' = [calls EXCEPT ![i].phase = "received", ![i].text = r, ![i].usage = u]
    /\ UNCHANGED <<client, engineVars, container, tokens>>

Added__Overwrites(count) == 1
Added(count) == count + 1

Loads(i, phase, count) ==
    /\ calls' = [calls EXCEPT ![i].phase = phase, ![i].loaded = count]
    /\ UNCHANGED <<client, engineVars, container, tokens>>

Stores(i, phase) ==
    /\ calls' = [calls EXCEPT ![i].phase = phase, ![i].loaded = 0]
    /\ UNCHANGED <<client, engineVars, container>>

\* Each += reads the counter, adds to what it read and writes that back, with no lock:
\* a thread that was given up may do so between the two steps of another.
LoadInput(i) ==
    /\ calls[i].phase = "received" /\ calls[i].usage
    /\ Loads(i, "adding_input", tokens.input)

StoreInput(i) ==
    /\ calls[i].phase = "adding_input"
    /\ tokens' = [tokens EXCEPT !.input = Added(calls[i].loaded)]
    /\ Stores(i, "counted")

LoadOutput(i) ==
    /\ calls[i].phase = "counted"
    /\ Loads(i, "adding_output", tokens.output)

StoreOutput(i) ==
    /\ calls[i].phase = "adding_output"
    /\ tokens' = [tokens EXCEPT !.output = Added(calls[i].loaded)]
    /\ Stores(i, "complete")

\* The text goes into the container; a response without choices is an error here.
Deliver(i) ==
    /\ calls[i].phase = "complete" \/ (calls[i].phase = "received" /\ ~calls[i].usage)
    /\ \/ /\ container' = [container EXCEPT ![Slot(i)] = [call |-> i, text |-> calls[i].text]]
          /\ Moved(i, "done")
       \/ Moved(i, "error") /\ UNCHANGED container
    /\ UNCHANGED <<client, engineVars, tokens>>

Thread(i) ==
    \/ AttemptFails(i) \/ Respond(i) \/ Deliver(i)
    \/ LoadInput(i) \/ StoreInput(i) \/ LoadOutput(i) \/ StoreOutput(i)

-----------------------------------------------------------------------------
Init ==
    /\ client \in BOOLEAN
    /\ mode = "idle" /\ pending = {} /\ gathered = <<>> /\ joining = 0
    /\ calls = <<>> /\ container = <<>>
    /\ tokens = [input |-> 0, output |-> 0]
    /\ stats = [input |-> 0, output |-> 0]
    /\ parseFailed = 0 /\ events = 0 /\ asked = <<>> /\ heard = <<>>

Engine == \/ AskOther \/ Dispatched \/ AskNoClient \/ StartCall \/ Join \/ GiveUp

Next ==
    \/ Event \/ ReadInput \/ ReadOutput
    \/ Engine
    \/ \E i \in DOMAIN calls : Thread(i)

\* The engine's own steps do not stop; the service owes nothing.
Spec == Init /\ [][Next]_vars /\ WF_vars(Engine)

-----------------------------------------------------------------------------
(* Properties *)

InOrder(p, q) ==
    \/ Priority[p] < Priority[q]
    \/ /\ Priority[p] = Priority[q]
       /\ \E i, j \in DOMAIN Registration : i < j /\ Registration[i] = p /\ Registration[j] = q

Ends(answer) == answer.mode = "resolver" /\ answer.answered

\* Handlers are asked in the order of their priority, and of their registration where
\* it is the same; a dispatch that came back asked every handler up to a resolver's
\* answer and none after it, and what it gives to the engine is what they returned
\* (Dispatcher).
AskedInOrder ==
    /\ \A i, j \in DOMAIN asked : i < j =>
         InOrder(asked[i].plugin, asked[j].plugin) /\ ~Ends(asked[i])
    /\ mode = "idle" /\ asked # <<>> =>
         LET answered == {i \in DOMAIN asked : asked[i].answered}
         IN  /\ \/ Ends(asked[Len(asked)])
                \/ {asked[i].plugin : i \in DOMAIN asked} = {p \in Plugins : asked[1].mode \in Handles[p]}
             /\ {gathered[i].by : i \in DOMAIN gathered} = {asked[i].plugin : i \in answered}
             /\ \A i, j \in DOMAIN gathered : i < j =>
                  gathered[i].by = gathered[j].by \/ InOrder(gathered[i].by, gathered[j].by)

\* complete() returns the answer to its own prompt or none, however late the answers
\* of calls given up before come in.
OwnAnswer ==
    \A k \in DOMAIN heard :
        heard[k][2] = IF calls[heard[k][1]].phase = "done" THEN heard[k][1] ELSE 0

Billed == {i \in DOMAIN calls : calls[i].usage}
Heard == {heard[k][1] : k \in DOMAIN heard}

\* The token counts of a report have no response twice, whatever threads that were
\* given up write back meanwhile; they have every response when each was waited for,
\* and are not back at zero when one was (get_stats).  Beside a thread that was given
\* up a response can be lost, because no lock is held.
TokensCounted ==
    mode = "reported" =>
        \A count \in {stats.input, stats.output} :
            /\ count <= Cardinality(Billed)
            /\ Billed \subseteq Heard => count = Cardinality(Billed)
            /\ Billed \cap Heard # {} => count # 0

\* No function is left among the values of a collected input, so it can be sent to
\* the parent process (_sanitize_dict).
CollectedClean ==
    \A i \in DOMAIN gathered :
        gathered[i].by = Llm /\ asked[1].mode = "collector" => ~gathered[i].input.callable

\* Every dispatch comes back, also when the service never answers (the timeout of
\* complete()).
DispatchEnds == Dispatching ~> ~Dispatching

\* An answer in the wrong form leaves the exploration unaffected (LLMPlugin).
MalformedHarmless ==
    mode = "failed" => asked[Len(asked)].plugin # Llm

=============================================================================
