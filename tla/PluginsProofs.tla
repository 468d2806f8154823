--------------------------- MODULE PluginsProofs ---------------------------
(***************************************************************************)
(* Proofs about Plugins: for every set of plugins, every set of replies and *)
(* any number of calls, a call returns its own answer or none, a report     *)
(* counts no response twice and each once when all were waited for, and the *)
(* handlers of a dispatch are asked in order and their answers gathered in  *)
(* it.                                                                      *)
(***************************************************************************)
EXTENDS Plugins, ProofFacts, SequenceTheorems, FiniteSetTheorems

-----------------------------------------------------------------------------
(* The calls of the daemon threads. *)

Texts == Replies \cup {NoText}
Phases == Working \cup {"done", "error"}
Call == [phase : Phases, attempt : Nat, usage : BOOLEAN, loaded : Nat, text : Texts]
Slots == [call : Nat, text : Texts]
Counters == [input : Nat, output : Nat]

Types ==
    /\ calls \in Seq(Call)
    /\ container \in Seq(Slots) /\ Len(container) = Len(calls)
    /\ joining \in 0 .. Len(calls)
    /\ tokens \in Counters /\ stats \in Counters
    /\ heard \in Seq(Nat \X Nat)

(* A call that is over stays as it is, and its slot says how it ended. *)
Ended(i) == calls[i].phase \in {"done", "error"}

SlotsOwn ==
    \A i \in 1 .. Len(calls) :
        container[i].call = IF calls[i].phase = "done" THEN i ELSE 0

HeardEnded == \A k \in DOMAIN heard : heard[k][1] \in DOMAIN calls /\ Ended(heard[k][1])

(* The engine waits for a call only while it asks the LLM plugin. *)
Waiting ==
    joining # 0 => Dispatching /\ client /\ pending # {} /\ Asked = Llm

(* The responses whose tokens were written back, to each of the two counters. *)
InputCounted  == {i \in DOMAIN calls :
                    calls[i].usage /\ calls[i].phase \notin {"received", "adding_input"}}
OutputCounted == {i \in InputCounted : calls[i].phase \notin {"counted", "adding_output"}}

(* No thread holds or writes more than was written back before, or nothing    *)
(* where something was.                                                       *)
Counting ==
    /\ \A i \in DOMAIN calls :
         /\ calls[i].usage => calls[i].phase # "asking"
         /\ calls[i].phase \in {"adding_input", "counted", "adding_output"} => calls[i].usage
         /\ calls[i].phase = "adding_input" => calls[i].loaded <= Cardinality(InputCounted)
         /\ calls[i].phase = "adding_output" => calls[i].loaded <= Cardinality(OutputCounted)
    /\ tokens.input <= Cardinality(InputCounted)
    /\ tokens.output <= Cardinality(OutputCounted)
    /\ InputCounted # {} => tokens.input # 0
    /\ OutputCounted # {} => tokens.output # 0

(* As long as every response came to a call that is or was waited for, one    *)
(* thread at a time adds to the counters.                                     *)
Exact ==
    Billed \subseteq Heard \cup {joining} =>
        /\ tokens.input = Cardinality(InputCounted)
        /\ tokens.output = Cardinality(OutputCounted)
        /\ \A i \in DOMAIN calls :
             /\ calls[i].phase = "adding_input" => calls[i].loaded = tokens.input
             /\ calls[i].phase = "adding_output" => calls[i].loaded = tokens.output

Reported(count) ==
    /\ count <= Cardinality(Billed)
    /\ Billed \subseteq Heard => count = Cardinality(Billed)
    /\ Billed \cap Heard # {} => count # 0

Reports ==
    /\ mode \in {"reading", "reported"} => joining = 0 /\ Reported(stats.input)
    /\ mode = "reported" => Reported(stats.output)

(* Every thread's step changes its own call, and its slot or one counter. *)
Stepped(i) ==
    \/ /\ calls[i].phase = "asking" /\ calls'[i].phase \in {"asking", "error"}
       /\ calls'[i].usage = calls[i].usage
       /\ UNCHANGED <<container, tokens>>
    \/ /\ calls[i].phase = "asking" /\ calls'[i].phase = "received"
       /\ UNCHANGED <<container, tokens>>
    \/ /\ calls[i].phase = "received" /\ calls[i].usage
       /\ calls'[i].phase = "adding_input" /\ calls'[i].usage
       /\ calls'[i].loaded = tokens.input
       /\ UNCHANGED <<container, tokens>>
    \/ /\ calls[i].phase = "adding_input" /\ calls'[i].phase = "counted"
       /\ calls'[i].usage = calls[i].usage
       /\ tokens' = [tokens EXCEPT !.input = calls[i].loaded + 1]
       /\ UNCHANGED container
    \/ /\ calls[i].phase = "counted" /\ calls'[i].phase = "adding_output"
       /\ calls'[i].usage = calls[i].usage
       /\ calls'[i].loaded = tokens.output
       /\ UNCHANGED <<container, tokens>>
    \/ /\ calls[i].phase = "adding_output" /\ calls'[i].phase = "complete"
       /\ calls'[i].usage = calls[i].usage
       /\ tokens' = [tokens EXCEPT !.output = calls[i].loaded + 1]
       /\ UNCHANGED container
    \/ /\ calls[i].phase = "complete" \/ (calls[i].phase = "received" /\ ~calls[i].usage)
       /\ calls'[i].usage = calls[i].usage
       /\ \/ /\ container' = [container EXCEPT ![i] = [call |-> i, text |-> calls[i].text]]
             /\ calls'[i].phase = "done"
          \/ calls'[i].phase = "error" /\ UNCHANGED container
       /\ UNCHANGED tokens

LEMMA ThreadSteps ==
  ASSUME Types, NEW i \in DOMAIN calls, Thread(i)
  PROVE  /\ calls' \in Seq(Call) /\ Len(calls') = Len(calls)
         /\ \A j \in DOMAIN calls : j # i => calls'[j] = calls[j]
         /\ UNCHANGED <<client, engineVars>>
         /\ Stepped(i)
<1>1. calls \in Seq(Call) /\ i \in 1 .. Len(calls) /\ calls[i] \in Call
  BY LenProperties, ElementOfSeq DEF Types
<1>2. ASSUME NEW r \in Call, calls' = [calls EXCEPT ![i] = r]
      PROVE  /\ calls' \in Seq(Call) /\ Len(calls') = Len(calls)
             /\ \A j \in DOMAIN calls : j # i => calls'[j] = calls[j]
             /\ calls'[i] = r
  BY <1>1, <1>2, ExceptSeq, LenProperties
<1>3. CASE AttemptFails(i)
  <2>1. calls[i].phase = "asking" /\ UNCHANGED <<client, engineVars, container, tokens>>
    BY <1>3 DEF AttemptFails
  <2>2. CASE calls[i].attempt = 1
    <3> DEFINE r == [calls[i] EXCEPT !.attempt = 2]
    <3>1. calls' = [calls EXCEPT ![i] = r]
      BY <1>3, <2>2 DEF AttemptFails
    <3>2. r \in Call /\ r.phase = "asking" /\ r.usage = calls[i].usage
      BY <1>1, <2>1 DEF Call
    <3> HIDE DEF r
    <3> QED
      BY <1>2, <2>1, <3>1, <3>2 DEF Stepped
  <2>3. CASE calls[i].attempt # 1
    <3> DEFINE r == [calls[i] EXCEPT !.phase = "error"]
    <3>1. calls' = [calls EXCEPT ![i] = r]
      BY <1>3, <2>3 DEF AttemptFails
    <3>2. r \in Call /\ r.phase = "error" /\ r.usage = calls[i].usage
      BY <1>1 DEF Call, Phases
    <3> HIDE DEF r
    <3> QED
      BY <1>2, <2>1, <3>1, <3>2 DEF Stepped
  <2> QED
    BY <2>2, <2>3
<1>4. CASE Respond(i)
  <2>1. calls[i].phase = "asking" /\ UNCHANGED <<client, engineVars, container, tokens>>
    BY <1>4 DEF Respond
  <2>2. PICK t \in Replies, u \in BOOLEAN :
          calls' = [calls EXCEPT ![i].phase = "received", ![i].text = t, ![i].usage = u]
    BY <1>4 DEF Respond
  <2> DEFINE r == [calls[i] EXCEPT !.phase = "received", !.text = t, !.usage = u]
  <2>3. calls' = [calls EXCEPT ![i] = r]
    BY <1>1, <2>2
  <2>4. r \in Call /\ r.phase = "received"
    BY <1>1 DEF Call, Phases, Working, Texts
  <2> HIDE DEF r
  <2> QED
    BY <1>2, <2>1, <2>3, <2>4 DEF Stepped
<1>5. CASE LoadInput(i)
  <2> DEFINE r == [calls[i] EXCEPT !.phase = "adding_input", !.loaded = tokens.input]
  <2>1. calls[i].phase = "received" /\ calls[i].usage /\ UNCHANGED <<client, engineVars, container, tokens>>
    BY <1>5 DEF LoadInput, Loads
  <2>2. calls' = [calls EXCEPT ![i] = r]
    BY <1>1, <1>5 DEF LoadInput, Loads
  <2>3. r \in Call /\ r.phase = "adding_input" /\ r.usage = calls[i].usage /\ r.loaded = tokens.input
    BY <1>1 DEF Call, Phases, Working, Types, Counters
  <2> HIDE DEF r
  <2> QED
    BY <1>2, <2>1, <2>2, <2>3 DEF Stepped
<1>6. CASE StoreInput(i)
  <2> DEFINE r == [calls[i] EXCEPT !.phase = "counted", !.loaded = 0]
  <2>1. /\ calls[i].phase = "adding_input" /\ UNCHANGED <<client, engineVars, container>>
        /\ tokens' = [tokens EXCEPT !.input = calls[i].loaded + 1]
    BY <1>6 DEF StoreInput, Stores, Added
  <2>2. calls' = [calls EXCEPT ![i] = r]
    BY <1>1, <1>6 DEF StoreInput, Stores
  <2>3. r \in Call /\ r.phase = "counted" /\ r.usage = calls[i].usage
    BY <1>1 DEF Call, Phases, Working
  <2> HIDE DEF r
  <2> QED
    BY <1>2, <2>1, <2>2, <2>3 DEF Stepped
<1>8. CASE LoadOutput(i)
  <2> DEFINE r == [calls[i] EXCEPT !.phase = "adding_output", !.loaded = tokens.output]
  <2>1. calls[i].phase = "counted" /\ UNCHANGED <<client, engineVars, container, tokens>>
    BY <1>8 DEF LoadOutput, Loads
  <2>2. calls' = [calls EXCEPT ![i] = r]
    BY <1>1, <1>8 DEF LoadOutput, Loads
  <2>3. r \in Call /\ r.phase = "adding_output" /\ r.usage = calls[i].usage /\ r.loaded = tokens.output
    BY <1>1 DEF Call, Phases, Working, Types, Counters
  <2> HIDE DEF r
  <2> QED
    BY <1>2, <2>1, <2>2, <2>3 DEF Stepped
<1>9. CASE StoreOutput(i)
  <2> DEFINE r == [calls[i] EXCEPT !.phase = "complete", !.loaded = 0]
  <2>1. /\ calls[i].phase = "adding_output" /\ UNCHANGED <<client, engineVars, container>>
        /\ tokens' = [tokens EXCEPT !.output = calls[i].loaded + 1]
    BY <1>9 DEF StoreOutput, Stores, Added
  <2>2. calls' = [calls EXCEPT ![i] = r]
    BY <1>1, <1>9 DEF StoreOutput, Stores
  <2>3. r \in Call /\ r.phase = "complete" /\ r.usage = calls[i].usage
    BY <1>1 DEF Call, Phases, Working
  <2> HIDE DEF r
  <2> QED
    BY <1>2, <2>1, <2>2, <2>3 DEF Stepped
<1>7. CASE Deliver(i)
  <2>1. /\ calls[i].phase = "complete" \/ (calls[i].phase = "received" /\ ~calls[i].usage)
        /\ UNCHANGED <<client, engineVars, tokens>>
    BY <1>7 DEF Deliver
  <2>2. CASE /\ container' = [container EXCEPT ![i] = [call |-> i, text |-> calls[i].text]]
             /\ Moved(i, "done")
    <3> DEFINE r == [calls[i] EXCEPT !.phase = "done"]
    <3>1. calls' = [calls EXCEPT ![i] = r]
      BY <2>2 DEF Moved
    <3>2. r \in Call /\ r.phase = "done" /\ r.usage = calls[i].usage
      BY <1>1 DEF Call, Phases
    <3> HIDE DEF r
    <3> QED
      BY <1>2, <2>1, <2>2, <3>1, <3>2 DEF Stepped
  <2>3. CASE Moved(i, "error") /\ UNCHANGED container
    <3> DEFINE r == [calls[i] EXCEPT !.phase = "error"]
    <3>1. calls' = [calls EXCEPT ![i] = r]
      BY <2>3 DEF Moved
    <3>2. r \in Call /\ r.phase = "error" /\ r.usage = calls[i].usage
      BY <1>1 DEF Call, Phases
    <3> HIDE DEF r
    <3> QED
      BY <1>2, <2>1, <2>3, <3>1, <3>2 DEF Stepped
  <2> QED
    BY <1>7, <2>2, <2>3 DEF Deliver, Slot
<1> QED
  BY <1>3, <1>4, <1>5, <1>6, <1>7, <1>8, <1>9, Zenon DEF Thread

(* The inductive invariant. *)
Safe == Types /\ SlotsOwn /\ HeardEnded /\ OwnAnswer /\ Waiting /\ Counting /\ Exact /\ Reports

(* The calls, and those that a report is about, are finitely many. *)
LEMMA Finite ==
  ASSUME Types
  PROVE  /\ DOMAIN calls = 1 .. Len(calls) /\ Len(calls) \in Nat /\ IsFiniteSet(DOMAIN calls)
         /\ \A i \in DOMAIN calls : calls[i] \in Call
         /\ \A S \in SUBSET DOMAIN calls :
              IsFiniteSet(S) /\ Cardinality(S) \in Nat
<1>1. calls \in Seq(Call)
  BY DEF Types
<1>2. DOMAIN calls = 1 .. Len(calls) /\ Len(calls) \in Nat
  BY <1>1, LenProperties
<1>3. \A i \in DOMAIN calls : calls[i] \in Call
  BY <1>1, <1>2, ElementOfSeq
<1>4. IsFiniteSet(1 .. Len(calls))
  <2>1. 1 \in Int /\ Len(calls) \in Int
    BY <1>2
  <2> QED
    BY <2>1, FS_Interval, Zenon
<1>5. \A S \in SUBSET (1 .. Len(calls)) : IsFiniteSet(S) /\ Cardinality(S) \in Nat
  BY <1>4, FS_Subset, FS_CardinalityType, Zenon
<1> QED
  BY <1>2, <1>3, <1>4, <1>5, Zenon

(* One more call in a set of calls. *)
LEMMA OneMore ==
  ASSUME Types, NEW S \in SUBSET DOMAIN calls, NEW i \in DOMAIN calls, i \notin S
  PROVE  Cardinality(S \cup {i}) = Cardinality(S) + 1
<1>1. IsFiniteSet(S)
  BY Finite, Zenon
<1> QED
  BY <1>1, FS_AddElement, Zenon

(* Sets of calls and their parts are counted. *)
LEMMA Larger ==
  ASSUME Types, NEW S \in SUBSET DOMAIN calls, NEW T \in SUBSET S
  PROVE  Cardinality(T) \in Nat /\ Cardinality(S) \in Nat /\ Cardinality(T) <= Cardinality(S)
<1>1. IsFiniteSet(S) /\ Cardinality(S) \in Nat /\ Cardinality(T) \in Nat
  BY Finite, Zenon
<1> QED
  BY <1>1, FS_Subset, Zenon

(* The counters of a moment in which no call is waited for make a report.     *)
LEMMA CountsReport ==
  ASSUME Types, HeardEnded, Counting, Exact, joining = 0
  PROVE  Reported(tokens.input) /\ Reported(tokens.output)
<1>1. DOMAIN calls = 1 .. Len(calls) /\ Len(calls) \in Nat
  BY Finite
<1>2. \A i \in Heard : i \in DOMAIN calls /\ Ended(i)
  BY DEF Heard, HeardEnded
<1>3. /\ Billed \subseteq DOMAIN calls
      /\ InputCounted \subseteq Billed /\ Billed \cap Heard \subseteq InputCounted
      /\ OutputCounted \subseteq Billed /\ Billed \cap Heard \subseteq OutputCounted
  BY <1>2 DEF InputCounted, OutputCounted, Billed, Ended
<1>4. /\ Cardinality(InputCounted) <= Cardinality(Billed)
      /\ Cardinality(OutputCounted) <= Cardinality(Billed)
      /\ Cardinality(InputCounted) \in Nat /\ Cardinality(OutputCounted) \in Nat
      /\ Cardinality(Billed) \in Nat
  BY <1>3, Larger
<1>5. tokens.input \in Nat /\ tokens.output \in Nat
  BY DEF Types, Counters
<1>6. tokens.input <= Cardinality(Billed) /\ tokens.output <= Cardinality(Billed)
  BY <1>4, <1>5 DEF Counting
<1>7. ASSUME Billed \subseteq Heard
      PROVE  tokens.input = Cardinality(Billed) /\ tokens.output = Cardinality(Billed)
  <2>1. InputCounted = Billed /\ OutputCounted = Billed
    BY <1>3, <1>7
  <2> QED
    BY <1>7, <2>1 DEF Exact
<1>8. Billed \cap Heard # {} => tokens.input # 0 /\ tokens.output # 0
  BY <1>3 DEF Counting
<1> QED
  BY <1>6, <1>7, <1>8 DEF Reported

(* What a thread's step does to the counters. *)
LEMMA CountsKept ==
  ASSUME Types, HeardEnded, Counting, Exact, NEW i \in DOMAIN calls,
         calls' \in Seq(Call), DOMAIN calls' = DOMAIN calls,
         \A j \in DOMAIN calls : j # i => calls'[j] = calls[j],
         UNCHANGED <<joining, heard>>, Stepped(i)
  PROVE  Counting' /\ Exact'
<1>1. /\ tokens \in Counters /\ tokens.input \in Nat /\ tokens.output \in Nat
      /\ \A j \in DOMAIN calls : calls[j] \in Call /\ calls[j].loaded \in Nat
  BY Finite DEF Types, Counters, Call
<1>2. \A j \in DOMAIN calls : j # i =>
         /\ (j \in InputCounted') <=> (j \in InputCounted)
         /\ (j \in OutputCounted') <=> (j \in OutputCounted)
  BY DEF InputCounted, OutputCounted
<1>3. /\ InputCounted \subseteq DOMAIN calls /\ InputCounted' \subseteq DOMAIN calls
      /\ OutputCounted \subseteq DOMAIN calls /\ OutputCounted' \subseteq DOMAIN calls
  BY DEF InputCounted, OutputCounted
<1>10. /\ i \in InputCounted' => InputCounted' = InputCounted \cup {i}
       /\ i \in OutputCounted' => OutputCounted' = OutputCounted \cup {i}
       /\ ((i \in InputCounted') <=> (i \in InputCounted)) => InputCounted' = InputCounted
       /\ ((i \in OutputCounted') <=> (i \in OutputCounted)) => OutputCounted' = OutputCounted
  <2> DEFINE in == InputCounted
             inNext == InputCounted'
             out == OutputCounted
             outNext == OutputCounted'
  <2>1. /\ in \subseteq DOMAIN calls /\ inNext \subseteq DOMAIN calls
        /\ out \subseteq DOMAIN calls /\ outNext \subseteq DOMAIN calls
    BY <1>3
  <2>2. \A j \in DOMAIN calls : j # i =>
          ((j \in inNext) <=> (j \in in)) /\ ((j \in outNext) <=> (j \in out))
    BY <1>2
  <2> HIDE DEF in, inNext, out, outNext
  <2>3. /\ i \in inNext => inNext = in \cup {i}
        /\ ((i \in inNext) <=> (i \in in)) => inNext = in
    <3>1. \A x : x # i => (x \in inNext <=> x \in in)
      BY <2>1, <2>2
    <3>2. ASSUME i \in inNext
          PROVE  \A x : x \in inNext <=> x \in in \cup {i}
      BY <3>1, <3>2
    <3>3. ASSUME (i \in inNext) <=> (i \in in)
          PROVE  \A x : x \in inNext <=> x \in in
      BY <3>1, <3>3
    <3> QED
      BY <3>2, <3>3, Zenon
  <2>4. /\ i \in outNext => outNext = out \cup {i}
        /\ ((i \in outNext) <=> (i \in out)) => outNext = out
    <3>1. \A x : x # i => (x \in outNext <=> x \in out)
      BY <2>1, <2>2
    <3>2. ASSUME i \in outNext
          PROVE  \A x : x \in outNext <=> x \in out \cup {i}
      BY <3>1, <3>2
    <3>3. ASSUME (i \in outNext) <=> (i \in out)
          PROVE  \A x : x \in outNext <=> x \in out
      BY <3>1, <3>3
    <3> QED
      BY <3>2, <3>3, Zenon
  <2> QED
    BY <2>3, <2>4 DEF in, inNext, out, outNext
<1>4. Cardinality(InputCounted) \in Nat /\ Cardinality(OutputCounted) \in Nat
  BY <1>3, Larger
<1>5. Billed \subseteq Billed' /\ Heard' = Heard
  <2>1. calls[i].usage => calls'[i].usage
    BY DEF Stepped, Counting
  <2> QED
    BY <2>1 DEF Billed, Heard
(* Where every response was waited for, the thread that is adding is the one  *)
(* the engine waits for.                                                      *)
<1>6. ASSUME Billed \subseteq Heard \cup {joining}, NEW j \in DOMAIN calls,
             calls[j].phase \in {"adding_input", "counted", "adding_output"}
      PROVE  j = joining
  <2>1. j \in Billed
    BY <1>6 DEF Billed, Counting
  <2>2. ~Ended(j)
    BY <1>6 DEF Ended
  <2>3. j \notin Heard
    BY <2>2 DEF Heard, HeardEnded
  <2> QED
    BY <1>6, <2>1, <2>3
<1>7. CASE calls[i].phase = "adding_input"
  <2>1. /\ calls'[i].phase = "counted" /\ calls'[i].usage /\ calls[i].usage
        /\ tokens'.input = calls[i].loaded + 1 /\ tokens'.output = tokens.output
    BY <1>1, <1>7 DEF Stepped, Counting, Counters
  <2>2. /\ i \notin InputCounted /\ i \in InputCounted'
        /\ i \notin OutputCounted /\ i \notin OutputCounted'
    BY <1>7, <2>1 DEF InputCounted, OutputCounted
  <2>3. InputCounted' = InputCounted \cup {i} /\ OutputCounted' = OutputCounted
    BY <1>10, <2>2, Zenon
  <2>4. Cardinality(InputCounted') = Cardinality(InputCounted) + 1
    BY <1>3, <2>2, <2>3, OneMore, Zenon
  <2>5. calls[i].loaded <= Cardinality(InputCounted) /\ calls[i].loaded \in Nat
    BY <1>1, <1>7 DEF Counting
  <2>6. Counting'
    <3>1. ASSUME NEW j \in DOMAIN calls'
          PROVE  /\ calls'[j].usage => calls'[j].phase # "asking"
                 /\ calls'[j].phase \in {"adding_input", "counted", "adding_output"}
                       => calls'[j].usage
                 /\ calls'[j].phase = "adding_input"
                       => calls'[j].loaded <= Cardinality(InputCounted')
                 /\ calls'[j].phase = "adding_output"
                       => calls'[j].loaded <= Cardinality(OutputCounted')
      <4>1. CASE j = i
        BY <2>1, <4>1
      <4>2. CASE j # i
        BY <1>1, <1>4, <2>3, <2>4, <4>2 DEF Counting
      <4> QED
        BY <4>1, <4>2
    <3>2. tokens'.input <= Cardinality(InputCounted') /\ tokens'.input # 0
      BY <1>4, <2>1, <2>4, <2>5
    <3>3. tokens'.output <= Cardinality(OutputCounted') /\ (OutputCounted' # {} => tokens'.output # 0)
      BY <2>1, <2>3 DEF Counting
    <3> QED
      BY <3>1, <3>2, <3>3, Zenon DEF Counting
  <2>7. Exact'
    <3> SUFFICES ASSUME Billed' \subseteq Heard' \cup {joining'}
                 PROVE  /\ tokens'.input = Cardinality(InputCounted')
                        /\ tokens'.output = Cardinality(OutputCounted')
                        /\ \A j \in DOMAIN calls' :
                             /\ calls'[j].phase = "adding_input" => calls'[j].loaded = tokens'.input
                             /\ calls'[j].phase = "adding_output" => calls'[j].loaded = tokens'.output
      BY Zenon DEF Exact
    <3>1. Billed \subseteq Heard \cup {joining}
      BY <1>5
    <3>2. calls[i].loaded = tokens.input /\ tokens.input = Cardinality(InputCounted)
          /\ tokens.output = Cardinality(OutputCounted)
      BY <1>7, <3>1 DEF Exact
    <3>3. \A j \in DOMAIN calls' : calls'[j].phase \notin {"adding_input", "adding_output"}
      BY <1>6, <1>7, <2>1, <3>1
    <3> QED
      BY <2>1, <2>3, <2>4, <3>2, <3>3
  <2> QED
    BY <2>6, <2>7
<1>8. CASE calls[i].phase = "adding_output"
  <2>1. /\ calls'[i].phase = "complete" /\ calls'[i].usage /\ calls[i].usage
        /\ tokens'.output = calls[i].loaded + 1 /\ tokens'.input = tokens.input
    BY <1>1, <1>8 DEF Stepped, Counting, Counters
  <2>2. /\ i \in InputCounted /\ i \in InputCounted'
        /\ i \notin OutputCounted /\ i \in OutputCounted'
    BY <1>8, <2>1 DEF InputCounted, OutputCounted
  <2>3. OutputCounted' = OutputCounted \cup {i} /\ InputCounted' = InputCounted
    BY <1>10, <2>2, Zenon
  <2>4. Cardinality(OutputCounted') = Cardinality(OutputCounted) + 1
    BY <1>3, <2>2, <2>3, OneMore, Zenon
  <2>5. calls[i].loaded <= Cardinality(OutputCounted) /\ calls[i].loaded \in Nat
    BY <1>1, <1>8 DEF Counting
  <2>6. Counting'
    <3>1. ASSUME NEW j \in DOMAIN calls'
          PROVE  /\ calls'[j].usage => calls'[j].phase # "asking"
                 /\ calls'[j].phase \in {"adding_input", "counted", "adding_output"}
                       => calls'[j].usage
                 /\ calls'[j].phase = "adding_input"
                       => calls'[j].loaded <= Cardinality(InputCounted')
                 /\ calls'[j].phase = "adding_output"
                       => calls'[j].loaded <= Cardinality(OutputCounted')
      <4>1. CASE j = i
        BY <2>1, <4>1
      <4>2. CASE j # i
        BY <1>1, <1>4, <2>3, <2>4, <4>2 DEF Counting
      <4> QED
        BY <4>1, <4>2
    <3>2. tokens'.output <= Cardinality(OutputCounted') /\ tokens'.output # 0
      BY <1>4, <2>1, <2>4, <2>5
    <3>3. tokens'.input <= Cardinality(InputCounted') /\ (InputCounted' # {} => tokens'.input # 0)
      BY <2>1, <2>3 DEF Counting
    <3> QED
      BY <3>1, <3>2, <3>3, Zenon DEF Counting
  <2>7. Exact'
    <3> SUFFICES ASSUME Billed' \subseteq Heard' \cup {joining'}
                 PROVE  /\ tokens'.input = Cardinality(InputCounted')
                        /\ tokens'.output = Cardinality(OutputCounted')
                        /\ \A j \in DOMAIN calls' :
                             /\ calls'[j].phase = "adding_input" => calls'[j].loaded = tokens'.input
                             /\ calls'[j].phase = "adding_output" => calls'[j].loaded = tokens'.output
      BY Zenon DEF Exact
    <3>1. Billed \subseteq Heard \cup {joining}
      BY <1>5
    <3>2. calls[i].loaded = tokens.output /\ tokens.input = Cardinality(InputCounted)
          /\ tokens.output = Cardinality(OutputCounted)
      BY <1>8, <3>1 DEF Exact
    <3>3. \A j \in DOMAIN calls' : calls'[j].phase \notin {"adding_input", "adding_output"}
      BY <1>6, <1>8, <2>1, <3>1
    <3> QED
      BY <2>1, <2>3, <2>4, <3>2, <3>3
  <2> QED
    BY <2>6, <2>7
<1>9. CASE calls[i].phase \notin {"adding_input", "adding_output"}
  <2>1. /\ tokens' = tokens
        /\ (i \in InputCounted') <=> (i \in InputCounted)
        /\ (i \in OutputCounted') <=> (i \in OutputCounted)
    BY <1>9 DEF Stepped, Counting, InputCounted, OutputCounted
  <2>2. InputCounted' = InputCounted /\ OutputCounted' = OutputCounted
    BY <1>10, <2>1, Zenon
  <2>3. /\ calls'[i].usage => calls'[i].phase # "asking"
        /\ calls'[i].phase \in {"adding_input", "counted", "adding_output"} => calls'[i].usage
        /\ calls'[i].phase = "adding_input" => calls'[i].loaded = tokens.input
        /\ calls'[i].phase = "adding_output" => calls'[i].loaded = tokens.output
    BY <1>9 DEF Stepped, Counting
  <2>4. Counting'
    BY <1>1, <2>1, <2>2, <2>3 DEF Counting
  <2>5. Exact'
    BY <1>5, <2>1, <2>2, <2>3 DEF Exact
  <2> QED
    BY <2>4, <2>5
<1> QED
  BY <1>7, <1>8, <1>9

(* A step of a thread. *)
LEMMA ThreadSafe ==
  ASSUME Safe, NEW i \in DOMAIN calls, Thread(i)
  PROVE  Safe'
<1>0. Types /\ SlotsOwn /\ HeardEnded /\ OwnAnswer /\ Waiting /\ Counting /\ Exact /\ Reports
  BY Zenon DEF Safe
<1>1. /\ calls' \in Seq(Call) /\ Len(calls') = Len(calls)
      /\ \A j \in DOMAIN calls : j # i => calls'[j] = calls[j]
      /\ UNCHANGED <<client, engineVars>>
      /\ Stepped(i)
  BY <1>0, ThreadSteps, Zenon
<1>2. /\ UNCHANGED <<client, mode, pending, joining, stats, heard>>
  BY <1>1 DEF engineVars
<1>3. /\ DOMAIN calls = 1 .. Len(calls) /\ DOMAIN calls' = DOMAIN calls /\ Len(calls) \in Nat
      /\ \A j \in DOMAIN calls : calls[j] \in Call
      /\ container \in Seq(Slots) /\ Len(container) = Len(calls) /\ tokens \in Counters
      /\ calls'[i] \in Call
  <2>1. DOMAIN calls' = 1 .. Len(calls') /\ DOMAIN calls = 1 .. Len(calls)
    BY <1>0, <1>1, Finite, LenProperties
  <2>2. calls'[i] \in Call
    BY <1>1, <2>1, ElementOfSeq
  <2> QED
    BY <1>0, <1>1, <2>1, <2>2, Finite DEF Types
<1>4. /\ container' \in Seq(Slots) /\ Len(container') = Len(container)
      /\ \A j \in DOMAIN calls : j # i => container'[j] = container[j]
      /\ container'[i].call = IF calls'[i].phase = "done" THEN i ELSE container[i].call
  <2> DEFINE r == [call |-> i, text |-> calls[i].text]
  <2>1. r \in Slots /\ r.call = i
    BY <1>3 DEF Slots, Call
  <2> HIDE DEF r
  <2>2. CASE container' = [container EXCEPT ![i] = r] /\ calls'[i].phase = "done"
    BY <1>3, <2>1, <2>2, ExceptSeq
  <2>3. CASE container' = container /\ calls'[i].phase # "done"
    BY <1>3, <2>3
  <2>4. \/ container' = [container EXCEPT ![i] = r] /\ calls'[i].phase = "done"
        \/ container' = container /\ calls'[i].phase # "done"
    BY <1>1 DEF Stepped, r
  <2> QED
    BY <2>2, <2>3, <2>4
<1>5. ~Ended(i)
  BY <1>1 DEF Stepped, Ended
<1>6. Types'
  <2>1. tokens' \in Counters
    BY <1>1, <1>3 DEF Stepped, Counters, Call
  <2>2. joining' \in 0 .. Len(calls') /\ stats' \in Counters /\ heard' \in Seq(Nat \X Nat)
    BY <1>0, <1>1, <1>2 DEF Types
  <2> QED
    BY <1>1, <1>3, <1>4, <2>1, <2>2 DEF Types
<1>7. SlotsOwn'
  <2>1. ASSUME NEW j \in DOMAIN calls
        PROVE  container'[j].call = IF calls'[j].phase = "done" THEN j ELSE 0
    <3>1. CASE j = i
      <4>1. container[i].call = 0
        <5>1. i \in 1 .. Len(calls) /\ calls[i].phase # "done"
          BY <1>3, <1>5, Zenon DEF Ended
        <5>2. container[i].call = IF calls[i].phase = "done" THEN i ELSE 0
          BY <1>0, <5>1, Zenon DEF SlotsOwn
        <5> QED
          BY <5>1, <5>2, Zenon
      <4>2. container'[i].call = IF calls'[i].phase = "done" THEN i ELSE container[i].call
        BY <1>4, Zenon
      <4>3. container'[i].call = IF calls'[i].phase = "done" THEN i ELSE 0
        BY <4>1, <4>2, Zenon
      <4> QED
        BY <3>1, <4>3, Zenon
    <3>2. CASE j # i
      BY <1>0, <1>1, <1>3, <1>4, <2>1, <3>2 DEF SlotsOwn
    <3> QED
      BY <3>1, <3>2
  <2> QED
    BY <1>1, <1>3, <2>1, Zenon DEF SlotsOwn
<1>8. \A k \in DOMAIN heard :
        heard[k][1] \in DOMAIN calls /\ Ended(heard[k][1]) /\ heard[k][1] # i
        /\ calls'[heard[k][1]] = calls[heard[k][1]]
  BY <1>0, <1>1, <1>5, Zenon DEF HeardEnded
<1>9. HeardEnded'
  BY <1>2, <1>3, <1>8, Zenon DEF HeardEnded, Ended
<1>10. OwnAnswer'
  BY <1>0, <1>2, <1>8 DEF OwnAnswer
<1>11. Waiting'
  BY <1>0, <1>2 DEF Waiting, Dispatching, Asked
<1>16. Counting' /\ Exact'
  BY <1>0, <1>1, <1>2, <1>3, CountsKept, Zenon
<1>17. Reports'
  <2>1. Billed \subseteq Billed' /\ Billed' \subseteq DOMAIN calls /\ Billed \subseteq DOMAIN calls
    <3>1. calls[i].usage => calls'[i].usage
      BY <1>0, <1>1 DEF Stepped, Counting
    <3> QED
      BY <1>1, <1>3, <3>1 DEF Billed
  <2>2. Heard' = Heard
    BY <1>2 DEF Heard
  <2>3. \A j \in Heard : j \in DOMAIN calls /\ j # i
    BY <1>8 DEF Heard
  <2>4. Billed' \cap Heard' = Billed \cap Heard
    BY <1>1, <1>3, <2>2, <2>3 DEF Billed
  <2>5. Cardinality(Billed) <= Cardinality(Billed')
    <3>1. IsFiniteSet(Billed')
      BY <1>0, <2>1, Finite, Zenon
    <3> QED
      BY <2>1, <3>1, FS_Subset, Zenon
  <2>6. Cardinality(Billed) \in Nat /\ Cardinality(Billed') \in Nat
    BY <1>0, <2>1, Finite, Zenon
  <2>7. ASSUME NEW count \in Nat, Reported(count)
        PROVE  /\ count <= Cardinality(Billed')
               /\ Billed' \subseteq Heard' => count = Cardinality(Billed')
               /\ Billed' \cap Heard' # {} => count # 0
    <3>1. count <= Cardinality(Billed')
      BY <2>5, <2>6, <2>7 DEF Reported
    <3>2. ASSUME Billed' \subseteq Heard'
          PROVE  Billed' = Billed /\ Billed \subseteq Heard
      BY <2>1, <2>2, <2>4, <3>2
    <3> QED
      BY <2>4, <2>7, <3>1, <3>2 DEF Reported
  <2>8. stats.input \in Nat /\ stats.output \in Nat
    BY <1>0 DEF Types, Counters
  <2>9. mode \in {"reading", "reported"} => joining = 0 /\ Reported(stats.input)
    BY <1>0, Zenon DEF Reports
  <2>10. mode = "reported" => Reported(stats.output)
    BY <1>0, Zenon DEF Reports
  <2> QED
    BY <1>2, <2>7, <2>8, <2>9, <2>10, Zenon DEF Reports, Reported
<1> QED
  BY <1>6, <1>7, <1>9, <1>10, <1>11, <1>16, <1>17, Zenon DEF Safe

(* The engine's steps between two calls. *)
LEMMA DispatchSafe ==
  ASSUME Safe, PluginsAssumption, Event \/ AskOther \/ Dispatched \/ AskNoClient
  PROVE  Safe'
<1>0. Types /\ SlotsOwn /\ HeardEnded /\ OwnAnswer /\ Waiting /\ Counting /\ Exact /\ Reports
  BY Zenon DEF Safe
<1>1. UNCHANGED <<client, calls, container, tokens, joining, stats, heard>>
  BY DEF Event, AskOther, Dispatched, AskNoClient, threadVars
<1>2. joining = 0
  <2>1. CASE joining # 0
    <3>1. Dispatching /\ client /\ pending # {} /\ Asked = Llm
      BY <1>0, <2>1, Zenon DEF Waiting
    <3>2. mode # "idle"
      BY <3>1 DEF Dispatching, Modes
    <3>3. Llm \notin Others
      BY Zenon DEF PluginsAssumption
    <3> QED
      BY <3>1, <3>2, <3>3, Zenon DEF Event, AskOther, Dispatched, AskNoClient
  <2> QED
    BY <2>1
<1>3. mode' \notin {"reading", "reported"}
  BY DEF Event, AskOther, Dispatched, AskNoClient, Returned, Raised, Dispatching, Modes
<1>4. Types' /\ SlotsOwn' /\ HeardEnded' /\ OwnAnswer'
  BY <1>0, <1>1 DEF Types, SlotsOwn, HeardEnded, Ended, OwnAnswer
<1>5. Counting' /\ Exact'
  BY <1>0, <1>1 DEF Counting, Exact, InputCounted, OutputCounted, Billed, Heard
<1>6. Waiting' /\ Reports'
  BY <1>1, <1>2, <1>3 DEF Waiting, Reports
<1> QED
  BY <1>4, <1>5, <1>6, Zenon DEF Safe

(* A call starts: its slot is empty, and it is not waited for yet. *)
LEMMA StartSafe == ASSUME Safe, StartCall PROVE Safe'
<1>0. Types /\ SlotsOwn /\ HeardEnded /\ OwnAnswer /\ Waiting /\ Counting /\ Exact /\ Reports
  BY Zenon DEF Safe
<1> DEFINE call == [phase |-> "asking", attempt |-> 1, usage |-> FALSE,
                    loaded |-> 0, text |-> NoText]
           slot == [call |-> 0, text |-> NoText]
           n == Len(calls) + 1
<1>1. /\ calls' = Append(calls, call) /\ joining' = n
      /\ Dispatching /\ client /\ pending # {} /\ Asked = Llm
      /\ UNCHANGED <<client, mode, pending, tokens, stats, heard>>
  BY DEF StartCall
<1>2. /\ calls \in Seq(Call) /\ container \in Seq(Slots) /\ Len(container) = Len(calls)
      /\ Len(calls) \in Nat /\ DOMAIN calls = 1 .. Len(calls)
      /\ DOMAIN container = 1 .. Len(calls)
  BY <1>0, Finite, LenProperties DEF Types
<1>3. container' = Append(container, slot)
  <2>1. n \notin DOMAIN container
    BY <1>2
  <2> QED
    BY <1>1, <2>1 DEF StartCall, Slot
<1>4. call \in Call /\ slot \in Slots /\ call.phase = "asking" /\ ~call.usage /\ slot.call = 0
  BY DEF Call, Phases, Working, Texts, Slots
<1> HIDE DEF call, slot
<1>5. /\ calls' \in Seq(Call) /\ Len(calls') = n /\ calls'[n] = call
      /\ \A i \in 1 .. Len(calls) : calls'[i] = calls[i]
      /\ container' \in Seq(Slots) /\ Len(container') = n /\ container'[n] = slot
      /\ \A i \in 1 .. Len(calls) : container'[i] = container[i]
      /\ DOMAIN calls' = 1 .. n
  BY <1>1, <1>2, <1>3, <1>4, AppendProperties, LenProperties
<1>6. /\ n \notin DOMAIN calls /\ \A i \in 1 .. n : i \in DOMAIN calls \/ i = n
      /\ n \in 1 .. n /\ DOMAIN calls \subseteq 1 .. n /\ n # 0 /\ n \in 0 .. n
  BY <1>2
<1> HIDE DEF n
<1>7. Types'
  BY <1>0, <1>1, <1>5, <1>6 DEF Types
<1>8. SlotsOwn'
  BY <1>0, <1>2, <1>4, <1>5, <1>6 DEF SlotsOwn
<1>9. HeardEnded' /\ OwnAnswer'
  <2>1. \A k \in DOMAIN heard : heard[k][1] \in DOMAIN calls /\ Ended(heard[k][1])
    BY <1>0, Zenon DEF HeardEnded
  <2>2. \A k \in DOMAIN heard : calls'[heard[k][1]] = calls[heard[k][1]] /\ heard[k][1] \in 1 .. n
    BY <1>2, <1>5, <1>6, <2>1
  <2>3. HeardEnded'
    BY <1>1, <1>5, <2>1, <2>2, Zenon DEF HeardEnded, Ended
  <2>4. OwnAnswer'
    BY <1>0, <1>1, <2>2 DEF OwnAnswer
  <2> QED
    BY <2>3, <2>4
<1>10. Waiting'
  BY <1>1 DEF Waiting, Dispatching, Asked
<1>11. InputCounted' = InputCounted /\ OutputCounted' = OutputCounted
  BY <1>2, <1>4, <1>5, <1>6 DEF InputCounted, OutputCounted
<1>12. Counting'
  <2>1. \A i \in DOMAIN calls' : (i \in DOMAIN calls /\ calls'[i] = calls[i]) \/ calls'[i] = call
    BY <1>2, <1>5, <1>6
  <2> QED
    BY <1>0, <1>1, <1>4, <1>11, <2>1 DEF Counting
<1>14. Exact'
  <2>1. \A i \in DOMAIN calls' : (i \in DOMAIN calls /\ calls'[i] = calls[i]) \/ calls'[i] = call
    BY <1>2, <1>5, <1>6
  <2>2. Billed' = Billed /\ Heard' = Heard /\ n \notin Billed
    BY <1>1, <1>2, <1>4, <1>5, <1>6 DEF Billed, Heard
  <2>3. Billed' \subseteq Heard' \cup {joining'} => Billed \subseteq Heard \cup {joining}
    BY <1>1, <2>2
  <2> QED
    BY <1>0, <1>1, <1>4, <1>11, <2>1, <2>3 DEF Exact
<1>13. Reports'
  BY <1>1 DEF Reports, Dispatching, Modes
<1> QED
  BY <1>7, <1>8, <1>9, <1>10, <1>12, <1>13, <1>14, Zenon DEF Safe

(* The call is over, or is given up. *)
LEMMA JoinSafe == ASSUME Safe, Join \/ GiveUp PROVE Safe'
<1>0. Types /\ SlotsOwn /\ HeardEnded /\ OwnAnswer /\ Waiting /\ Counting /\ Exact /\ Reports
  BY Zenon DEF Safe
<1>1. joining # 0 /\ joining' = 0 /\ UNCHANGED <<client, calls, container, tokens, stats>>
  BY DEF Join, GiveUp, threadVars
<1>2. Dispatching
  BY <1>0, <1>1, Zenon DEF Waiting
<1>3. mode' \notin {"reading", "reported"}
  <2>1. mode' = mode \/ mode' = "failed"
    BY DEF Join, GiveUp, Completed, Returned, Raised
  <2> QED
    BY <1>2, <2>1 DEF Dispatching, Modes
<1>4. Waiting' /\ Reports'
  BY <1>1, <1>3 DEF Waiting, Reports
<1>5. Counting' /\ SlotsOwn'
  BY <1>0, <1>1 DEF Counting, InputCounted, OutputCounted, SlotsOwn
<1>8. ASSUME Heard' \cup {joining'} \subseteq Heard \cup {joining} \cup {0}
      PROVE  Exact'
  <2>1. Billed' = Billed /\ 0 \notin Billed
    BY <1>0, <1>1, Finite DEF Billed
  <2>2. Billed' \subseteq Heard' \cup {joining'} => Billed \subseteq Heard \cup {joining}
    BY <1>8, <2>1
  <2> QED
    BY <1>0, <1>1, <2>2 DEF Exact, InputCounted, OutputCounted
<1>6. CASE GiveUp
  <2>1. heard' = heard
    BY <1>6 DEF GiveUp
  <2>3. Exact'
    BY <1>1, <1>8, <2>1 DEF Heard
  <2>2. Types' /\ HeardEnded' /\ OwnAnswer'
    BY <1>0, <1>1, <2>1 DEF Types, HeardEnded, Ended, OwnAnswer
  <2> QED
    BY <1>4, <1>5, <2>2, <2>3, Zenon DEF Safe
<1>7. CASE Join
  <2> DEFINE c == container[joining].call
             e == <<joining, c>>
  <2>1. heard' = Append(heard, e) /\ calls[joining].phase \notin Working
    BY <1>7 DEF Join, Slot
  <2>2. joining \in DOMAIN calls /\ joining \in Nat /\ calls[joining] \in Call
        /\ heard \in Seq(Nat \X Nat)
    BY <1>0, <1>1, Finite DEF Types
  <2>3. Ended(joining)
    BY <2>1, <2>2 DEF Ended, Call, Phases
  <2>4. c = IF calls[joining].phase = "done" THEN joining ELSE 0
    BY <1>0, <2>2, Finite DEF SlotsOwn
  <2>5. c \in Nat
    BY <2>2, <2>4
  <2> HIDE DEF c
  <2>6. e \in Nat \X Nat /\ e[1] = joining /\ e[2] = c
    BY <2>2, <2>5
  <2> HIDE DEF e
  <2>7. /\ heard' \in Seq(Nat \X Nat) /\ DOMAIN heard' = 1 .. Len(heard) + 1
        /\ DOMAIN heard = 1 .. Len(heard) /\ Len(heard) \in Nat
        /\ \A k \in 1 .. Len(heard) : heard'[k] = heard[k]
        /\ heard'[Len(heard) + 1] = e
    BY <2>1, <2>2, <2>6, AppendProperties, LenProperties
  <2>8. \A k \in DOMAIN heard' : (k \in DOMAIN heard /\ heard'[k] = heard[k]) \/ heard'[k] = e
    BY <2>7
  <2>9. Types'
    BY <1>0, <1>1, <2>7 DEF Types
  <2>10. ASSUME NEW k \in DOMAIN heard'
         PROVE  /\ heard'[k][1] \in DOMAIN calls /\ Ended(heard'[k][1])
                /\ heard'[k][2] = IF calls[heard'[k][1]].phase = "done" THEN heard'[k][1] ELSE 0
    <3>1. CASE k \in DOMAIN heard /\ heard'[k] = heard[k]
      BY <1>0, <3>1 DEF HeardEnded, OwnAnswer
    <3>2. CASE heard'[k] = e
      BY <2>2, <2>3, <2>4, <2>6, <3>2
    <3> QED
      BY <2>8, <3>1, <3>2
  <2>11. HeardEnded' /\ OwnAnswer'
    BY <1>1, <2>10 DEF HeardEnded, Ended, OwnAnswer
  <2>12. Exact'
    <3>1. Heard' \subseteq Heard \cup {joining}
      BY <2>6, <2>8 DEF Heard
    <3> QED
      BY <1>1, <1>8, <3>1
  <2> QED
    BY <1>4, <1>5, <2>9, <2>11, <2>12, Zenon DEF Safe
<1> QED
  BY <1>6, <1>7

(* A report. *)
LEMMA ReportSafe == ASSUME Safe, ReadInput \/ ReadOutput PROVE Safe'
<1>0. Types /\ SlotsOwn /\ HeardEnded /\ OwnAnswer /\ Waiting /\ Counting /\ Exact /\ Reports
  BY Zenon DEF Safe
<1>1. UNCHANGED <<client, calls, container, tokens, pending, joining, heard>>
  BY DEF ReadInput, ReadOutput, threadVars
<1>2. joining = 0
  BY <1>0 DEF Waiting, Reports, Dispatching, Modes, ReadInput, ReadOutput
<1>5. Reported(tokens.input) /\ Reported(tokens.output)
  BY <1>0, <1>2, CountsReport, Zenon
<1>6. stats \in Counters /\ tokens \in Counters
  BY <1>0 DEF Types
<1>7. SlotsOwn' /\ HeardEnded' /\ OwnAnswer' /\ Counting' /\ Exact'
  <2>1. SlotsOwn' /\ HeardEnded' /\ OwnAnswer'
    BY <1>0, <1>1 DEF SlotsOwn, HeardEnded, Ended, OwnAnswer
  <2>2. Counting' /\ Exact'
    BY <1>0, <1>1 DEF Counting, Exact, InputCounted, OutputCounted, Billed, Heard
  <2> QED
    BY <2>1, <2>2
<1>8. Billed' = Billed /\ Heard' = Heard
  BY <1>1 DEF Billed, Heard
<1>9. CASE ReadInput
  <2>1. /\ stats' \in Counters /\ stats'.input = tokens.input /\ mode' = "reading"
        /\ mode \in {"idle", "failed"}
    BY <1>6, <1>9 DEF ReadInput, Counters
  <2>2. joining = 0
    BY <1>0, <2>1 DEF Waiting, Dispatching, Modes
  <2>3. Reported(stats.input)'
    BY <1>5, <1>8, <2>1 DEF Reported
  <2>4. Types' /\ Waiting'
    BY <1>0, <1>1, <2>1, <2>2 DEF Types, Waiting
  <2>5. Reports'
    BY <1>1, <2>1, <2>2, <2>3 DEF Reports
  <2> QED
    BY <1>7, <2>4, <2>5, Zenon DEF Safe
<1>10. CASE ReadOutput
  <2>1. /\ stats' \in Counters /\ stats'.output = tokens.output /\ stats'.input = stats.input
        /\ mode' = "reported" /\ mode = "reading"
    BY <1>6, <1>10 DEF ReadOutput, Counters
  <2>2. joining = 0 /\ Reported(stats.input)
    BY <1>0, <2>1, Zenon DEF Reports
  <2>3. Reported(stats.input)' /\ Reported(stats.output)'
    BY <1>5, <1>8, <2>1, <2>2 DEF Reported
  <2>4. Types' /\ Waiting'
    BY <1>0, <1>1, <2>1, <2>2 DEF Types, Waiting
  <2>5. Reports'
    BY <1>1, <2>1, <2>2, <2>3 DEF Reports
  <2> QED
    BY <1>7, <2>4, <2>5, Zenon DEF Safe
<1> QED
  BY <1>9, <1>10

(* At the start nothing was asked; every step keeps the invariant. *)
LEMMA SafeInit == Init => Safe
<1> SUFFICES ASSUME Init PROVE Safe
  OBVIOUS
<1>1. /\ calls = <<>> /\ container = <<>> /\ heard = <<>> /\ joining = 0 /\ mode = "idle"
      /\ tokens = [input |-> 0, output |-> 0] /\ stats = [input |-> 0, output |-> 0]
  BY DEF Init
<1>2. /\ calls \in Seq(Call) /\ container \in Seq(Slots) /\ heard \in Seq(Nat \X Nat)
      /\ Len(calls) = 0 /\ Len(container) = 0
      /\ DOMAIN calls = {} /\ DOMAIN heard = {} /\ 1 .. Len(calls) = {}
  BY <1>1, EmptySeq
<1>3. Types
  BY <1>1, <1>2 DEF Types, Counters
<1>4. SlotsOwn /\ HeardEnded /\ OwnAnswer /\ Waiting /\ Reports
  BY <1>1, <1>2 DEF SlotsOwn, HeardEnded, OwnAnswer, Waiting, Reports
<1>5. InputCounted = {} /\ OutputCounted = {} /\ Cardinality({}) = 0
  BY <1>2, FS_EmptySet DEF InputCounted, OutputCounted
<1>6. Counting /\ Exact
  BY <1>1, <1>2, <1>5 DEF Counting, Exact
<1> QED
  BY <1>3, <1>4, <1>6, Zenon DEF Safe

LEMMA SafeStep == PluginsAssumption /\ Safe /\ [Next]_vars => Safe'
<1> SUFFICES ASSUME PluginsAssumption, Safe, [Next]_vars PROVE Safe'
  OBVIOUS
<1>1. CASE UNCHANGED vars
  <2>1. UNCHANGED <<client, mode, pending, joining, calls, container, tokens, stats, heard>>
    BY <1>1 DEF vars, engineVars, threadVars
  <2>2. Types' /\ SlotsOwn' /\ HeardEnded' /\ OwnAnswer'
    BY <2>1 DEF Safe, Types, SlotsOwn, HeardEnded, Ended, OwnAnswer
  <2>3. Waiting' /\ Counting' /\ Exact'
    BY <2>1 DEF Safe, Waiting, Dispatching, Asked, Counting, Exact, InputCounted,
                OutputCounted, Billed, Heard
  <2>4. Reports'
    BY <2>1 DEF Safe, Reports, Reported, Billed, Heard
  <2> QED
    BY <2>2, <2>3, <2>4, Zenon DEF Safe
<1> QED
  BY <1>1, ThreadSafe, DispatchSafe, StartSafe, JoinSafe, ReportSafe, Zenon DEF Next, Engine

LEMMA AlwaysSafe == Spec => []Safe
<1>1. Safe /\ [Next]_vars => Safe'
  BY SafeStep, PluginsAssumption, Zenon
<1> QED
  BY <1>1, SafeInit, PTL DEF Spec

-----------------------------------------------------------------------------
(* However late the answers of calls given up before come in, and whatever the *)
(* service replies, complete() returns the answer to its own prompt or none.   *)
THEOREM OwnAnswerHolds == Spec => []OwnAnswer
<1>1. Safe => OwnAnswer
  BY Zenon DEF Safe
<1> QED
  BY <1>1, AlwaysSafe, PTL

(* The counts get_stats reports have no response twice whatever threads that    *)
(* were given up write back, every response when all were waited for, and are   *)
(* not zero when one was.                                                       *)
THEOREM TokensCountedHolds == Spec => []TokensCounted
<1>1. Safe => TokensCounted
  BY DEF Safe, Reports, Reported, TokensCounted
<1> QED
  BY <1>1, AlwaysSafe, PTL

-----------------------------------------------------------------------------
(* The parser. *)

Inputs == [callable : BOOLEAN, inner : BOOLEAN]
Clean == [callable : {FALSE}, inner : BOOLEAN]
Parts == [kind : Kinds, input : Inputs]

(* The entries chosen from a sequence are a sequence of its entries. *)
LEMMA ThoseType ==
  ASSUME NEW S, NEW entries \in Seq(S), NEW kinds
  PROVE  Those(entries, kinds) \in Seq(S)
<1> DEFINE N == Len(entries)
           step == [n \in 1 .. N |-> [v \in Seq(S) |->
                      IF entries[n].kind \in kinds THEN Append(v, entries[n]) ELSE v]]
           Is(f) == f = [n \in 0 .. N |->
                           IF n = 0 THEN <<>>
                           ELSE IF entries[n].kind \in kinds THEN Append(f[n - 1], entries[n])
                                ELSE f[n - 1]]
           upTo == CHOOSE f : Is(f)
<1>1. N \in Nat /\ \A n \in 1 .. N : entries[n] \in S
  BY LenProperties, ElementOfSeq
<1>2. <<>> \in Seq(S)
  OBVIOUS
<1>3. step \in [1 .. N -> [Seq(S) -> Seq(S)]]
  BY <1>1, AppendProperties
<1> HIDE DEF step, N
<1>4. PICK f : Follows(f, Seq(S), N, <<>>, step)
  BY <1>1, <1>2, <1>3, RecursionUpTo, Zenon DEF Steps
<1>5. Is(f)
  <2>1. \A n \in 1 .. N : n - 1 \in 0 .. N /\ n \in 0 .. N /\ n # 0
    BY <1>1
  <2>2. \A n \in 1 .. N : step[n][f[n - 1]] = IF entries[n].kind \in kinds
                                               THEN Append(f[n - 1], entries[n]) ELSE f[n - 1]
    BY <1>4, <2>1 DEF step, Follows
  <2>3. \A n \in 0 .. N : n = 0 \/ n \in 1 .. N
    BY <1>1
  <2> QED
    BY <1>4, <2>2, <2>3 DEF Follows
<1>6. Is(upTo)
  <2> HIDE DEF Is
  <2> QED BY <1>5, Zenon
<1>7. Those(entries, kinds) = upTo[N]
  BY Zenon DEF Those, N
<1> HIDE DEF upTo
<1> DEFINE Good == {n \in 1 .. N : upTo[n] \in Seq(S)}
<1>8. upTo[0] = <<>>
  BY <1>1, <1>6
<1>9. ASSUME NEW n \in 1 .. N, \A k \in 1 .. n - 1 : k \in Good
      PROVE  n \in Good
  <2>1. upTo[n - 1] \in Seq(S)
    <3>1. CASE n = 1
      <4>1. n - 1 = 0
        BY <3>1
      <4> QED BY <1>2, <1>8, <4>1, Zenon
    <3>2. CASE n # 1
      <4>1. n - 1 \in 1 .. n - 1
        BY <3>2
      <4> QED BY <1>9, <4>1
    <3> QED BY <3>1, <3>2
  <2>2. n \in 0 .. N /\ n # 0
    BY <1>1
  <2>3. upTo[n] = IF entries[n].kind \in kinds THEN Append(upTo[n - 1], entries[n]) ELSE upTo[n - 1]
    BY <1>6, <2>2, Zenon
  <2>4. Append(upTo[n - 1], entries[n]) \in Seq(S)
    BY <1>1, <2>1, AppendProperties
  <2>5. upTo[n] \in Seq(S)
    BY <2>1, <2>3, <2>4, Zenon
  <2> QED
    BY <2>5
<1>10. \A n \in 1 .. N : n \in Good
  <2> HIDE DEF Good
  <2> QED BY <1>1, <1>9, InductionUpTo
<1>11. N = 0 \/ N \in 1 .. N
  BY <1>1
<1> QED
  BY <1>2, <1>7, <1>8, <1>10, <1>11

(* What the parser reads in an answer. *)
LEMMA ParsedType ==
  ASSUME PluginsAssumption, NEW reply \in Replies
  PROVE  Parsed(reply) \in Seq(Parts)
<1>1. reply.entries \in Seq(Kinds)
  BY DEF PluginsAssumption
<1>2. /\ Len(reply.entries) \in Nat /\ DOMAIN reply.entries = 1 .. Len(reply.entries)
      /\ \A i \in 1 .. Len(reply.entries) : reply.entries[i] \in Kinds
  BY <1>1, LenProperties, ElementOfSeq
<1>3. \A k \in Kinds : Input(k) \in Inputs
  BY DEF Input, Inputs
<1>4. Entries(reply) \in Seq(Parts)
  <2>1. \A i \in 1 .. Len(reply.entries) :
          [kind |-> reply.entries[i], input |-> Input(reply.entries[i])] \in Parts
    BY <1>2, <1>3 DEF Parts
  <2> QED
    BY <1>2, <2>1, IsASeq DEF Entries
<1>5. Recovered(reply) \in Seq(Parts)
  <2> DEFINE found == Those(Entries(reply), Dicts \cup {"braced"})
             part(i) == IF found[i].kind \in {"nested", "braced"}
                        THEN [found[i] EXCEPT !.input = Inner] ELSE found[i]
  <2>1. found \in Seq(Parts)
    BY <1>4, ThoseType, Zenon
  <2>2. Recovered(reply) = [i \in DOMAIN found |-> part(i)]
    BY DEF Recovered
  <2> HIDE DEF found
  <2>3. /\ Len(found) \in Nat /\ DOMAIN found = 1 .. Len(found)
        /\ \A i \in 1 .. Len(found) : found[i] \in Parts
    BY <2>1, LenProperties, ElementOfSeq
  <2>4. \A i \in 1 .. Len(found) : part(i) \in Parts
    BY <2>3 DEF Parts, Inputs, Inner
  <2> HIDE DEF part
  <2> QED
    BY <2>2, <2>3, <2>4, IsASeq
<1> QED
  BY <1>4, <1>5 DEF Parsed

(* A single input is any input, those collected hold no function. *)
LEMMA ProposedType ==
  ASSUME PluginsAssumption, NEW reply \in Replies
  PROVE  Single(reply) \in Seq(Inputs) /\ Usable(reply) \in Seq(Clean)
<1>1. \A kinds : Those(Parsed(reply), kinds) \in Seq(Parts)
  BY ParsedType, ThoseType, Zenon
<1>2. Single(reply) \in Seq(Inputs)
  <2> DEFINE dicts == Those(Parsed(reply), Dicts \cup {"braced"})
  <2>1. dicts \in Seq(Parts)
    BY <1>1
  <2>2. Single(reply) = IF dicts = <<>> THEN <<>> ELSE <<dicts[1].input>>
    BY DEF Single
  <2> HIDE DEF dicts
  <2>3. dicts # <<>> => dicts[1] \in Parts
    BY <2>1
  <2> QED
    BY <2>2, <2>3 DEF Parts
<1>3. Usable(reply) \in Seq(Clean)
  <2> DEFINE dicts == Those(Parsed(reply), (Dicts \cup {"braced"}) \ {"empty"})
  <2>1. dicts \in Seq(Parts)
    BY <1>1
  <2>2. Usable(reply) = IF ~IsList(reply) THEN <<>> ELSE [i \in DOMAIN dicts |-> Sanitized(dicts[i])]
    BY DEF Usable
  <2> HIDE DEF dicts
  <2>3. /\ Len(dicts) \in Nat /\ DOMAIN dicts = 1 .. Len(dicts)
        /\ \A i \in 1 .. Len(dicts) : dicts[i] \in Parts
    BY <2>1, LenProperties, ElementOfSeq
  <2>4. \A i \in 1 .. Len(dicts) : Sanitized(dicts[i]) \in Clean
    BY <2>3 DEF Sanitized, Parts, Inputs, Clean
  <2>5. [i \in 1 .. Len(dicts) |-> Sanitized(dicts[i])] \in Seq(Clean)
    BY <2>3, <2>4, IsASeq
  <2> QED
    BY <2>2, <2>3, <2>5
<1> QED
  BY <1>2, <1>3

-----------------------------------------------------------------------------
(* The order of the handlers. *)

(* Plugins have a priority and a place in the registration of their own. *)
LEMMA Ranked ==
  ASSUME PluginsAssumption, NEW p \in Plugins
  PROVE  /\ Priority[p] \in Int
         /\ Index(p) \in 1 .. Len(Registration) /\ Registration[Index(p)] = p
<1>1. Len(Registration) \in Nat /\ DOMAIN Registration = 1 .. Len(Registration)
  BY LenProperties DEF PluginsAssumption
<1>2. \E i \in DOMAIN Registration : Registration[i] = p
  BY DEF PluginsAssumption
<1>3. Index(p) \in DOMAIN Registration /\ Registration[Index(p)] = p
  BY <1>2, Zenon DEF Index
<1> QED
  BY <1>1, <1>3 DEF PluginsAssumption

LEMMA BeforeOrders ==
  ASSUME PluginsAssumption, NEW p \in Plugins, NEW q \in Plugins
  PROVE  /\ p # q => Before(p, q) \/ Before(q, p)
         /\ Before(p, q) => InOrder(p, q)
         /\ \A r \in Plugins : Before(p, q) /\ Before(q, r) => Before(p, r)
<1>1. /\ Priority[p] \in Int /\ Index(p) \in Int /\ Priority[q] \in Int /\ Index(q) \in Int
      /\ Registration[Index(p)] = p /\ Registration[Index(q)] = q
      /\ \A r \in Plugins : Priority[r] \in Int /\ Index(r) \in Int
  <2>1. \A r \in Plugins : Index(r) \in 1 .. Len(Registration) => Index(r) \in Int
    OBVIOUS
  <2> QED
    BY <2>1, Ranked, Zenon
<1>2. p # q => Index(p) # Index(q)
  BY <1>1, Zenon
<1>3. p # q => Before(p, q) \/ Before(q, p)
  BY <1>1, <1>2 DEF Before
<1>4. Before(p, q) => InOrder(p, q)
  <2>1. Index(p) \in DOMAIN Registration /\ Index(q) \in DOMAIN Registration
    BY Ranked, LenProperties DEF PluginsAssumption
  <2> QED
    BY <1>1, <2>1, Zenon DEF Before, InOrder
<1>5. \A r \in Plugins : Before(p, q) /\ Before(q, r) => Before(p, r)
  BY <1>1 DEF Before
<1> QED
  BY <1>3, <1>4, <1>5

(* Among plugins still to ask there is a first one. *)
HasFirst(T) == \E p \in T : \A q \in T \ {p} : Before(p, q)

LEMMA FirstExists ==
  ASSUME PluginsAssumption, NEW T \in SUBSET Plugins, T # {}
  PROVE  HasFirst(T)
<1> DEFINE N == Len(Registration)
           Known(n) == {Registration[i] : i \in 1 .. n}
           Good == {n \in 1 .. N : \A U \in SUBSET Known(n) : U # {} => HasFirst(U)}
<1>1. N \in Nat /\ Known(N) = Plugins /\ \A i \in 1 .. N : Registration[i] \in Plugins
  BY LenProperties, ElementOfSeq DEF PluginsAssumption
<1>2. ASSUME NEW n \in 1 .. N, \A k \in 1 .. n - 1 : k \in Good,
             NEW U \in SUBSET Known(n), U # {}
      PROVE  HasFirst(U)
  <2> DEFINE r == Registration[n]
             V == U \ {r}
  <2>1. U \subseteq Plugins /\ r \in Plugins
    BY <1>1
  <2>2. CASE V = {}
    <3>1. U = {r}
      BY <1>2, <2>2
    <3> QED
      BY <3>1 DEF HasFirst
  <2>3. CASE V # {}
    <3>1. n # 1
      <4> SUFFICES ASSUME n = 1 PROVE FALSE
        OBVIOUS
      <4>1. \A i \in 1 .. n : Registration[i] = r
        OBVIOUS
      <4>2. U \subseteq {r}
        BY <1>2, <4>1
      <4> QED BY <2>3, <4>2
    <3>2. V \in SUBSET Known(n - 1)
      <4>1. \A i \in 1 .. n : i = n \/ i \in 1 .. n - 1
        OBVIOUS
      <4> QED BY <4>1
    <3>3. n - 1 \in Good
      <4>1. n - 1 \in 1 .. n - 1
        BY <1>1, <3>1
      <4> HIDE DEF Good
      <4> QED BY <1>2, <4>1
    <3>4. PICK m \in V : \A q \in V \ {m} : Before(m, q)
      BY <2>3, <3>2, <3>3 DEF HasFirst
    <3>5. m \in Plugins /\ m # r
      BY <2>1
    <3>6. CASE r \notin U
      <4>1. V = U
        BY <3>6
      <4> QED BY <3>4, <4>1 DEF HasFirst
    <3>7. CASE r \in U /\ Before(m, r)
      <4>1. \A q \in U \ {m} : Before(m, q)
        BY <3>4, <3>7
      <4> QED BY <4>1 DEF HasFirst
    <3>8. CASE r \in U /\ Before(r, m)
      <4>1. \A q \in U \ {r} : Before(r, q)
        BY <2>1, <3>4, <3>5, <3>8, BeforeOrders
      <4> QED BY <3>8, <4>1 DEF HasFirst
    <3> QED
      BY <2>1, <3>5, <3>6, <3>7, <3>8, BeforeOrders
  <2> QED
    BY <2>2, <2>3
<1>3. \A n \in 1 .. N : n \in Good
  <2>1. \A n \in 1 .. N : (\A k \in 1 .. n - 1 : k \in Good) => n \in Good
    BY <1>2
  <2> HIDE DEF Good, N
  <2> QED BY <1>1, <2>1, InductionUpTo
<1>4. N # 0
  BY <1>1
<1>5. N \in 1 .. N
  BY <1>1, <1>4
<1>6. N \in Good
  BY <1>3, <1>5
<1>7. T \in SUBSET Known(N)
  BY <1>1
<1> QED
  BY <1>6, <1>7

LEMMA AskedFirst ==
  ASSUME PluginsAssumption, pending \subseteq Plugins, pending # {}
  PROVE  /\ Asked \in pending /\ Asked \in Plugins
         /\ \A q \in pending \ {Asked} : InOrder(Asked, q)
<1>1. \E p \in pending : \A q \in pending \ {p} : Before(p, q)
  BY FirstExists, Zenon DEF HasFirst
<1>2. Asked \in pending /\ \A q \in pending \ {Asked} : Before(Asked, q)
  BY <1>1, Zenon DEF Asked
<1> QED
  BY <1>2, BeforeOrders

-----------------------------------------------------------------------------
(* A dispatch. *)

Asking == [plugin : Plugins, mode : Modes, answered : BOOLEAN, raised : BOOLEAN]
Gains == [by : Plugins, input : Inputs]

AskedPlugins == {asked[i].plugin : i \in DOMAIN asked}
AnsweredPlugins == {asked[i].plugin : i \in {j \in DOMAIN asked : asked[j].answered}}
Handlers(m) == {p \in Plugins : m \in Handles[p]}

AskTypes ==
    /\ pending \subseteq Plugins
    /\ asked \in Seq(Asking)
    /\ gathered \in Seq(Gains)

(* Those asked come before one another, before those still to ask, and only the *)
(* last of all can have ended the dispatch.                                     *)
Ordered ==
    /\ \A i, j \in DOMAIN asked : i < j =>
         InOrder(asked[i].plugin, asked[j].plugin) /\ ~Ends(asked[i])
    /\ \A i \in DOMAIN asked : \A q \in pending :
         InOrder(asked[i].plugin, q) /\ ~Ends(asked[i])

Covered(m) == (\E i \in DOMAIN asked : Ends(asked[i])) \/ AskedPlugins \cup pending = Handlers(m)

Complete ==
    /\ Dispatching => (\A i \in DOMAIN asked : asked[i].mode = mode) /\ Covered(mode)
    /\ mode = "idle" => pending = {} /\ (asked # <<>> => Covered(asked[1].mode))

(* What was gathered comes from those asked that answered, in the order they were asked. *)
GatheredInOrder ==
    /\ \A i \in DOMAIN gathered : gathered[i].by \in AskedPlugins
    /\ \A i, j \in DOMAIN gathered : i < j =>
         gathered[i].by = gathered[j].by \/ InOrder(gathered[i].by, gathered[j].by)
    /\ Dispatching \/ mode = "idle" =>
         {gathered[i].by : i \in DOMAIN gathered} = AnsweredPlugins

Asks == AskTypes /\ Ordered /\ Complete /\ GatheredInOrder /\ CollectedClean

(* A handler's end, with an answer or without: what it means for the order. *)
LEMMA AskedKeeps ==
  ASSUME PluginsAssumption, AskTypes, Ordered, Dispatching, pending # {},
         \A i \in DOMAIN asked : asked[i].mode = mode, Covered(mode),
         NEW a \in Asking, a.plugin = Asked, a.mode = mode,
         asked' = Append(asked, a),
         pending' = IF Ends(a) THEN {} ELSE pending \ {Asked}
  PROVE  /\ asked' \in Seq(Asking) /\ asked' # <<>> /\ pending' \subseteq Plugins
         /\ Ordered'
         /\ AskedPlugins' = AskedPlugins \cup {Asked}
         /\ AnsweredPlugins' = AnsweredPlugins \cup (IF a.answered THEN {Asked} ELSE {})
         /\ \A i \in DOMAIN asked' : asked'[i].mode = mode
         /\ (\E i \in DOMAIN asked' : Ends(asked'[i])) \/ AskedPlugins' \cup pending' = Handlers(mode)
         /\ \A p \in AskedPlugins : InOrder(p, Asked)
<1> DEFINE N == Len(asked)
<1>1. N \in Nat /\ DOMAIN asked = 1 .. N /\ \A i \in 1 .. N : asked[i] \in Asking
  BY LenProperties, ElementOfSeq DEF AskTypes
<1>2. /\ asked' \in Seq(Asking) /\ Len(asked') = N + 1
      /\ \A i \in 1 .. N : asked'[i] = asked[i]
      /\ asked'[N + 1] = a
  BY AppendProperties DEF AskTypes
<1>3. DOMAIN asked' = 1 .. N + 1
  BY <1>2, LenProperties
<1>4. Asked \in pending /\ Asked \in Plugins /\ \A q \in pending \ {Asked} : InOrder(Asked, q)
  BY AskedFirst DEF AskTypes
<1> HIDE DEF N
<1>5. \A i \in DOMAIN asked' : i = N + 1 \/ i \in DOMAIN asked
  BY <1>1, <1>3
<1>6. DOMAIN asked' = DOMAIN asked \cup {N + 1} /\ N + 1 \notin DOMAIN asked
  BY <1>1, <1>3
<1>7. asked' # <<>> /\ pending' \subseteq Plugins
  BY <1>2, <1>3, <1>1 DEF AskTypes
<1>8. \A i \in DOMAIN asked : InOrder(asked[i].plugin, Asked) /\ ~Ends(asked[i])
  BY <1>4 DEF Ordered
<1>9. Ordered'
  <2>1. ASSUME NEW i \in DOMAIN asked', NEW j \in DOMAIN asked', i < j
        PROVE  InOrder(asked'[i].plugin, asked'[j].plugin) /\ ~Ends(asked'[i])
    <3>1. i \in DOMAIN asked /\ asked'[i] = asked[i]
      BY <1>1, <1>2, <1>3, <2>1
    <3>2. CASE j = N + 1
      BY <1>2, <1>8, <3>1, <3>2
    <3>3. CASE j \in DOMAIN asked
      <4>1. asked'[j] = asked[j]
        BY <1>1, <1>2, <3>3
      <4> QED BY <2>1, <3>1, <3>3, <4>1 DEF Ordered
    <3> QED BY <1>5, <3>2, <3>3
  <2>2. ASSUME NEW i \in DOMAIN asked', NEW q \in pending'
        PROVE  InOrder(asked'[i].plugin, q) /\ ~Ends(asked'[i])
    <3>1. ~Ends(a) /\ q \in pending \ {Asked}
      BY <2>2
    <3>2. CASE i = N + 1
      BY <1>2, <1>4, <3>1, <3>2
    <3>3. CASE i \in DOMAIN asked
      <4>1. asked'[i] = asked[i]
        BY <1>1, <1>2, <3>3
      <4> QED BY <3>1, <3>3, <4>1 DEF Ordered
    <3> QED BY <1>5, <3>2, <3>3
  <2> QED
    BY <2>1, <2>2 DEF Ordered, InOrder, Ends
<1>10. \A i \in DOMAIN asked' : asked'[i].mode = mode
  BY <1>1, <1>2, <1>5
<1>11. AskedPlugins' = AskedPlugins \cup {Asked}
  BY <1>1, <1>2, <1>6 DEF AskedPlugins
<1>12. AnsweredPlugins' = AnsweredPlugins \cup (IF a.answered THEN {Asked} ELSE {})
  BY <1>1, <1>2, <1>6 DEF AnsweredPlugins
<1>13. (\E i \in DOMAIN asked' : Ends(asked'[i])) \/ AskedPlugins' \cup pending' = Handlers(mode)
  <2>1. CASE Ends(a)
    BY <1>2, <1>6, <2>1
  <2>2. CASE ~Ends(a)
    <3>1. AskedPlugins \cup pending = Handlers(mode)
      BY <1>8 DEF Covered
    <3> QED BY <1>4, <1>11, <2>2, <3>1
  <2> QED BY <2>1, <2>2
<1>14. \A p \in AskedPlugins : InOrder(p, Asked)
  BY <1>8 DEF AskedPlugins
<1> QED
  BY <1>2, <1>7, <1>9, <1>10, <1>11, <1>12, <1>13, <1>14, Zenon

(* A handler that returned, with what it found. *)
LEMMA ReturnedKeeps ==
  ASSUME PluginsAssumption, Asks, Dispatching, pending # {}, NEW inputs \in Seq(Inputs),
         mode = "collector" /\ Asked = Llm => inputs \in Seq(Clean),
         Returned(inputs)
  PROVE  Asks'
<1> DEFINE K == Len(gathered)
           M == Len(inputs)
           a == [plugin |-> Asked, mode |-> mode, answered |-> inputs # <<>>, raised |-> FALSE]
           more == [i \in DOMAIN inputs |-> [by |-> Asked, input |-> inputs[i]]]
<1>0. /\ AskTypes /\ Ordered /\ GatheredInOrder /\ CollectedClean
      /\ \A i \in DOMAIN asked : asked[i].mode = mode
      /\ Covered(mode)
  BY Zenon DEF Asks, Complete
<1>1. Asked \in Plugins
  BY <1>0, AskedFirst DEF AskTypes
<1>2. a \in Asking
  BY <1>1 DEF Asking, Dispatching
<1>3. /\ asked' = Append(asked, a) /\ mode' = mode
      /\ gathered' = gathered \o more
  BY DEF Returned
<1>4. pending' = IF Ends(a) THEN {} ELSE pending \ {Asked}
  BY DEF Returned, Ends
<1>5. a.plugin = Asked /\ a.mode = mode /\ a.answered = (inputs # <<>>)
  OBVIOUS
<1> HIDE DEF a
<1>6. /\ asked' \in Seq(Asking) /\ asked' # <<>> /\ pending' \subseteq Plugins
      /\ Ordered'
      /\ AskedPlugins' = AskedPlugins \cup {Asked}
      /\ AnsweredPlugins' = AnsweredPlugins \cup (IF a.answered THEN {Asked} ELSE {})
      /\ \A i \in DOMAIN asked' : asked'[i].mode = mode
      /\ (\E i \in DOMAIN asked' : Ends(asked'[i])) \/ AskedPlugins' \cup pending' = Handlers(mode)
      /\ \A p \in AskedPlugins : InOrder(p, Asked)
  BY <1>0, <1>2, <1>3, <1>4, <1>5, AskedKeeps, Zenon
<1>7. /\ M \in Nat /\ DOMAIN inputs = 1 .. M /\ \A i \in 1 .. M : inputs[i] \in Inputs
      /\ inputs # <<>> <=> M # 0
  BY LenProperties, ElementOfSeq, EmptySeq
<1>8. K \in Nat /\ DOMAIN gathered = 1 .. K /\ gathered \in Seq(Gains)
  BY <1>0, LenProperties DEF AskTypes
<1>9. more \in Seq(Gains) /\ Len(more) = M
  <2>1. \A i \in 1 .. M : [by |-> Asked, input |-> inputs[i]] \in Gains
    BY <1>1, <1>7 DEF Gains
  <2> HIDE DEF M
  <2>2. more = [i \in 1 .. M |-> [by |-> Asked, input |-> inputs[i]]]
    BY <1>7
  <2> HIDE DEF more
  <2>3. more \in Seq(Gains)
    BY <1>7, <2>1, <2>2, IsASeq
  <2>4. Len(more) \in Nat /\ DOMAIN more = 1 .. Len(more) /\ DOMAIN more = 1 .. M
    BY <2>2, <2>3, LenProperties
  <2> DEFINE L == Len(more)
  <2>5. L \in Nat /\ 1 .. L = 1 .. M
    BY <2>4
  <2> HIDE DEF L
  <2>6. L = M
    BY <1>7, <2>5
  <2> QED BY <2>3, <2>6 DEF L
<1>10. \A i \in 1 .. M : more[i].by = Asked /\ more[i].input = inputs[i]
  BY <1>7
<1> HIDE DEF more
<1>11. /\ gathered' \in Seq(Gains) /\ Len(gathered') = K + M
       /\ \A i \in 1 .. K + M : gathered'[i] = IF i <= K THEN gathered[i] ELSE more[i - K]
  <2>1. /\ gathered \o more \in Seq(Gains) /\ Len(gathered \o more) = K + Len(more)
        /\ \A i \in 1 .. K + Len(more) :
             (gathered \o more)[i] = IF i <= K THEN gathered[i] ELSE more[i - K]
    BY <1>8, <1>9, ConcatProperties, Zenon DEF K
  <2> HIDE DEF K, M
  <2> QED BY <1>3, <1>9, <2>1
<1>12. DOMAIN gathered' = 1 .. K + M
  BY <1>11, LenProperties
<1> HIDE DEF K, M
<1>13. \A i \in 1 .. K : i \in DOMAIN gathered' /\ gathered'[i] = gathered[i]
  BY <1>7, <1>8, <1>11, <1>12
<1>14. ASSUME NEW i \in DOMAIN gathered', i \notin 1 .. K
       PROVE  /\ gathered'[i].by = Asked /\ inputs # <<>>
              /\ \E k \in 1 .. M : gathered'[i].input = inputs[k]
  <2>1. i \in 1 .. K + M /\ ~(i <= K) /\ i - K \in 1 .. M /\ M # 0
    BY <1>7, <1>8, <1>12, <1>14
  <2>2. gathered'[i] = more[i - K]
    BY <1>11, <2>1
  <2> QED BY <1>7, <1>10, <2>1, <2>2
<1>15. AskTypes'
  BY <1>6, <1>11 DEF AskTypes
<1>16. Complete'
  <2>1. asked'[1].mode = mode
    <3>1. 1 \in DOMAIN asked'
      <4>1. Len(asked') \in Nat /\ Len(asked') # 0 /\ DOMAIN asked' = 1 .. Len(asked')
        BY <1>6, LenProperties, EmptySeq
      <4> QED BY <4>1
    <3> QED BY <1>6, <3>1
  <2>2. mode # "idle"
    BY DEF Dispatching, Modes
  <2>3. Covered(mode)'
    BY <1>3, <1>6 DEF Covered, Handlers, Ends, AskedPlugins
  <2> QED BY <1>3, <1>6, <2>2, <2>3 DEF Complete, Dispatching
<1>17. GatheredInOrder'
  <2>1. \A i \in DOMAIN gathered' : gathered'[i].by \in AskedPlugins'
    BY <1>0, <1>6, <1>8, <1>13, <1>14 DEF GatheredInOrder
  <2>2. ASSUME NEW i \in DOMAIN gathered', NEW j \in DOMAIN gathered', i < j
        PROVE  gathered'[i].by = gathered'[j].by \/ InOrder(gathered'[i].by, gathered'[j].by)
    <3>1. CASE j \in 1 .. K
      <4>1. i \in 1 .. K
        BY <1>8, <1>7, <1>12, <2>2, <3>1
      <4> QED BY <1>0, <1>8, <1>13, <2>2, <3>1, <4>1 DEF GatheredInOrder
    <3>2. CASE j \notin 1 .. K /\ i \notin 1 .. K
      BY <1>14, <3>2
    <3>3. CASE j \notin 1 .. K /\ i \in 1 .. K
      <4>1. gathered[i].by \in AskedPlugins
        BY <1>0, <1>8, <3>3 DEF GatheredInOrder
      <4> QED BY <1>6, <1>13, <1>14, <3>3, <4>1
    <3> QED BY <3>1, <3>2, <3>3
  <2>3. {gathered'[i].by : i \in DOMAIN gathered'} = AnsweredPlugins'
    <3>1. {gathered[i].by : i \in DOMAIN gathered} = AnsweredPlugins
      BY <1>0 DEF GatheredInOrder
    <3>2. \A i \in DOMAIN gathered' : gathered'[i].by \in AnsweredPlugins'
      BY <1>5, <1>6, <1>8, <1>13, <1>14, <3>1
    <3>3. \A p \in AnsweredPlugins : \E i \in DOMAIN gathered' : gathered'[i].by = p
      BY <1>8, <1>13, <3>1
    <3>4. inputs # <<>> => \E i \in DOMAIN gathered' : gathered'[i].by = Asked
      <4> SUFFICES ASSUME inputs # <<>> PROVE \E i \in DOMAIN gathered' : gathered'[i].by = Asked
        OBVIOUS
      <4>1. K + M \in DOMAIN gathered' /\ K + M \notin 1 .. K
        BY <1>7, <1>8, <1>12
      <4> QED BY <1>14, <4>1
    <3>5. \A p \in AnsweredPlugins' : \E i \in DOMAIN gathered' : gathered'[i].by = p
      BY <1>5, <1>6, <3>3, <3>4
    <3> DEFINE S == AnsweredPlugins'
               G == gathered'
    <3>6. (\A i \in DOMAIN G : G[i].by \in S) /\ \A p \in S : \E i \in DOMAIN G : G[i].by = p
      BY <3>2, <3>5
    <3> HIDE DEF S, G
    <3>7. {G[i].by : i \in DOMAIN G} = S
      BY <3>6
    <3> QED BY <3>7 DEF S, G
  <2> QED BY <2>1, <2>2, <2>3 DEF GatheredInOrder, InOrder
<1>18. CollectedClean'
  <2> SUFFICES ASSUME NEW i \in DOMAIN gathered', gathered'[i].by = Llm, asked'[1].mode = "collector"
               PROVE  ~gathered'[i].input.callable
    BY DEF CollectedClean
  <2>1. 1 \in DOMAIN asked'
    <3>1. Len(asked') \in Nat /\ Len(asked') # 0 /\ DOMAIN asked' = 1 .. Len(asked')
      BY <1>6, LenProperties, EmptySeq
    <3> QED BY <3>1
  <2>2. mode = "collector"
    BY <1>6, <2>1
  <2>3. CASE i \in 1 .. K
    <3>1. gathered[i].by \in AskedPlugins
      BY <1>0, <1>8, <2>3 DEF GatheredInOrder
    <3>2. 1 \in DOMAIN asked
      <4>1. Len(asked) \in Nat /\ DOMAIN asked = 1 .. Len(asked)
        BY <1>0, LenProperties DEF AskTypes
      <4> QED BY <3>1, <4>1 DEF AskedPlugins
    <3>3. asked[1].mode = "collector"
      BY <1>0, <2>2, <3>2
    <3> QED BY <1>0, <1>8, <1>13, <2>3, <3>3 DEF CollectedClean
  <2>4. CASE i \notin 1 .. K
    <3>1. PICK k \in 1 .. M : gathered'[i].input = inputs[k]
      BY <1>14, <2>4
    <3>2. inputs \in Seq(Clean)
      BY <1>14, <2>2, <2>4
    <3>3. inputs[k] \in Clean
      BY <1>7, <3>2, ElementOfSeq DEF M
    <3> QED BY <3>1, <3>3 DEF Clean
  <2> QED BY <2>3, <2>4
<1> QED
  BY <1>6, <1>15, <1>16, <1>17, <1>18, Zenon DEF Asks

(* A handler that raised: an observer's exception is swallowed, any other ends the *)
(* exploration with nothing gathered.                                              *)
LEMMA RaisedKeeps ==
  ASSUME PluginsAssumption, Asks, Dispatching, pending # {}, Raised
  PROVE  Asks'
<1> DEFINE a == [plugin |-> Asked, mode |-> mode, answered |-> FALSE, raised |-> TRUE]
<1>0. /\ AskTypes /\ Ordered /\ GatheredInOrder /\ CollectedClean
      /\ \A i \in DOMAIN asked : asked[i].mode = mode
      /\ Covered(mode)
  BY Zenon DEF Asks, Complete
<1>1. Asked \in Plugins
  BY <1>0, AskedFirst DEF AskTypes
<1>2. a \in Asking /\ a.plugin = Asked /\ a.mode = mode /\ a.answered = FALSE
  BY <1>1 DEF Asking, Dispatching
<1>3. asked' = Append(asked, a) /\ ~Ends(a)
  BY DEF Raised, Ends
<1> HIDE DEF a
<1>4. CASE mode = "observer"
  <2>1. pending' = pending \ {Asked} /\ UNCHANGED <<mode, gathered>>
    BY <1>4 DEF Raised
  <2>2. pending' = IF Ends(a) THEN {} ELSE pending \ {Asked}
    BY <1>3, <2>1
  <2>3. /\ asked' \in Seq(Asking) /\ asked' # <<>> /\ pending' \subseteq Plugins
        /\ Ordered'
        /\ AskedPlugins' = AskedPlugins \cup {Asked}
        /\ AnsweredPlugins' = AnsweredPlugins \cup (IF a.answered THEN {Asked} ELSE {})
        /\ \A i \in DOMAIN asked' : asked'[i].mode = mode
        /\ (\E i \in DOMAIN asked' : Ends(asked'[i])) \/ AskedPlugins' \cup pending' = Handlers(mode)
        /\ \A p \in AskedPlugins : InOrder(p, Asked)
    BY <1>0, <1>2, <1>3, <2>2, AskedKeeps, Zenon
  <2>4. AskTypes'
    BY <1>0, <2>1, <2>3 DEF AskTypes
  <2>5. Complete'
    <3>1. Covered(mode)'
      BY <2>1, <2>3 DEF Covered, Handlers, Ends, AskedPlugins
    <3> QED BY <1>4, <2>1, <2>3, <3>1 DEF Complete, Dispatching
  <2>6. GatheredInOrder'
    BY <1>0, <1>2, <1>4, <2>1, <2>3 DEF GatheredInOrder, Dispatching, Modes, InOrder
  <2>7. CollectedClean'
    <3>1. 1 \in DOMAIN asked'
      <4>1. Len(asked') \in Nat /\ Len(asked') # 0 /\ DOMAIN asked' = 1 .. Len(asked')
        BY <2>3, LenProperties, EmptySeq
      <4> QED BY <4>1
    <3>2. asked'[1].mode = "observer"
      BY <1>4, <2>3, <3>1
    <3> QED BY <3>2 DEF CollectedClean
  <2> QED
    BY <2>3, <2>4, <2>5, <2>6, <2>7, Zenon DEF Asks
<1>5. CASE mode # "observer"
  <2>1. mode' = "failed" /\ pending' = {} /\ gathered' = <<>> /\ DOMAIN gathered' = {}
    BY <1>5 DEF Raised
  <2>2. /\ AskTypes' /\ Complete' /\ GatheredInOrder' /\ CollectedClean'
    <3>1. asked' \in Seq(Asking)
      BY <1>0, <1>2, <1>3, AppendProperties DEF AskTypes
    <3> QED
      BY <2>1, <3>1 DEF AskTypes, Complete, Dispatching, Modes, GatheredInOrder, CollectedClean
  <2>3. Ordered'
    <3> DEFINE N == Len(asked)
    <3>1. N \in Nat /\ DOMAIN asked = 1 .. N
      BY <1>0, LenProperties DEF AskTypes
    <3>2. /\ asked' \in Seq(Asking) /\ Len(asked') = N + 1
          /\ \A i \in 1 .. N : asked'[i] = asked[i]
          /\ asked'[N + 1] = a
      BY <1>0, <1>2, <1>3, AppendProperties DEF AskTypes
    <3>3. DOMAIN asked' = 1 .. N + 1
      BY <3>2, LenProperties
    <3> HIDE DEF N
    <3>4. \A i \in DOMAIN asked : InOrder(asked[i].plugin, Asked) /\ ~Ends(asked[i])
      BY <1>0, AskedFirst DEF Ordered, AskTypes
    <3>5. ASSUME NEW i \in DOMAIN asked', NEW j \in DOMAIN asked', i < j
          PROVE  InOrder(asked'[i].plugin, asked'[j].plugin) /\ ~Ends(asked'[i])
      <4>1. i \in DOMAIN asked /\ asked'[i] = asked[i]
        BY <3>1, <3>2, <3>3, <3>5
      <4>2. CASE j = N + 1
        BY <1>2, <3>2, <3>4, <4>1, <4>2
      <4>3. CASE j # N + 1
        <5>1. j \in DOMAIN asked /\ asked'[j] = asked[j]
          BY <3>1, <3>2, <3>3, <4>3
        <5> QED BY <1>0, <3>5, <4>1, <5>1 DEF Ordered
      <4> QED BY <4>2, <4>3
    <3> QED
      BY <2>1, <3>5 DEF Ordered, InOrder, Ends
  <2> QED
    BY <2>2, <2>3, Zenon DEF Asks
<1> QED
  BY <1>4, <1>5

(* What the LLM plugin makes of the text in its slot. *)
LEMMA CompletedKeeps ==
  ASSUME PluginsAssumption, Asks, Dispatching, pending # {}, NEW slot \in Slots, Completed(slot)
  PROVE  Asks'
<1> DEFINE text == slot.text
<1>1. text \in Texts
  BY DEF Slots
<1>2. CASE text = NoText
  <2>1. Returned(<<>>)
    BY <1>2 DEF Completed
  <2>2. <<>> \in Seq(Inputs) /\ <<>> \in Seq(Clean)
    OBVIOUS
  <2> QED BY <2>1, <2>2, ReturnedKeeps, Zenon
<1>3. CASE text # NoText /\ Raises(text)
  <2>1. Raised
    BY <1>3 DEF Completed
  <2> QED BY <2>1, RaisedKeeps, Zenon
<1>4. CASE text # NoText /\ ~Raises(text)
  <2>1. text \in Replies
    BY <1>1, <1>4 DEF Texts
  <2>2. Single(text) \in Seq(Inputs) /\ Usable(text) \in Seq(Clean)
    BY <2>1, ProposedType, Zenon
  <2>3. CASE mode = "resolver"
    <3>1. Returned(Single(text))
      BY <1>4, <2>3 DEF Completed
    <3>2. mode # "collector"
      BY <2>3
    <3> QED BY <2>2, <3>1, <3>2, ReturnedKeeps, Zenon
  <2>4. CASE mode # "resolver"
    <3>1. Returned(Usable(text))
      BY <1>4, <2>4 DEF Completed
    <3>2. Usable(text) \in Seq(Inputs)
      <4>1. Clean \subseteq Inputs
        BY DEF Clean, Inputs
      <4>2. /\ Len(Usable(text)) \in Nat
            /\ \A i \in 1 .. Len(Usable(text)) : Usable(text)[i] \in Inputs
            /\ Usable(text) = [i \in 1 .. Len(Usable(text)) |-> Usable(text)[i]]
        BY <2>2, <4>1, LenProperties, ElementOfSeq
      <4> QED BY <4>2, IsASeq
    <3> QED BY <2>2, <3>1, <3>2, ReturnedKeeps, Zenon
  <2> QED BY <2>3, <2>4
<1> QED
  BY <1>2, <1>3, <1>4

LEMMA AsksInit == Init => Asks
<1> SUFFICES ASSUME Init PROVE Asks
  OBVIOUS
<1>1. mode = "idle" /\ pending = {} /\ gathered = <<>> /\ asked = <<>>
  BY DEF Init
<1>2. AskTypes /\ DOMAIN asked = {} /\ DOMAIN gathered = {}
  BY <1>1 DEF AskTypes
<1>3. AskedPlugins = {} /\ AnsweredPlugins = {}
  BY <1>2 DEF AskedPlugins, AnsweredPlugins
<1>4. Ordered /\ Complete /\ CollectedClean
  BY <1>1, <1>2 DEF Ordered, Complete, Dispatching, Modes, CollectedClean
<1>5. GatheredInOrder
  BY <1>1, <1>2, <1>3 DEF GatheredInOrder
<1> QED
  BY <1>2, <1>4, <1>5 DEF Asks

(* Only a dispatch and the end of one of its handlers change what was asked. *)
LEMMA AsksStep == PluginsAssumption /\ Safe /\ Asks /\ [Next]_vars => Asks'
<1> SUFFICES ASSUME PluginsAssumption, Safe, Asks, [Next]_vars PROVE Asks'
  OBVIOUS
<1>0. AskTypes /\ Ordered /\ Complete /\ GatheredInOrder /\ CollectedClean
  BY Zenon DEF Asks
<1>1. ASSUME UNCHANGED <<mode, pending, gathered, asked>> PROVE Asks'
  <2>1. AskTypes' /\ Ordered' /\ CollectedClean'
    BY <1>0, <1>1 DEF AskTypes, Ordered, InOrder, Ends, CollectedClean
  <2>2. Complete'
    BY <1>0, <1>1 DEF Complete, Dispatching, Covered, Ends, Handlers, AskedPlugins
  <2>3. AskedPlugins' = AskedPlugins /\ AnsweredPlugins' = AnsweredPlugins
    BY <1>1 DEF AskedPlugins, AnsweredPlugins
  <2>4. GatheredInOrder'
    BY <1>0, <1>1, <2>3 DEF GatheredInOrder, Dispatching, InOrder
  <2> QED BY <2>1, <2>2, <2>4 DEF Asks
<1>2. CASE UNCHANGED vars
  BY <1>1, <1>2 DEF vars, engineVars
<1>3. CASE \E i \in DOMAIN calls : Thread(i)
  <2>1. UNCHANGED engineVars
    BY <1>3 DEF Thread, AttemptFails, Respond, LoadInput, StoreInput, LoadOutput, StoreOutput,
                Loads, Stores, Deliver
  <2> QED BY <1>1, <2>1 DEF engineVars
<1>4. CASE StartCall
  BY <1>1, <1>4 DEF StartCall
<1>5. CASE Event
  <2>1. PICK m \in Modes : mode' = m /\ pending' = {p \in Plugins : m \in Handles[p]}
    BY <1>5 DEF Event
  <2>2. gathered' = <<>> /\ asked' = <<>> /\ DOMAIN gathered' = {} /\ DOMAIN asked' = {}
    BY <1>5 DEF Event
  <2>3. AskTypes' /\ Ordered' /\ CollectedClean'
    BY <2>1, <2>2 DEF AskTypes, Ordered, CollectedClean
  <2>4. AskedPlugins' = {} /\ AnsweredPlugins' = {}
    BY <2>2 DEF AskedPlugins, AnsweredPlugins
  <2>5. Complete'
    BY <2>1, <2>2, <2>4 DEF Complete, Modes, Covered, Handlers
  <2>6. GatheredInOrder'
    BY <2>2, <2>4 DEF GatheredInOrder
  <2> QED BY <2>3, <2>5, <2>6 DEF Asks
<1>6. CASE Dispatched
  <2>1. Dispatching /\ pending = {} /\ mode' = "idle" /\ UNCHANGED <<pending, gathered, asked>>
    BY <1>6 DEF Dispatched
  <2>2. AskTypes' /\ Ordered' /\ CollectedClean'
    BY <1>0, <2>1 DEF AskTypes, Ordered, InOrder, Ends, CollectedClean
  <2>3. Complete'
    <3>1. asked # <<>> => 1 \in DOMAIN asked
      <4>1. Len(asked) \in Nat /\ DOMAIN asked = 1 .. Len(asked) /\ (asked # <<>> => Len(asked) # 0)
        BY <1>0, LenProperties, EmptySeq DEF AskTypes
      <4> QED BY <4>1
    <3>2. asked # <<>> => asked[1].mode = mode /\ Covered(mode)
      BY <1>0, <2>1, <3>1 DEF Complete
    <3>3. asked' # <<>> => Covered(asked[1].mode)'
      BY <2>1, <3>2 DEF Covered, Handlers, Ends, AskedPlugins
    <3> QED BY <2>1, <3>3 DEF Complete, Dispatching, Modes
  <2>4. GatheredInOrder'
    <3>1. AskedPlugins' = AskedPlugins /\ AnsweredPlugins' = AnsweredPlugins
      BY <2>1 DEF AskedPlugins, AnsweredPlugins
    <3> QED BY <1>0, <2>1, <3>1 DEF GatheredInOrder, InOrder
  <2> QED BY <2>2, <2>3, <2>4 DEF Asks
<1>7. CASE ReadInput \/ ReadOutput
  <2>1. /\ mode' \in {"reading", "reported"} /\ UNCHANGED <<pending, gathered, asked>>
    BY <1>7 DEF ReadInput, ReadOutput
  <2>2. AskTypes' /\ Ordered' /\ CollectedClean'
    BY <1>0, <2>1 DEF AskTypes, Ordered, InOrder, Ends, CollectedClean
  <2>3. Complete' /\ GatheredInOrder'
    BY <1>0, <2>1 DEF Complete, Dispatching, Modes, GatheredInOrder, AskedPlugins, InOrder
  <2> QED BY <2>2, <2>3 DEF Asks
<1>8. CASE AskOther
  <2>1. Dispatching /\ pending # {} /\ Asked # Llm
    BY <1>8 DEF AskOther, PluginsAssumption
  <2>2. <<>> \in Seq(Inputs) /\ <<Input("flat")>> \in Seq(Inputs)
    BY DEF Inputs, Input
  <2>3. Returned(<<>>) \/ Returned(<<Input("flat")>>) \/ Raised
    BY <1>8 DEF AskOther
  <2> QED BY <2>1, <2>2, <2>3, ReturnedKeeps, RaisedKeeps, Zenon
<1>9. CASE AskNoClient \/ GiveUp
  <2>1. Returned(<<>>)
    BY <1>9 DEF AskNoClient, GiveUp
  <2>2. Dispatching /\ pending # {}
    BY <1>9 DEF AskNoClient, GiveUp, Safe, Waiting
  <2>3. <<>> \in Seq(Inputs) /\ <<>> \in Seq(Clean)
    OBVIOUS
  <2> QED BY <2>1, <2>2, <2>3, ReturnedKeeps, Zenon
<1>10. CASE Join
  <2>1. Completed(container[joining]) /\ Dispatching /\ pending # {}
    BY <1>10 DEF Join, Slot, Safe, Waiting
  <2>2. container[joining] \in Slots
    <3>1. /\ container \in Seq(Slots) /\ Len(container) = Len(calls)
          /\ joining \in 0 .. Len(calls) /\ joining # 0
      BY <1>10 DEF Safe, Types, Join
    <3>2. joining \in 1 .. Len(container)
      BY <3>1
    <3> QED BY <3>1, <3>2, ElementOfSeq
  <2> QED BY <2>1, <2>2, CompletedKeeps, Zenon
<1> QED
  BY <1>2, <1>3, <1>4, <1>5, <1>6, <1>7, <1>8, <1>9, <1>10, Zenon DEF Next, Engine

LEMMA AlwaysAsks == Spec => []Asks
<1>1. Safe /\ Asks /\ [Next]_vars => Asks'
  BY AsksStep, PluginsAssumption, Zenon
<1> QED
  BY <1>1, AlwaysSafe, AsksInit, PTL DEF Spec

(* The handlers of every dispatch are asked by priority and registration, whatever    *)
(* their number; one that came back asked them all or ended with a resolver's answer, *)
(* and gives the engine what those that answered found, in that order.                *)
THEOREM AskedInOrderHolds == Spec => []AskedInOrder
<1>1. Asks => AskedInOrder
  <2> SUFFICES ASSUME Asks PROVE AskedInOrder
    OBVIOUS
  <2>0. AskTypes /\ Ordered /\ Complete /\ GatheredInOrder
    BY Zenon DEF Asks
  <2>1. ASSUME mode = "idle", asked # <<>>
        PROVE  LET answered == {i \in DOMAIN asked : asked[i].answered}
               IN  /\ \/ Ends(asked[Len(asked)])
                      \/ {asked[i].plugin : i \in DOMAIN asked} =
                            {p \in Plugins : asked[1].mode \in Handles[p]}
                   /\ {gathered[i].by : i \in DOMAIN gathered} = {asked[i].plugin : i \in answered}
                   /\ \A i, j \in DOMAIN gathered : i < j =>
                        gathered[i].by = gathered[j].by \/ InOrder(gathered[i].by, gathered[j].by)
    <3>1. pending = {} /\ Covered(asked[1].mode)
      BY <2>0, <2>1 DEF Complete
    <3>2. CASE \E i \in DOMAIN asked : Ends(asked[i])
      <4>1. PICK i \in DOMAIN asked : Ends(asked[i])
        BY <3>2
      <4>2. Len(asked) \in Nat /\ DOMAIN asked = 1 .. Len(asked)
        BY <2>0, LenProperties DEF AskTypes
      <4> DEFINE N == Len(asked)
      <4>3. ~(i < N)
        <5>1. i \in DOMAIN asked /\ N \in DOMAIN asked
          BY <4>2
        <5> QED BY <2>0, <4>1, <5>1, Zenon DEF Ordered
      <4> HIDE DEF N
      <4>4. i = N
        BY <4>2, <4>3 DEF N
      <4>5. Ends(asked[Len(asked)])
        BY <4>1, <4>4 DEF N
      <4> QED BY <2>0, <2>1, <4>5 DEF GatheredInOrder, AnsweredPlugins
    <3>3. CASE AskedPlugins = Handlers(asked[1].mode)
      BY <2>0, <2>1, <3>3 DEF GatheredInOrder, AnsweredPlugins, AskedPlugins, Handlers
    <3> QED BY <3>1, <3>2, <3>3 DEF Covered
  <2> QED BY <2>0, <2>1 DEF AskedInOrder, Ordered
<1> QED
  BY <1>1, AlwaysAsks, PTL

(* Whatever the service replies, no function is left in an input the LLM plugin gave *)
(* to a collecting dispatch.                                                         *)
THEOREM CollectedCleanHolds == Spec => []CollectedClean
<1>1. Asks => CollectedClean
  BY Zenon DEF Asks
<1> QED
  BY <1>1, AlwaysAsks, PTL
============================================================================
