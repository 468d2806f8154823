--------------------------- MODULE IsolatedRunner ---------------------------
(***************************************************************************)
(* run_isolated (engine/isolated_runner.py): a child process explores and  *)
(* reports over a pipe, a parent process reads the pipe and enforces a     *)
(* wall-clock deadline.                                                    *)
(*                                                                         *)
(* The child announces each attempt (iter_start), runs the target, records *)
(* the attempt and sends a checkpoint with all its records (progress); at  *)
(* the end it sends the final result, closes the pipe and exits.  It may   *)
(* die or stop moving at any point the target, or a thread the target left *)
(* behind, can make it.  The parent keeps the last checkpoint and one      *)
(* pending announcement, and builds its answer from them when the child    *)
(* does not deliver a final result.                                        *)
(*                                                                         *)
(* Attempts are numbered in the order the child starts them; arguments,    *)
(* coverage and outcomes are left out.                                     *)
(***************************************************************************)
EXTENDS Integers, Sequences, SequencesExt

CONSTANTS
    MaxAttempts,   \* bound: attempts the child may start
    Capacity,      \* bound: messages the pipe holds before a send blocks
    Unpicklable,   \* the target may make a recorded argument unpicklable
    DiesWriting,   \* the child may die between two writes of one message
    StallsWriting  \* the child may stop for ever between two such writes

ASSUME BoundsAssumption ==
    /\ MaxAttempts \in Nat \ {0}
    /\ Capacity \in Nat \ {0}
    /\ {Unpicklable, DiesWriting, StallsWriting} \subseteq BOOLEAN

VARIABLES
    child,       \* control state of the child process
    outbox,      \* the message the child is sending
    phase,       \* "main" or "post": which loop of the engine is running
    iteration,   \* state.iteration, which the post loop does not advance
    records,     \* state.records
    poisoned,    \* state.records cannot be pickled now
    pipe,        \* messages written and not read
    half,        \* the last message of pipe is only partly written
    parent,      \* control state of the parent process
    expired,     \* the deadline of _wait_for_result has passed
    checkpoint,  \* last_checkpoint: <<>> for None, else <<records>>
    pending,     \* pending: <<>> for None, else <<iter_start message>>
    result,      \* what run_isolated returns or raises
    announced,   \* history: attempts whose iter_start was written completely
    finalSent,   \* history: the final result was written completely
    silenced     \* history: a message of the child could not be pickled

childVars  == <<child, outbox, phase, iteration, records, poisoned, silenced>>
pipeVars   == <<pipe, half, announced, finalSent>>
parentVars == <<parent, expired, checkpoint, pending, result>>
vars       == <<childVars, pipeVars, parentVars>>

Attempts == 1..MaxAttempts

IterStart(idx, n) == [kind |-> "iter_start", idx |-> idx, inputs |-> <<n>>]
Progress(inputs)  == [kind |-> "progress", idx |-> 0, inputs |-> inputs]
Final(inputs)     == [kind |-> "final", idx |-> 0, inputs |-> inputs]

NoMessage == Final(<<>>)
NoResult  == [how |-> "none", inputs |-> <<>>, tombstone |-> <<>>]

Init ==
    /\ child = "importing"
    /\ outbox = NoMessage
    /\ phase = "main"
    /\ iteration = 0
    /\ records = <<>>
    /\ poisoned = FALSE
    /\ pipe = <<>>
    /\ half = FALSE
    /\ parent = "head"
    /\ expired = FALSE
    /\ checkpoint = <<>>
    /\ pending = <<>>
    /\ result = NoResult
    /\ announced = {}
    /\ finalSent = FALSE
    /\ silenced = FALSE

-----------------------------------------------------------------------------
(***************************************************************************)
(* The child.                                                              *)
(***************************************************************************)

\* The child turns to sending message.
Emit(message) == outbox' = message /\ child' = "sending"

\* _import_target: the target is found, or the wrapper failure is the final
\* result.
Import ==
    /\ child = "importing"
    /\ \/ child' = "idle" /\ UNCHANGED outbox
       \/ Emit(Final(<<>>))
    /\ UNCHANGED <<phase, iteration, records, poisoned, silenced, pipeVars, parentVars>>

\* emit_iter_start, which either loop of the engine fires before it runs the
\* target.
StartAttempt ==
    /\ child = "idle"
    /\ Len(records) < MaxAttempts
    /\ Emit(IterStart(iteration, Len(records) + 1))
    /\ UNCHANGED <<phase, iteration, records, poisoned, silenced, pipeVars, parentVars>>

\* The target ran and the attempt is recorded.  The records hold the very
\* containers the target was given, so it may have put an unpicklable value
\* in one, or taken it out again.
RunTarget ==
    /\ child = "running"
    /\ records' = Append(records, Len(records) + 1)
    /\ iteration' = IF phase = "main" THEN iteration + 1 ELSE iteration
    /\ poisoned' \in IF Unpicklable THEN BOOLEAN ELSE {FALSE}
    /\ Emit(Progress(records'))
    /\ UNCHANGED <<phase, silenced, pipeVars, parentVars>>

\* The main loop is over and run_post_loop_discovery begins.
EnterPostLoop ==
    /\ child = "idle"
    /\ phase = "main"
    /\ phase' = "post"
    /\ UNCHANGED <<child, outbox, iteration, records, poisoned, silenced, pipeVars, parentVars>>

\* explore returns, and the result carries every record.
ExploreReturns ==
    /\ child = "idle"
    /\ Emit(Final(records))
    /\ UNCHANGED <<phase, iteration, records, poisoned, silenced, pipeVars, parentVars>>

\* An exception leaves the exploration between two attempts (a plugin, the
\* solver's executable or its output): the result carries no record.
ExploreFails ==
    /\ child = "idle"
    /\ Emit(Final(<<>>))
    /\ UNCHANGED <<phase, iteration, records, poisoned, silenced, pipeVars, parentVars>>

\* A message that carries records can be pickled unless one is poisoned; an
\* announcement that shares a poisoned container with them cannot either.
MaySend == outbox.kind # "iter_start" /\ poisoned => outbox.inputs = <<>>
MayFail == poisoned /\ (outbox.kind = "iter_start" \/ outbox.inputs # <<>>)

\* Where the child goes on once the message is dealt with.
AfterSend ==
    CASE outbox.kind = "iter_start" -> "running"
      [] outbox.kind = "progress"   -> "idle"
      [] outbox.kind = "final"      -> "closing"

\* The whole message is in the pipe.
Delivered ==
    /\ child' = AfterSend
    /\ announced' = IF outbox.kind = "iter_start"
                    THEN announced \cup {outbox.inputs[1]}
                    ELSE announced
    /\ finalSent' = (finalSent \/ outbox.kind = "final")
    /\ UNCHANGED <<outbox, phase, iteration, records, poisoned, silenced, parentVars>>

\* pipe.send of a short message: one write.
Send ==
    /\ child = "sending"
    /\ MaySend
    /\ Len(pipe) < Capacity
    /\ pipe' = Append(pipe, outbox)
    /\ UNCHANGED half
    /\ Delivered

\* pipe.send of a long message: the header first.
BeginWrite ==
    /\ child = "sending"
    /\ MaySend
    /\ Len(pipe) < Capacity
    /\ pipe' = Append(pipe, outbox)
    /\ half' = TRUE
    /\ child' = "writing"
    /\ UNCHANGED <<outbox, phase, iteration, records, poisoned, silenced, announced,
                   finalSent, parentVars>>

\* ... and then the rest.
EndWrite ==
    /\ child = "writing"
    /\ half' = FALSE
    /\ UNCHANGED pipe
    /\ Delivered

\* pickling fails before anything is written.  The engine swallows what its
\* callbacks raise; after the final result the child closes the pipe anyway.
SendFails ==
    /\ child = "sending"
    /\ MayFail
    /\ child' = AfterSend
    /\ silenced' = TRUE
    /\ UNCHANGED <<outbox, phase, iteration, records, poisoned, pipeVars, parentVars>>

\* pipe.close; a thread of the target may still keep the process alive.
ClosePipe ==
    /\ child = "closing"
    /\ child' = "closed"
    /\ UNCHANGED <<outbox, phase, iteration, records, poisoned, silenced, pipeVars, parentVars>>

\* The process ends: by itself, by a signal, or by an exception that neither
\* the engine nor _child_entry catches.  The kernel closes the pipe.
Exit ==
    /\ child # "dead"
    /\ child = "writing" => DiesWriting
    /\ child' = "dead"
    /\ UNCHANGED <<outbox, phase, iteration, records, poisoned, silenced, pipeVars, parentVars>>

-----------------------------------------------------------------------------
(***************************************************************************)
(* The parent.                                                             *)
(***************************************************************************)

NoWriter == child \in {"closed", "dead"}   \* no writer is left on the pipe
Torn == half /\ Len(pipe) = 1              \* the message to read is partial

\* time.monotonic() reaches the deadline.
Expire ==
    /\ ~expired
    /\ parent # "returned"
    /\ expired' = TRUE
    /\ UNCHANGED <<childVars, pipeVars, parent, checkpoint, pending, result>>

Finalize__PendingAsRecord(how) ==
    /\ result' = [how       |-> how,
                  inputs    |-> (IF checkpoint = <<>> THEN <<>> ELSE checkpoint[1])
                                \o (IF pending = <<>> THEN <<>> ELSE pending[1].inputs),
                  tombstone |-> <<>>]
    /\ parent' = "reaping"
    /\ UNCHANGED <<expired, checkpoint, pending>>

\* _finalize: the last checkpoint, with a tombstone for the pending attempt.
\* The wrapper failure, when neither exists, holds no input.
Finalize(how) ==
    /\ result' = [how       |-> how,
                  inputs    |-> IF checkpoint = <<>> THEN <<>> ELSE checkpoint[1],
                  tombstone |-> IF pending = <<>> THEN <<>> ELSE pending[1].inputs]
    /\ parent' = "reaping"
    /\ UNCHANGED <<expired, checkpoint, pending>>

\* The head of the loop, the deadline not reached.
KeepWaiting ==
    /\ parent = "head"
    /\ ~expired
    /\ parent' = "waiting"
    /\ UNCHANGED <<childVars, pipeVars, expired, checkpoint, pending, result>>

\* The head of the loop, the deadline reached: kill the child; what the pipe
\* still holds is not read.
Watchdog ==
    /\ parent = "head"
    /\ expired
    /\ child' = "dead"
    /\ Finalize("deadline")
    /\ UNCHANGED <<outbox, phase, iteration, records, poisoned, silenced, pipeVars>>

\* wait() returns with nothing ready.
WaitTimesOut ==
    /\ parent = "waiting"
    /\ expired
    /\ pipe = <<>>
    /\ ~NoWriter
    /\ parent' = "head"
    /\ UNCHANGED <<childVars, pipeVars, expired, checkpoint, pending, result>>

\* wait() reports the connection: the parent enters recv, which has no
\* timeout.
ConnectionReady ==
    /\ parent = "waiting"
    /\ pipe # <<>> \/ NoWriter
    /\ parent' = "receiving"
    /\ UNCHANGED <<childVars, pipeVars, expired, checkpoint, pending, result>>

SentinelReady__First ==
    /\ parent = "waiting"
    /\ child = "dead"
    /\ Finalize("exit")
    /\ UNCHANGED <<childVars, pipeVars>>

\* wait() reports the sentinel alone: the child is gone, and the pipe is empty
\* or the connection would be ready too.
SentinelReady ==
    /\ parent = "waiting"
    /\ child = "dead"
    /\ pipe = <<>>
    /\ Finalize("exit")
    /\ UNCHANGED <<childVars, pipeVars>>

\* recv returns a whole message.
Receive(kind) ==
    /\ parent = "receiving"
    /\ pipe # <<>>
    /\ ~Torn
    /\ Head(pipe).kind = kind
    /\ pipe' = Tail(pipe)
    /\ UNCHANGED <<childVars, half, announced, finalSent, expired>>

ReceiveIterStart ==
    /\ Receive("iter_start")
    /\ pending' = <<Head(pipe)>>
    /\ parent' = "head"
    /\ UNCHANGED <<checkpoint, result>>

ReceiveProgress__OffByOne ==
    /\ Receive("progress")
    /\ checkpoint' = <<Head(pipe).inputs>>
    /\ pending' = IF pending # <<>> /\ Len(Head(pipe).inputs) > pending[1].idx + 1
                  THEN <<>> ELSE pending
    /\ parent' = "head"
    /\ UNCHANGED result

\* A checkpoint settles the pending attempt when it holds more records than
\* the attempt's index.
ReceiveProgress ==
    /\ Receive("progress")
    /\ checkpoint' = <<Head(pipe).inputs>>
    /\ pending' = IF pending # <<>> /\ Len(Head(pipe).inputs) > pending[1].idx
                  THEN <<>> ELSE pending
    /\ parent' = "head"
    /\ UNCHANGED result

ReceiveFinal ==
    /\ Receive("final")
    /\ result' = [how |-> "final", inputs |-> Head(pipe).inputs, tombstone |-> <<>>]
    /\ parent' = "reaping"
    /\ UNCHANGED <<checkpoint, pending>>

\* recv raises EOFError: the pipe is empty and closed, or the child died when
\* it had written no more than a message's header.
ReceiveEof ==
    /\ parent = "receiving"
    /\ NoWriter
    /\ pipe = <<>> \/ Torn
    /\ Finalize("eof")
    /\ UNCHANGED <<childVars, pipeVars>>

\* recv raises OSError, which nothing catches: the child died in the header
\* or in the body of a message.
ReceiveTruncated ==
    /\ parent = "receiving"
    /\ NoWriter
    /\ Torn
    /\ result' = [how |-> "raised", inputs |-> <<>>, tombstone |-> <<>>]
    /\ parent' = "reaping"
    /\ UNCHANGED <<childVars, pipeVars, expired, checkpoint, pending>>

Reap__JoinForever ==
    /\ parent = "reaping"
    /\ child = "dead"
    /\ parent' = "returned"
    /\ UNCHANGED <<childVars, pipeVars, expired, checkpoint, pending, result>>

\* _reap_child: join, and kill a child that has not exited in time.
Reap ==
    /\ parent = "reaping"
    /\ parent' = "returned"
    /\ child' = "dead"
    /\ UNCHANGED <<outbox, phase, iteration, records, poisoned, silenced, pipeVars,
                   expired, checkpoint, pending, result>>

\* run_isolated has returned.
Returned == parent = "returned" /\ UNCHANGED vars

ParentNext ==
    \/ KeepWaiting \/ Watchdog \/ WaitTimesOut \/ ConnectionReady \/ SentinelReady
    \/ ReceiveIterStart \/ ReceiveProgress \/ ReceiveFinal
    \/ ReceiveEof \/ ReceiveTruncated \/ Reap

ChildNext ==
    \/ Import \/ StartAttempt \/ RunTarget \/ EnterPostLoop
    \/ ExploreReturns \/ ExploreFails
    \/ Send \/ BeginWrite \/ EndWrite \/ SendFails \/ ClosePipe \/ Exit

Next == ChildNext \/ ParentNext \/ Expire \/ Returned

\* The clock moves and the parent is scheduled.  The child owes nothing, except
\* that a message it began to write is written unless StallsWriting.
Fairness ==
    /\ WF_vars(ParentNext)
    /\ WF_vars(Expire)
    /\ ~StallsWriting => WF_vars(EndWrite)

Spec == Init /\ [][Next]_vars /\ Fairness

-----------------------------------------------------------------------------
(***************************************************************************)
(* Properties.                                                             *)
(***************************************************************************)

Messages ==
    [kind : {"iter_start", "progress", "final"}, idx : 0..MaxAttempts,
     inputs : Seq(Attempts)]

\* Types of the variables of the two processes and of the pipe between them.
TypeOK ==
    /\ child \in {"importing", "idle", "sending", "writing", "running",
                  "closing", "closed", "dead"}
    /\ outbox \in Messages
    /\ phase \in {"main", "post"}
    /\ iteration \in 0..MaxAttempts
    /\ records \in Seq(Attempts)
    /\ poisoned \in BOOLEAN
    /\ pipe \in Seq(Messages) /\ Len(pipe) <= Capacity
    /\ half \in BOOLEAN
    /\ half => pipe # <<>>
    /\ parent \in {"head", "waiting", "receiving", "reaping", "returned"}
    /\ expired \in BOOLEAN
    /\ checkpoint \in Seq(Seq(Attempts)) /\ Len(checkpoint) <= 1
    /\ pending \in Seq(Messages) /\ Len(pending) <= 1
    /\ result \in [how : {"none", "final", "eof", "exit", "deadline", "raised"},
                   inputs : Seq(Attempts), tombstone : Seq(Attempts)]
    /\ Len(result.tombstone) <= 1
    /\ announced \subseteq Attempts
    /\ finalSent \in BOOLEAN
    /\ silenced \in BOOLEAN

\* Attempts whose announcement is still in the pipe.
Unread == {pipe[i].inputs[1] : i \in {j \in DOMAIN pipe : pipe[j].kind = "iter_start"}}

\* The attempts an answer shows, in order.
Shown == result.inputs \o result.tombstone

\* When the child is lost, the answer run_isolated puts together shows exactly
\* the attempts whose announcement the parent has read, each once and in the
\* order they were made: none is dropped, none appears both as a record and as
\* a tombstone (_wait_for_result's pending slot and its idx test, over both
\* loops of the engine, and _augment_with_tombstone).
LostChildAccounted ==
    result.how \in {"eof", "exit", "deadline"} /\ ~silenced =>
        /\ IsInjective(Shown)
        /\ \A i, j \in DOMAIN Shown : i < j => Shown[i] < Shown[j]
        /\ ToSet(Shown) = announced \ Unread

\* Whatever happens to the child, the parent's checkpoint is an initial part of
\* what the child recorded, and so is the answer without its tombstone: nothing
\* is invented, reordered or taken from a later run.
CheckpointTrue ==
    /\ checkpoint # <<>> => IsPrefix(checkpoint[1], records)
    /\ IsPrefix(result.inputs, records)

\* A final result that the child wrote is the answer, whatever the child does
\* next, unless the deadline passed before the parent read it; and only then is
\* an answer called final (the connection is read before the sentinel).
FinalPreferred ==
    parent \in {"reaping", "returned"} =>
        /\ finalSent => result.how \in {"final", "deadline"}
        /\ result.how = "final" => finalSent

\* run_isolated comes back, whatever the child does between its messages.
ComesBack == <>(parent = "returned")

=============================================================================
