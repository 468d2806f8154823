------------------------ MODULE IsolatedRunnerProofs ------------------------
(***************************************************************************)
(* Proofs about IsolatedRunner, for every number of attempts, every        *)
(* capacity of the pipe, and whatever the child may do to its records and  *)
(* in the middle of a write.                                               *)
(***************************************************************************)
EXTENDS IsolatedRunner, TLAPS, SequenceTheorems

-----------------------------------------------------------------------------
(* Type correctness.  The index an announcement carries is the iteration   *)
(* counter, which never exceeds the number of records and so stays below   *)
(* the number of the attempt announced.                                    *)
WellFormed(m) ==
    m.kind = "iter_start" => Len(m.inputs) = 1 /\ m.idx < m.inputs[1]

Announcing ==
    \/ child = "running"
    \/ child \in {"sending", "writing"} /\ outbox.kind = "iter_start"

Types ==
    /\ TypeOK
    /\ iteration <= Len(records)
    /\ Len(records) <= MaxAttempts
    /\ Announcing => Len(records) < MaxAttempts
    /\ WellFormed(outbox)
    /\ \A i \in DOMAIN pipe : WellFormed(pipe[i])
    /\ pending # <<>> => pending[1].kind = "iter_start" /\ WellFormed(pending[1])

LEMMA TypesInit == Init => Types
<1> SUFFICES ASSUME Init PROVE Types
  OBVIOUS
<1>1. MaxAttempts \in Nat /\ Capacity \in Nat
  BY BoundsAssumption
<1>2. /\ outbox = NoMessage /\ records = <<>> /\ pipe = <<>> /\ checkpoint = <<>>
      /\ pending = <<>> /\ result = NoResult /\ iteration = 0 /\ announced = {}
      /\ child = "importing" /\ phase = "main" /\ parent = "head"
      /\ poisoned = FALSE /\ half = FALSE /\ expired = FALSE /\ finalSent = FALSE
      /\ silenced = FALSE
  BY DEF Init
<1>3. /\ records \in Seq(Attempts) /\ pipe \in Seq(Messages) /\ pending \in Seq(Messages)
      /\ checkpoint \in Seq(Seq(Attempts))
      /\ Len(records) = 0 /\ Len(pipe) = 0 /\ Len(pending) = 0 /\ Len(checkpoint) = 0
  BY <1>2, EmptySeq
<1>4. <<>> \in Seq(Attempts) /\ Len(<<>>) = 0
  BY EmptySeq
<1>5. outbox \in Messages /\ outbox.kind = "final" /\ WellFormed(outbox)
  BY <1>1, <1>2, <1>4 DEF NoMessage, Final, Messages, WellFormed
<1>6. /\ result \in [how : {"none", "final", "eof", "exit", "deadline", "raised"},
                    inputs : Seq(Attempts), tombstone : Seq(Attempts)]
      /\ Len(result.tombstone) <= 1
  BY <1>2, <1>4 DEF NoResult
<1>7. TypeOK
  <2>1. 0 \in 0 .. MaxAttempts /\ 0 <= Capacity /\ 0 <= 1
    BY <1>1
  <2>2. /\ child \in {"importing", "idle", "sending", "writing", "running",
                      "closing", "closed", "dead"}
        /\ phase \in {"main", "post"}
        /\ parent \in {"head", "waiting", "receiving", "reaping", "returned"}
    BY <1>2, Zenon
  <2>3. /\ poisoned \in BOOLEAN /\ half \in BOOLEAN /\ expired \in BOOLEAN
        /\ finalSent \in BOOLEAN /\ silenced \in BOOLEAN /\ ~half
    BY <1>2, Zenon
  <2>4. announced \subseteq Attempts
    BY <1>2, Zenon
  <2> QED
    BY <1>2, <1>3, <1>5, <1>6, <2>1, <2>2, <2>3, <2>4, Zenon DEF TypeOK
<1>8. ~Announcing
  BY <1>2, Zenon DEF Announcing
<1>9. \A i \in DOMAIN pipe : WellFormed(pipe[i])
  BY <1>2
<1>10. iteration <= Len(records) /\ Len(records) <= MaxAttempts
  BY <1>1, <1>2, <1>3
<1> QED
  BY <1>2, <1>5, <1>7, <1>8, <1>9, <1>10, Zenon DEF Types

(* Appending a message that is well formed keeps the pipe so. *)
LEMMA AppendWellFormed ==
  ASSUME NEW s \in Seq(Messages), NEW m \in Messages, WellFormed(m),
         \A i \in DOMAIN s : WellFormed(s[i])
  PROVE  /\ Append(s, m) \in Seq(Messages) /\ Len(Append(s, m)) = Len(s) + 1
         /\ \A i \in DOMAIN Append(s, m) : WellFormed(Append(s, m)[i])
<1>1. /\ Append(s, m) \in Seq(Messages) /\ Len(Append(s, m)) = Len(s) + 1
      /\ \A i \in 1 .. Len(s) : Append(s, m)[i] = s[i]
      /\ Append(s, m)[Len(s) + 1] = m
      /\ DOMAIN s = 1 .. Len(s) /\ DOMAIN Append(s, m) = 1 .. Len(s) + 1
      /\ Len(s) \in Nat
  BY AppendProperties, LenProperties
<1>2. \A i \in 1 .. Len(s) + 1 : i \in 1 .. Len(s) \/ i = Len(s) + 1
  BY <1>1
<1> QED
  BY <1>1, <1>2, Zenon

(* Reading the first message keeps it so too. *)
LEMMA TailWellFormed ==
  ASSUME NEW s \in Seq(Messages), s # <<>>, \A i \in DOMAIN s : WellFormed(s[i])
  PROVE  /\ Tail(s) \in Seq(Messages) /\ Len(Tail(s)) = Len(s) - 1
         /\ Head(s) \in Messages /\ Head(s) = s[1] /\ WellFormed(Head(s))
         /\ \A i \in DOMAIN Tail(s) : WellFormed(Tail(s)[i])
<1>1. /\ Head(s) \in Messages /\ Tail(s) \in Seq(Messages) /\ Len(Tail(s)) = Len(s) - 1
      /\ \A i \in 1 .. Len(s) - 1 : Tail(s)[i] = s[i + 1]
      /\ DOMAIN s = 1 .. Len(s) /\ DOMAIN Tail(s) = 1 .. Len(s) - 1
      /\ Len(s) \in Nat \ {0} /\ Head(s) = s[1]
  BY HeadTailProperties, EmptySeq, LenProperties
<1>2. \A i \in 1 .. Len(s) - 1 : i + 1 \in 1 .. Len(s)
  BY <1>1
<1>3. 1 \in 1 .. Len(s)
  BY <1>1
<1> QED
  BY <1>1, <1>2, <1>3, Zenon

(* What the child puts together to send is a message. *)
LEMMA MessageTypes ==
  /\ \A idx \in 0 .. MaxAttempts, n \in Attempts :
        IterStart(idx, n) \in Messages /\ (idx < n => WellFormed(IterStart(idx, n)))
  /\ \A s \in Seq(Attempts) :
        /\ Progress(s) \in Messages /\ WellFormed(Progress(s))
        /\ Final(s) \in Messages /\ WellFormed(Final(s))
  /\ Final(<<>>) \in Messages /\ WellFormed(Final(<<>>))
<1>1. MaxAttempts \in Nat
  BY BoundsAssumption
<1>2. ASSUME NEW idx \in 0 .. MaxAttempts, NEW n \in Attempts
      PROVE  IterStart(idx, n) \in Messages /\ (idx < n => WellFormed(IterStart(idx, n)))
  <2>1. <<n>> \in Seq(Attempts) /\ Len(<<n>>) = 1 /\ <<n>>[1] = n
    OBVIOUS
  <2> QED
    BY <2>1 DEF IterStart, Messages, WellFormed
<1>3. ASSUME NEW s \in Seq(Attempts)
      PROVE  /\ Progress(s) \in Messages /\ WellFormed(Progress(s))
             /\ Final(s) \in Messages /\ WellFormed(Final(s))
  BY <1>1 DEF Progress, Final, Messages, WellFormed
<1>4. <<>> \in Seq(Attempts)
  BY EmptySeq
<1> QED
  BY <1>2, <1>3, <1>4

LEMMA ChildTypes == Types /\ ChildNext => Types'
<1> SUFFICES ASSUME Types, ChildNext PROVE Types'
  OBVIOUS
<1> USE DEF Types, pipeVars, parentVars, Announcing
<1>0. MaxAttempts \in Nat /\ Capacity \in Nat
  BY BoundsAssumption
<1>1. CASE Import
  BY <1>1, MessageTypes DEF Import, Emit, TypeOK, Final
<1>2. CASE StartAttempt
  <2>1. Len(records) + 1 \in Attempts /\ iteration < Len(records) + 1
    BY <1>0, <1>2 DEF StartAttempt, TypeOK, Attempts
  <2>2. outbox' \in Messages /\ WellFormed(outbox')
    BY <1>2, <2>1, MessageTypes DEF StartAttempt, Emit, TypeOK
  <2> QED
    BY <1>2, <2>2 DEF StartAttempt, Emit, TypeOK
<1>3. CASE RunTarget
  <2>1. Len(records) + 1 \in Attempts
    BY <1>0, <1>3 DEF RunTarget, TypeOK, Attempts
  <2>2. records' \in Seq(Attempts) /\ Len(records') = Len(records) + 1
    BY <1>3, <2>1, AppendProperties DEF RunTarget, TypeOK
  <2>3. outbox' = Progress(records') /\ child' = "sending"
    BY <1>3 DEF RunTarget, Emit
  <2>4. outbox' \in Messages /\ WellFormed(outbox') /\ outbox'.kind = "progress"
    BY <2>2, <2>3, MessageTypes DEF Progress
  <2>5. iteration' \in 0 .. MaxAttempts /\ iteration' <= Len(records')
        /\ Len(records') <= MaxAttempts
    BY <1>0, <1>3, <2>2 DEF RunTarget, TypeOK
  <2>6. poisoned' \in BOOLEAN
    BY <1>3 DEF RunTarget
  <2> QED
    BY <1>3, <2>2, <2>3, <2>4, <2>5, <2>6 DEF RunTarget, TypeOK
<1>4. CASE EnterPostLoop
  BY <1>4 DEF EnterPostLoop, TypeOK
<1>5. CASE ExploreReturns \/ ExploreFails
  <2>1. /\ outbox' \in Messages /\ WellFormed(outbox') /\ outbox'.kind = "final"
        /\ child' = "sending"
    BY <1>5, MessageTypes DEF ExploreReturns, ExploreFails, Emit, TypeOK, Final
  <2> QED
    BY <1>5, <2>1 DEF ExploreReturns, ExploreFails, TypeOK
<1>6. CASE Send \/ BeginWrite
  <2>1. /\ pipe' \in Seq(Messages) /\ Len(pipe') = Len(pipe) + 1
        /\ \A i \in DOMAIN pipe' : WellFormed(pipe'[i])
    BY <1>6, AppendWellFormed DEF Send, BeginWrite, TypeOK
  <2>2. Len(pipe') <= Capacity /\ pipe' # <<>>
    BY <1>0, <1>6, <2>1, EmptySeq DEF Send, BeginWrite, TypeOK
  <2>3. half' \in BOOLEAN
    BY <1>6 DEF Send, BeginWrite, TypeOK
  <2>4. /\ outbox' = outbox
        /\ child' = "writing" \/ child' = AfterSend
        /\ child = "sending"
    BY <1>6 DEF Send, BeginWrite, Delivered
  <2>5. outbox.kind \in {"iter_start", "progress", "final"}
    BY DEF TypeOK, Messages
  <2>6. /\ child' \in {"writing", "running", "idle", "closing"}
        /\ Announcing' => Announcing
    BY <2>4, <2>5 DEF AfterSend
  <2>7. announced' \subseteq Attempts /\ finalSent' \in BOOLEAN
    <3>1. outbox.kind = "iter_start" => outbox.inputs[1] \in Attempts
      BY ElementOfSeq DEF WellFormed, TypeOK, Messages
    <3>2. finalSent' = finalSent \/ finalSent' = (finalSent \/ outbox.kind = "final")
      BY <1>6, Zenon DEF Send, BeginWrite, Delivered
    <3>3. finalSent' \in BOOLEAN
      BY <3>2, Zenon DEF TypeOK
    <3>4. announced' \subseteq Attempts
      BY <1>6, <3>1 DEF Send, BeginWrite, Delivered, TypeOK
    <3> QED
      BY <3>3, <3>4
  <2>8. UNCHANGED <<phase, iteration, records, poisoned, silenced, parent, expired,
                    checkpoint, pending, result>>
    BY <1>6 DEF Send, BeginWrite, Delivered
  <2> QED
    BY <2>1, <2>2, <2>3, <2>4, <2>6, <2>7, <2>8 DEF TypeOK
<1>7. CASE EndWrite
  <2>1. outbox.kind \in {"iter_start", "progress", "final"} /\ outbox' = outbox
    BY <1>7 DEF TypeOK, Messages, EndWrite, Delivered
  <2>2. /\ child' \in {"running", "idle", "closing"}
        /\ Announcing' => Announcing
    BY <1>7, <2>1 DEF EndWrite, Delivered, AfterSend
  <2>3. announced' \subseteq Attempts
    <3>1. outbox.kind = "iter_start" => outbox.inputs[1] \in Attempts
      BY ElementOfSeq DEF WellFormed, TypeOK, Messages
    <3> QED
      BY <1>7, <3>1 DEF EndWrite, Delivered, TypeOK
  <2>4. finalSent' \in BOOLEAN
    <3>1. finalSent' = (finalSent \/ outbox.kind = "final")
      BY <1>7, Zenon DEF EndWrite, Delivered
    <3> QED
      BY <3>1, Zenon DEF TypeOK
  <2>5. half' = FALSE /\ UNCHANGED <<pipe, phase, iteration, records, poisoned, silenced,
                                     parent, expired, checkpoint, pending, result>>
    BY <1>7 DEF EndWrite, Delivered
  <2> QED
    BY <2>1, <2>2, <2>3, <2>4, <2>5 DEF TypeOK
<1>8. CASE SendFails
  <2>1. outbox.kind \in {"iter_start", "progress", "final"} /\ outbox' = outbox
    BY <1>8 DEF TypeOK, Messages, SendFails
  <2>2. /\ child' \in {"running", "idle", "closing"}
        /\ Announcing' => Announcing
    BY <1>8, <2>1 DEF SendFails, AfterSend
  <2> QED
    BY <1>8, <2>1, <2>2 DEF SendFails, TypeOK
<1>9. CASE ClosePipe \/ Exit
  BY <1>9 DEF ClosePipe, Exit, TypeOK
<1> QED
  BY <1>1, <1>2, <1>3, <1>4, <1>5, <1>6, <1>7, <1>8, <1>9 DEF ChildNext

LEMMA ParentTypes == Types /\ (ParentNext \/ Expire \/ Returned) => Types'
<1> SUFFICES ASSUME Types, ParentNext \/ Expire \/ Returned PROVE Types'
  OBVIOUS
<1> USE DEF Types, childVars, pipeVars, parentVars, Announcing
<1>1. CASE KeepWaiting \/ WaitTimesOut \/ ConnectionReady \/ Reap \/ Expire \/ Returned
  <2>1. UNCHANGED <<outbox, phase, iteration, records, poisoned, silenced, pipe, half,
                    announced, finalSent, checkpoint, pending, result>>
    BY <1>1 DEF KeepWaiting, WaitTimesOut, ConnectionReady, Reap, Expire, Returned, vars
  <2>2. child' = child \/ child' = "dead"
    BY <1>1 DEF KeepWaiting, WaitTimesOut, ConnectionReady, Reap, Expire, Returned, vars
  <2>3. expired' = expired \/ expired' = TRUE
    BY <1>1 DEF KeepWaiting, WaitTimesOut, ConnectionReady, Reap, Expire, Returned, vars
  <2>4. expired' \in BOOLEAN
    BY <2>3, Zenon DEF TypeOK
  <2>5. parent' \in {"head", "waiting", "receiving", "reaping", "returned"}
    BY <1>1 DEF KeepWaiting, WaitTimesOut, ConnectionReady, Reap, Expire, Returned, vars, TypeOK
  <2> QED
    BY <2>1, <2>2, <2>4, <2>5 DEF TypeOK
(* An answer put together from the checkpoint and the pending announcement. *)
<1>2. ASSUME NEW how \in {"eof", "exit", "deadline"}, Finalize(how)
      PROVE  /\ parent' = "reaping" /\ UNCHANGED <<expired, checkpoint, pending>>
             /\ result' \in [how : {"none", "final", "eof", "exit", "deadline", "raised"},
                             inputs : Seq(Attempts), tombstone : Seq(Attempts)]
             /\ Len(result'.tombstone) <= 1
  <2> DEFINE shown == IF checkpoint = <<>> THEN <<>> ELSE checkpoint[1]
             lost  == IF pending = <<>> THEN <<>> ELSE pending[1].inputs
  <2>1. shown \in Seq(Attempts)
    <3>1. CASE checkpoint = <<>>
      BY <3>1, EmptySeq
    <3>2. CASE checkpoint # <<>>
      <4>1. 1 \in 1 .. Len(checkpoint)
        BY <3>2, EmptySeq DEF TypeOK
      <4> QED
        BY <3>2, <4>1, ElementOfSeq DEF TypeOK
    <3> QED BY <3>1, <3>2
  <2>2. lost \in Seq(Attempts) /\ Len(lost) <= 1
    <3>1. CASE pending = <<>>
      BY <3>1, EmptySeq
    <3>2. CASE pending # <<>>
      <4>1. 1 \in 1 .. Len(pending)
        BY <3>2, EmptySeq DEF TypeOK
      <4>2. pending[1] \in Messages
        BY <4>1, ElementOfSeq DEF TypeOK
      <4>3. pending[1].kind = "iter_start" /\ WellFormed(pending[1])
        BY <3>2
      <4>4. Len(pending[1].inputs) = 1
        BY <4>3 DEF WellFormed
      <4>5. pending[1].inputs \in Seq(Attempts)
        BY <4>2 DEF Messages
      <4>6. lost = pending[1].inputs
        BY <3>2, Zenon
      <4>7. Len(pending[1].inputs) <= 1
        BY <4>4
      <4> QED
        BY <4>5, <4>6, <4>7, Zenon
    <3> QED BY <3>1, <3>2
  <2>3. result' = [how |-> how, inputs |-> shown, tombstone |-> lost]
    BY <1>2, Zenon DEF Finalize
  <2> HIDE DEF shown, lost
  <2> QED
    BY <1>2, <2>1, <2>2, <2>3 DEF Finalize
<1>3. CASE Watchdog
  BY <1>2, <1>3 DEF Watchdog, TypeOK
<1>4. CASE SentinelReady
  BY <1>2, <1>4 DEF SentinelReady, TypeOK
<1>5. CASE ReceiveEof
  BY <1>2, <1>5 DEF ReceiveEof, TypeOK
<1>6. CASE ReceiveTruncated
  <2>1. <<>> \in Seq(Attempts) /\ Len(<<>>) = 0
    BY EmptySeq
  <2>2. /\ result' \in [how : {"none", "final", "eof", "exit", "deadline", "raised"},
                        inputs : Seq(Attempts), tombstone : Seq(Attempts)]
        /\ Len(result'.tombstone) <= 1
    BY <1>6, <2>1 DEF ReceiveTruncated
  <2> QED
    BY <1>6, <2>2 DEF ReceiveTruncated, TypeOK
(* What every receipt has in common. *)
<1>7. ASSUME NEW kind, Receive(kind)
      PROVE  /\ pipe' \in Seq(Messages) /\ Len(pipe') <= Capacity
             /\ half' => pipe' # <<>>
             /\ \A i \in DOMAIN pipe' : WellFormed(pipe'[i])
             /\ Head(pipe) \in Messages /\ Head(pipe) = pipe[1] /\ WellFormed(Head(pipe))
             /\ Head(pipe).kind = kind
             /\ UNCHANGED <<childVars, half, announced, finalSent, expired>>
  <2>1. /\ pipe' = Tail(pipe) /\ pipe # <<>> /\ pipe \in Seq(Messages)
        /\ Len(pipe) <= Capacity
        /\ half' = half /\ ~(half /\ Len(pipe) = 1)
    BY <1>7 DEF Receive, Torn, TypeOK
  <2>2. /\ pipe' \in Seq(Messages) /\ Len(pipe') = Len(pipe) - 1 /\ Len(pipe) \in Nat
        /\ \A i \in DOMAIN pipe' : WellFormed(pipe'[i])
        /\ Head(pipe) \in Messages /\ Head(pipe) = pipe[1] /\ WellFormed(Head(pipe))
    BY <2>1, TailWellFormed, LenProperties
  <2>3. half' => pipe' # <<>>
    <3>1. half' => Len(pipe) # 1
      BY <2>1, Zenon
    <3>2. Len(pipe) # 1 => Len(pipe') # 0
      BY <2>2
    <3>3. Len(pipe') # 0 => pipe' # <<>>
      BY EmptySeq, Zenon
    <3> QED
      BY <3>1, <3>2, <3>3, Zenon
  <2>4. Len(pipe') <= Capacity
    <3>1. Capacity \in Nat
      BY BoundsAssumption
    <3> QED
      BY <2>1, <2>2, <3>1
  <2> QED
    BY <1>7, <2>2, <2>3, <2>4 DEF Receive
<1>8. CASE ReceiveIterStart
  <2>1. /\ pending' \in Seq(Messages) /\ Len(pending') = 1 /\ pending'[1] = Head(pipe)
        /\ pending'[1].kind = "iter_start" /\ WellFormed(pending'[1])
    BY <1>7, <1>8 DEF ReceiveIterStart
  <2> QED
    BY <1>7, <1>8, <2>1 DEF ReceiveIterStart, TypeOK
<1>9. CASE ReceiveProgress
  <2>1. checkpoint' \in Seq(Seq(Attempts)) /\ Len(checkpoint') = 1
    <3>1. Head(pipe).inputs \in Seq(Attempts)
      BY <1>7, <1>9 DEF ReceiveProgress, Messages
    <3> QED
      BY <1>9, <3>1 DEF ReceiveProgress
  <2>2. pending' = <<>> \/ pending' = pending
    BY <1>9 DEF ReceiveProgress
  <2>3. /\ pending' \in Seq(Messages) /\ Len(pending') <= 1
        /\ pending' # <<>> => pending'[1].kind = "iter_start" /\ WellFormed(pending'[1])
    <3>1. CASE pending' = <<>>
      BY <3>1, EmptySeq
    <3>2. CASE pending' = pending
      BY <3>2, Zenon DEF TypeOK
    <3> QED
      BY <2>2, <3>1, <3>2, Zenon
  <2>4. parent' = "head" /\ result' = result /\ Receive("progress")
    BY <1>9 DEF ReceiveProgress
  <2> QED
    BY <1>7, <2>1, <2>3, <2>4 DEF TypeOK
<1>10. CASE ReceiveFinal
  <2>1. Head(pipe).inputs \in Seq(Attempts) /\ <<>> \in Seq(Attempts) /\ Len(<<>>) = 0
    BY <1>7, <1>10, EmptySeq DEF ReceiveFinal, Messages
  <2>2. /\ result' \in [how : {"none", "final", "eof", "exit", "deadline", "raised"},
                        inputs : Seq(Attempts), tombstone : Seq(Attempts)]
        /\ Len(result'.tombstone) <= 1
    BY <1>10, <2>1 DEF ReceiveFinal
  <2> QED
    BY <1>7, <1>10, <2>2 DEF ReceiveFinal, TypeOK
<1> QED
  BY <1>1, <1>3, <1>4, <1>5, <1>6, <1>8, <1>9, <1>10, Zenon DEF ParentNext

LEMMA TypesStep == Types /\ [Next]_vars => Types'
<1> SUFFICES ASSUME Types, UNCHANGED vars PROVE Types'
  BY ChildTypes, ParentTypes, Zenon DEF Next
<1> QED
  BY DEF Types, TypeOK, Announcing, vars, childVars, pipeVars, parentVars

-----------------------------------------------------------------------------
(* What the steps do to the pipe. *)
SamePipe == UNCHANGED pipe
Written  == child = "sending" /\ pipe' = Append(pipe, outbox)
Read     == parent = "receiving" /\ pipe # <<>> /\ ~Torn /\ pipe' = Tail(pipe)

LEMMA WrittenPipe ==
  ASSUME Types, Written
  PROVE  /\ Len(pipe) \in Nat /\ Len(pipe') = Len(pipe) + 1 /\ pipe' # <<>>
         /\ DOMAIN pipe = 1 .. Len(pipe) /\ DOMAIN pipe' = 1 .. Len(pipe')
         /\ \A i \in DOMAIN pipe : pipe'[i] = pipe[i]
         /\ pipe'[Len(pipe')] = outbox
<1>1. pipe \in Seq(Messages) /\ outbox \in Messages
  BY DEF Types, TypeOK
<1>2. /\ Append(pipe, outbox) \in Seq(Messages) /\ Len(Append(pipe, outbox)) = Len(pipe) + 1
      /\ \A i \in 1 .. Len(pipe) : Append(pipe, outbox)[i] = pipe[i]
      /\ Append(pipe, outbox)[Len(pipe) + 1] = outbox
      /\ DOMAIN pipe = 1 .. Len(pipe) /\ DOMAIN Append(pipe, outbox) = 1 .. Len(pipe) + 1
      /\ Len(pipe) \in Nat
  BY <1>1, AppendProperties, LenProperties
<1>3. Append(pipe, outbox) # <<>>
  BY <1>2, EmptySeq
<1> QED
  BY <1>2, <1>3, Zenon DEF Written

LEMMA ReadPipe ==
  ASSUME Types, Read
  PROVE  /\ Len(pipe) \in Nat \ {0} /\ Len(pipe') = Len(pipe) - 1
         /\ DOMAIN pipe = 1 .. Len(pipe) /\ DOMAIN pipe' = 1 .. Len(pipe')
         /\ \A i \in DOMAIN pipe' : i + 1 \in DOMAIN pipe /\ pipe'[i] = pipe[i + 1]
         /\ Len(pipe) > 1 => pipe' # <<>> /\ pipe'[Len(pipe')] = pipe[Len(pipe)]
         /\ Head(pipe) = pipe[1] /\ 1 \in DOMAIN pipe
         /\ half => Len(pipe) > 1
<1>1. pipe \in Seq(Messages) /\ pipe # <<>> /\ pipe' = Tail(pipe)
  BY DEF Types, TypeOK, Read
<1>2. /\ Tail(pipe) \in Seq(Messages) /\ Len(Tail(pipe)) = Len(pipe) - 1
      /\ \A i \in 1 .. Len(pipe) - 1 : Tail(pipe)[i] = pipe[i + 1]
      /\ DOMAIN pipe = 1 .. Len(pipe) /\ DOMAIN Tail(pipe) = 1 .. Len(pipe) - 1
      /\ Len(pipe) \in Nat \ {0} /\ Head(pipe) = pipe[1]
  BY <1>1, HeadTailProperties, EmptySeq, LenProperties
<1>3. /\ \A i \in 1 .. Len(pipe) - 1 : i + 1 \in 1 .. Len(pipe)
      /\ 1 \in 1 .. Len(pipe)
      /\ Len(pipe) > 1 => Len(pipe) - 1 \in 1 .. Len(pipe) - 1 /\ Len(pipe) - 1 # 0
      /\ Len(pipe) - 1 + 1 = Len(pipe)
      /\ Len(pipe) # 1 => Len(pipe) > 1
  BY <1>2
<1>4. half => Len(pipe) # 1
  BY Zenon DEF Read, Torn
<1>5. Len(pipe) > 1 => Tail(pipe) # <<>>
  BY <1>2, <1>3, EmptySeq
<1> QED
  BY <1>1, <1>2, <1>3, <1>4, <1>5, Zenon

(* The steps that leave the pipe alone. *)
QuietChild ==
    \/ Import \/ StartAttempt \/ RunTarget \/ EnterPostLoop \/ ExploreReturns
    \/ ExploreFails \/ EndWrite \/ SendFails \/ ClosePipe \/ Exit

QuietParent ==
    \/ KeepWaiting \/ Watchdog \/ WaitTimesOut \/ ConnectionReady \/ SentinelReady
    \/ ReceiveEof \/ ReceiveTruncated \/ Reap

Quiet == QuietChild \/ QuietParent \/ Expire \/ UNCHANGED vars

(* The steps, sorted by what they do to the pipe. *)
LEMMA PipeSteps ==
  ASSUME [Next]_vars
  PROVE  \/ SamePipe /\ Quiet
         \/ Written /\ (Send \/ BeginWrite)
         \/ Read /\ (ReceiveIterStart \/ ReceiveProgress \/ ReceiveFinal)
<1> USE DEF vars, childVars, pipeVars, parentVars
<1>1. CASE UNCHANGED vars \/ Expire \/ Returned
  BY <1>1 DEF Expire, Returned, SamePipe, Quiet
<1>2. CASE Send \/ BeginWrite
  BY <1>2 DEF Send, BeginWrite, Written
<1>3. CASE ReceiveIterStart \/ ReceiveProgress \/ ReceiveFinal
  BY <1>3 DEF ReceiveIterStart, ReceiveProgress, ReceiveFinal, Receive, Read
<1>4. CASE QuietChild
  <2>1. SamePipe
    BY <1>4 DEF QuietChild, Import, StartAttempt, RunTarget, EnterPostLoop,
       ExploreReturns, ExploreFails, EndWrite, SendFails, ClosePipe, Exit, SamePipe
  <2> QED
    BY <1>4, <2>1, Zenon DEF Quiet
<1>5. CASE QuietParent
  <2>1. SamePipe
    BY <1>5 DEF QuietParent, KeepWaiting, Watchdog, WaitTimesOut, ConnectionReady,
       SentinelReady, ReceiveEof, ReceiveTruncated, Reap, SamePipe
  <2> QED
    BY <1>5, <2>1, Zenon DEF Quiet
<1> QED
  BY <1>1, <1>2, <1>3, <1>4, <1>5, Zenon
     DEF Next, ChildNext, ParentNext, QuietChild, QuietParent

-----------------------------------------------------------------------------
(* Records: the child numbers its attempts, so an initial part of them is a *)
(* sequence that is numbered too and no longer; whatever carries records,   *)
(* on its way or arrived, is one.                                           *)
Numbered(s) == \A i \in DOMAIN s : s[i] = i
InitialPart(s, r) == Numbered(s) /\ Len(s) <= Len(r)

Truth ==
    /\ Numbered(records)
    /\ outbox.kind # "iter_start" => InitialPart(outbox.inputs, records)
    /\ \A i \in DOMAIN pipe : pipe[i].kind # "iter_start" => InitialPart(pipe[i].inputs, records)
    /\ checkpoint # <<>> => InitialPart(checkpoint[1], records)
    /\ InitialPart(result.inputs, records)

LEMMA HonestPrefix ==
  ASSUME Types, Truth, NEW s \in Seq(Attempts), InitialPart(s, records)
  PROVE  IsPrefix(s, records)
<1> DEFINE n == Len(s)
<1>1. /\ records \in Seq(Attempts) /\ n \in Nat /\ Len(records) \in Nat
      /\ DOMAIN s = 1 .. n /\ DOMAIN records = 1 .. Len(records)
  BY LenProperties DEF Types, TypeOK
<1>2. n <= Len(records) /\ Numbered(s) /\ Numbered(records)
  BY Zenon DEF InitialPart, Truth
<1>3. \A i \in 1 .. n : s[i] = i /\ records[i] = i /\ s[i] \in Attempts /\ records[i] \in Attempts
  BY <1>1, <1>2, ElementOfSeq DEF Numbered
<1> HIDE DEF n
<1>4. /\ SubSeq(s, 1, n) \in Seq(Attempts) /\ SubSeq(records, 1, n) \in Seq(Attempts)
      /\ Len(SubSeq(s, 1, n)) = n /\ Len(SubSeq(records, 1, n)) = n
      /\ \A i \in 1 .. n : SubSeq(s, 1, n)[i] = i /\ SubSeq(records, 1, n)[i] = i
  <2>1. 1 \in Int /\ n \in Int
    BY <1>1
  <2>2. \A i \in 1 .. n : s[i] \in Attempts /\ records[i] \in Attempts
    BY <1>3
  <2>3. /\ SubSeq(s, 1, n) \in Seq(Attempts)
        /\ Len(SubSeq(s, 1, n)) = IF 1 <= n THEN n - 1 + 1 ELSE 0
        /\ \A i \in 1 .. n - 1 + 1 : SubSeq(s, 1, n)[i] = s[1 + i - 1]
    BY <2>1, <2>2, SubSeqProperties
  <2>4. /\ SubSeq(records, 1, n) \in Seq(Attempts)
        /\ Len(SubSeq(records, 1, n)) = IF 1 <= n THEN n - 1 + 1 ELSE 0
        /\ \A i \in 1 .. n - 1 + 1 : SubSeq(records, 1, n)[i] = records[1 + i - 1]
    BY <2>1, <2>2, SubSeqProperties
  <2>5. /\ n - 1 + 1 = n /\ (~(1 <= n) => n = 0)
        /\ \A i \in 1 .. n : 1 + i - 1 = i
    BY <1>1
  <2>6. Len(SubSeq(s, 1, n)) = n /\ Len(SubSeq(records, 1, n)) = n
    BY <1>1, <2>3, <2>4
  <2> QED
    BY <1>3, <2>3, <2>4, <2>5, <2>6, Zenon
<1>5. SubSeq(s, 1, n) = SubSeq(records, 1, n)
  BY <1>4, SeqEqual
<1> QED
  BY <1>2, <1>5, Zenon DEF IsPrefix, n

LEMMA TruthImplies == Types /\ Truth => CheckpointTrue
<1> SUFFICES ASSUME Types, Truth PROVE CheckpointTrue
  OBVIOUS
<1>1. ASSUME checkpoint # <<>> PROVE IsPrefix(checkpoint[1], records)
  <2>1. checkpoint \in Seq(Seq(Attempts)) /\ 1 \in 1 .. Len(checkpoint)
    BY <1>1, EmptySeq DEF Types, TypeOK
  <2>2. checkpoint[1] \in Seq(Attempts)
    BY <2>1, ElementOfSeq
  <2> QED
    BY <1>1, <2>2, HonestPrefix, Zenon DEF Truth
<1>2. result.inputs \in Seq(Attempts)
  BY DEF Types, TypeOK
<1>3. IsPrefix(result.inputs, records)
  BY <1>2, HonestPrefix, Zenon DEF Truth
<1> QED
  BY <1>1, <1>3, Zenon DEF CheckpointTrue

LEMMA TruthInit == Init => Truth
<1> SUFFICES ASSUME Init PROVE Truth
  OBVIOUS
<1>1. /\ outbox = NoMessage /\ records = <<>> /\ pipe = <<>> /\ checkpoint = <<>>
      /\ result = NoResult
  BY DEF Init
<1>2. outbox.inputs = <<>> /\ result.inputs = <<>> /\ Len(<<>>) = 0 /\ DOMAIN <<>> = {}
  BY <1>1 DEF NoMessage, NoResult, Final
<1>3. InitialPart(<<>>, records) /\ Numbered(<<>>)
  BY <1>1, <1>2 DEF InitialPart, Numbered
<1>4. \A i \in DOMAIN pipe : pipe[i].kind # "iter_start" => InitialPart(pipe[i].inputs, records)
  BY <1>1, <1>2
<1> QED
  BY <1>1, <1>2, <1>3, <1>4, Zenon DEF Truth

LEMMA TruthStep == Types /\ Types' /\ Truth /\ [Next]_vars => Truth'
<1> SUFFICES ASSUME Types, Types', Truth, [Next]_vars PROVE Truth'
  OBVIOUS
<1> USE DEF vars, childVars, pipeVars, parentVars
<1>1. /\ records \in Seq(Attempts) /\ records' \in Seq(Attempts)
      /\ Len(records) \in Nat /\ Len(records') \in Nat
      /\ DOMAIN records = 1 .. Len(records) /\ DOMAIN records' = 1 .. Len(records')
  <2>1. records \in Seq(Attempts) /\ records' \in Seq(Attempts)
    BY DEF Types, TypeOK
  <2> QED
    BY <2>1, LenProperties
(* Records are only ever added to, and stay numbered. *)
<1>2. records' = records \/ (RunTarget /\ records' = Append(records, Len(records) + 1))
  BY DEF Next, ChildNext, ParentNext, Import, StartAttempt, RunTarget, EnterPostLoop,
     ExploreReturns, ExploreFails, Send, BeginWrite, EndWrite, Delivered, SendFails,
     ClosePipe, Exit, KeepWaiting, Watchdog, WaitTimesOut, ConnectionReady, SentinelReady,
     ReceiveIterStart, ReceiveProgress, ReceiveFinal, Receive, ReceiveEof,
     ReceiveTruncated, Reap, Expire, Returned
<1>3. /\ Len(records) <= Len(records') /\ Numbered(records')
  <2>1. CASE records' = records
    BY <1>1, <2>1 DEF Truth
  <2>2. CASE RunTarget /\ records' = Append(records, Len(records) + 1)
    <3>1. /\ Len(records') = Len(records) + 1
          /\ \A i \in 1 .. Len(records) : records'[i] = records[i]
          /\ records'[Len(records) + 1] = Len(records) + 1
      <4>1. Len(records) + 1 \in Int /\ Attempts \subseteq Int
        BY <1>1 DEF Attempts
      <4>2. Len(records) + 1 \in Int /\ records \in Seq(Int)
        BY <1>1, <4>1, SeqMonotonic, Zenon
      <4> QED
        BY <2>2, <4>2, AppendProperties
    <3>2. \A i \in 1 .. Len(records) : records[i] = i
      BY <1>1 DEF Truth, Numbered
    <3>3. \A i \in 1 .. Len(records') : i \in 1 .. Len(records) \/ i = Len(records) + 1
      BY <1>1, <3>1
    <3>4. \A i \in 1 .. Len(records') : records'[i] = i
      BY <3>1, <3>2, <3>3, Zenon
    <3> QED
      BY <1>1, <3>1, <3>4 DEF Numbered
  <2> QED
    BY <1>2, <2>1, <2>2
<1>4. ASSUME NEW s, Len(s) \in Nat, InitialPart(s, records) PROVE InitialPart(s, records')
  BY <1>1, <1>3, <1>4 DEF InitialPart, Numbered
<1>5. /\ \A m \in Messages : m.inputs \in Seq(Attempts) /\ Len(m.inputs) \in Nat
      /\ outbox \in Messages
      /\ \A i \in DOMAIN pipe : pipe[i] \in Messages
  <2>1. \A m \in Messages : m.inputs \in Seq(Attempts)
    BY DEF Messages
  <2>2. outbox \in Messages /\ pipe \in Seq(Messages) /\ DOMAIN pipe = 1 .. Len(pipe)
    BY LenProperties DEF Types, TypeOK
  <2> QED
    BY <2>1, <2>2, ElementOfSeq, LenProperties, Zenon
<1>6. outbox'.kind # "iter_start" => InitialPart(outbox'.inputs, records')
  <2>1. CASE outbox' = outbox
    BY <1>4, <1>5, <2>1 DEF Truth
  <2>2. CASE RunTarget
    <3>1. outbox'.inputs = records'
      BY <2>2 DEF RunTarget, Emit, Progress
    <3> QED
      BY <1>1, <1>3, <3>1 DEF InitialPart, Numbered
  <2>3. CASE Import \/ ExploreFails
    <3>1. outbox' = outbox \/ outbox'.inputs = <<>>
      BY <2>3 DEF Import, ExploreFails, Emit, Final
    <3>2. Len(<<>>) = 0 /\ DOMAIN <<>> = {}
      OBVIOUS
    <3> QED
      BY <1>1, <2>1, <3>1, <3>2 DEF InitialPart, Numbered
  <2>4. CASE ExploreReturns
    <3>1. outbox'.inputs = records /\ records' = records
      BY <2>4 DEF ExploreReturns, Emit, Final
    <3> QED
      BY <1>1, <1>3, <3>1 DEF InitialPart, Numbered
  <2>5. CASE StartAttempt
    BY <2>5 DEF StartAttempt, Emit, IterStart
  <2>6. \/ outbox' = outbox \/ RunTarget \/ Import \/ ExploreFails \/ ExploreReturns
        \/ StartAttempt
    BY DEF Next, ChildNext, ParentNext, EnterPostLoop,
       Send, BeginWrite, EndWrite, Delivered, SendFails,
       ClosePipe, Exit, KeepWaiting, Watchdog, WaitTimesOut, ConnectionReady, SentinelReady,
       ReceiveIterStart, ReceiveProgress, ReceiveFinal, Receive, ReceiveEof,
       ReceiveTruncated, Reap, Expire, Returned
  <2> QED
    BY <2>1, <2>2, <2>3, <2>4, <2>5, <2>6
<1>7. \A i \in DOMAIN pipe' : pipe'[i].kind # "iter_start" => InitialPart(pipe'[i].inputs, records')
  <2>1. \A i \in DOMAIN pipe : pipe[i].kind # "iter_start" => InitialPart(pipe[i].inputs, records')
    BY <1>4, <1>5 DEF Truth
  <2>2. outbox.kind # "iter_start" => InitialPart(outbox.inputs, records')
    BY <1>4, <1>5 DEF Truth
  <2>3. CASE SamePipe
    BY <2>1, <2>3, Zenon DEF SamePipe
  <2>4. CASE Written
    <3>1. \A i \in DOMAIN pipe' : i \in DOMAIN pipe \/ i = Len(pipe')
      BY <2>4, WrittenPipe
    <3> QED
      BY <2>1, <2>2, <2>4, <3>1, WrittenPipe, Zenon
  <2>5. CASE Read
    BY <2>1, <2>5, ReadPipe, Zenon
  <2> QED
    BY <2>3, <2>4, <2>5, PipeSteps
<1>8. ASSUME checkpoint # <<>> PROVE checkpoint[1] \in Seq(Attempts) /\ InitialPart(checkpoint[1], records')
  <2>1. checkpoint \in Seq(Seq(Attempts)) /\ 1 \in 1 .. Len(checkpoint)
    BY <1>8, EmptySeq DEF Types, TypeOK
  <2>2. checkpoint[1] \in Seq(Attempts) /\ Len(checkpoint[1]) \in Nat
    BY <2>1, ElementOfSeq, LenProperties
  <2> QED
    BY <1>4, <1>8, <2>2, Zenon DEF Truth
<1>9. ASSUME Receive("progress") \/ Receive("final")
      PROVE  InitialPart(Head(pipe).inputs, records')
  <2>1. Read /\ Head(pipe).kind # "iter_start"
    BY <1>9 DEF Receive, Read
  <2>2. Head(pipe) = pipe[1] /\ 1 \in DOMAIN pipe
    BY <2>1, ReadPipe
  <2>3. InitialPart(Head(pipe).inputs, records) /\ Len(Head(pipe).inputs) \in Nat
    BY <1>5, <2>1, <2>2, Zenon DEF Truth
  <2> QED
    BY <1>4, <2>3, Zenon
<1>10. checkpoint' # <<>> => InitialPart(checkpoint'[1], records')
  <2>1. CASE checkpoint' = checkpoint
    BY <1>8, <2>1, Zenon
  <2>2. CASE ReceiveProgress
    <3>1. Receive("progress") /\ checkpoint'[1] = Head(pipe).inputs
      BY <2>2 DEF ReceiveProgress
    <3> QED
      BY <1>9, <3>1, Zenon
  <2>3. checkpoint' = checkpoint \/ ReceiveProgress
    BY DEF Next, ChildNext, ParentNext, Import, StartAttempt, RunTarget, EnterPostLoop,
     ExploreReturns, ExploreFails, Send, BeginWrite, EndWrite, Delivered, SendFails,
     ClosePipe, Exit, KeepWaiting, Watchdog, WaitTimesOut, ConnectionReady, SentinelReady,
     ReceiveIterStart, ReceiveFinal, ReceiveEof, Finalize,
     ReceiveTruncated, Reap, Expire, Returned
  <2> QED
    BY <2>1, <2>2, <2>3
<1>11. InitialPart(result'.inputs, records')
  <2>1. CASE result' = result
    <3>1. InitialPart(result.inputs, records) /\ Len(result.inputs) \in Nat
      BY LenProperties DEF Truth, Types, TypeOK
    <3> QED
      BY <1>4, <2>1, <3>1, Zenon
  <2>2. CASE result'.inputs = <<>>
    <3>1. Len(<<>>) = 0 /\ DOMAIN <<>> = {}
      OBVIOUS
    <3> QED
      BY <1>1, <2>2, <3>1 DEF InitialPart, Numbered
  <2>3. CASE checkpoint # <<>> /\ result'.inputs = checkpoint[1]
    BY <1>8, <2>3, Zenon
  <2>4. CASE ReceiveFinal
    <3>1. Receive("final") /\ result'.inputs = Head(pipe).inputs
      BY <2>4 DEF ReceiveFinal
    <3> QED
      BY <1>9, <3>1, Zenon
  <2>5. \A how : Finalize(how) => \/ result'.inputs = <<>>
                                  \/ checkpoint # <<>> /\ result'.inputs = checkpoint[1]
    BY DEF Finalize
  <2>6. \/ result' = result \/ ReceiveFinal \/ ReceiveTruncated
        \/ \E how \in {"eof", "exit", "deadline"} : Finalize(how)
    BY DEF Next, ChildNext, ParentNext, Import, StartAttempt, RunTarget, EnterPostLoop,
     ExploreReturns, ExploreFails, Send, BeginWrite, EndWrite, Delivered, SendFails,
     ClosePipe, Exit, KeepWaiting, Watchdog, WaitTimesOut, ConnectionReady, SentinelReady,
     ReceiveIterStart, ReceiveProgress, ReceiveEof, Reap, Expire, Returned
  <2>7. ReceiveTruncated => result'.inputs = <<>>
    BY DEF ReceiveTruncated
  <2> QED
    BY <2>1, <2>2, <2>3, <2>4, <2>5, <2>6, <2>7, Zenon
<1> QED
  BY <1>3, <1>6, <1>7, <1>10, <1>11, Zenon DEF Truth

-----------------------------------------------------------------------------
(* The final result: it is the last message of the pipe until it is read,   *)
(* so the parent cannot meet the end of the pipe, or an exited child with   *)
(* nothing to read, before it.                                              *)
Over == {"reaping", "returned"}

Writing ==
    /\ child = "writing" => half /\ pipe # <<>> /\ pipe[Len(pipe)] = outbox
    /\ half => child \in {"writing", "dead"}

Finals ==
    /\ finalSent => child \in {"closing", "closed", "dead"} /\ ~half
    /\ \A i \in DOMAIN pipe :
          pipe[i].kind = "final" => i = Len(pipe) /\ (half \/ finalSent)
    /\ finalSent /\ parent \notin Over => pipe # <<>> /\ pipe[Len(pipe)].kind = "final"
    /\ finalSent /\ parent \in Over => result.how \in {"final", "deadline"}
    /\ result.how = "final" => finalSent
    /\ parent \in Over /\ ~finalSent => child \in {"closed", "dead"}

LEMMA FinalsInit == Init => Writing /\ Finals
<1> SUFFICES ASSUME Init PROVE Writing /\ Finals
  OBVIOUS
<1>1. /\ child = "importing" /\ half = FALSE /\ finalSent = FALSE /\ pipe = <<>>
      /\ result.how = "none" /\ parent = "head"
  BY DEF Init, NoResult
<1>2. DOMAIN pipe = {}
  BY <1>1
<1> QED
  BY <1>1, <1>2 DEF Writing, Finals, Over

LEMMA WritingStep == Types /\ Writing /\ [Next]_vars => Writing'
<1> SUFFICES ASSUME Types, Writing, [Next]_vars PROVE Writing'
  OBVIOUS
<1> USE DEF vars, childVars, pipeVars, parentVars, Writing
<1>1. CASE Written /\ (Send \/ BeginWrite)
  <2>1. pipe' # <<>> /\ pipe'[Len(pipe')] = outbox
    BY <1>1, WrittenPipe
  <2>2. child = "sending" /\ outbox' = outbox
    BY <1>1 DEF Send, BeginWrite, Delivered
  <2>3. ~half
    BY <2>2
  <2>4. CASE BeginWrite
    BY <2>1, <2>2, <2>4 DEF BeginWrite
  <2>5. CASE Send
    <3>1. outbox.kind \in {"iter_start", "progress", "final"}
      BY DEF Types, TypeOK, Messages
    <3>2. child' # "writing" /\ half' = half
      BY <2>5, <3>1 DEF Send, Delivered, AfterSend
    <3> QED
      BY <2>3, <3>2
  <2> QED
    BY <1>1, <2>4, <2>5
<1>2. CASE Read /\ (ReceiveIterStart \/ ReceiveProgress \/ ReceiveFinal)
  <2>1. UNCHANGED <<child, outbox, half>>
    BY <1>2 DEF ReceiveIterStart, ReceiveProgress, ReceiveFinal, Receive
  <2>2. half => pipe' # <<>> /\ pipe'[Len(pipe')] = pipe[Len(pipe)]
    BY <1>2, ReadPipe
  <2> QED
    BY <2>1, <2>2
<1>3. CASE SamePipe /\ Quiet
  <2>1. outbox.kind \in {"iter_start", "progress", "final"}
    BY DEF Types, TypeOK, Messages
  <2>2. CASE EndWrite
    BY <2>1, <2>2 DEF EndWrite, Delivered, AfterSend
  <2>3. CASE ~EndWrite
    <3>1. \/ UNCHANGED <<child, half, outbox>>
          \/ child' = "dead" /\ UNCHANGED <<half, outbox>>
          \/ child' # "writing" /\ child \notin {"writing", "dead"} /\ half' = half
      BY <1>3, <2>1, <2>3 DEF Quiet, QuietChild, QuietParent, Import, StartAttempt,
         RunTarget, EnterPostLoop, ExploreReturns, ExploreFails, Emit, SendFails, AfterSend,
         ClosePipe, Exit, KeepWaiting, Watchdog, WaitTimesOut, ConnectionReady,
         SentinelReady, ReceiveEof, ReceiveTruncated, Reap, Expire
    <3> QED
      BY <1>3, <3>1 DEF SamePipe
  <2> QED
    BY <2>2, <2>3
<1> QED
  BY <1>1, <1>2, <1>3, PipeSteps

LEMMA FinalsStep == Types /\ Writing /\ Finals /\ [Next]_vars => Finals'
<1> SUFFICES ASSUME Types, Writing, Finals, [Next]_vars PROVE Finals'
  OBVIOUS
<1> USE DEF vars, childVars, pipeVars, parentVars, Finals, Over
<1>0. outbox.kind \in {"iter_start", "progress", "final"}
  BY DEF Types, TypeOK, Messages
<1>1. CASE Written /\ (Send \/ BeginWrite)
  <2>1. /\ pipe' # <<>> /\ pipe'[Len(pipe')] = outbox
        /\ \A i \in DOMAIN pipe : pipe'[i] = pipe[i]
        /\ \A i \in DOMAIN pipe' : i \in DOMAIN pipe \/ i = Len(pipe')
    BY <1>1, WrittenPipe
  <2>2. /\ child = "sending" /\ outbox' = outbox /\ ~half /\ ~finalSent
        /\ UNCHANGED <<parent, result>>
    BY <1>1 DEF Send, BeginWrite, Delivered, Writing
  <2>3. \A i \in DOMAIN pipe : pipe[i].kind # "final"
    BY <2>2
  <2>4. parent \notin Over
    BY <2>2
  <2>5. CASE BeginWrite
    <3>1. half' /\ ~finalSent' /\ child' = "writing"
      BY <2>2, <2>5 DEF BeginWrite
    <3> QED
      BY <2>1, <2>2, <2>3, <2>4, <3>1
  <2>6. CASE Send
    <3>1. /\ ~half' /\ finalSent' = (finalSent \/ outbox.kind = "final")
          /\ child' = AfterSend
      BY <2>2, <2>6 DEF Send, Delivered
    <3>2. finalSent' => outbox.kind = "final" /\ child' = "closing"
      BY <2>2, <3>1 DEF AfterSend
    <3>3. outbox.kind = "final" => finalSent'
      BY <3>1
    <3> QED
      BY <2>1, <2>2, <2>3, <2>4, <3>1, <3>2, <3>3
  <2> QED
    BY <1>1, <2>5, <2>6
<1>2. CASE Read /\ (ReceiveIterStart \/ ReceiveProgress \/ ReceiveFinal)
  <2>1. UNCHANGED <<child, half, finalSent>> /\ parent = "receiving"
    BY <1>2 DEF ReceiveIterStart, ReceiveProgress, ReceiveFinal, Receive
  <2>2. /\ Len(pipe) \in Nat \ {0} /\ Len(pipe') = Len(pipe) - 1
        /\ \A i \in DOMAIN pipe' : i + 1 \in DOMAIN pipe /\ pipe'[i] = pipe[i + 1] /\ i \in Nat
        /\ Len(pipe) > 1 => pipe' # <<>> /\ pipe'[Len(pipe')] = pipe[Len(pipe)]
        /\ Head(pipe) = pipe[1] /\ 1 \in DOMAIN pipe
        /\ half => Len(pipe) > 1
    BY <1>2, ReadPipe
  <2>3. \A i \in DOMAIN pipe' :
          pipe'[i].kind = "final" => i = Len(pipe') /\ (half' \/ finalSent')
    BY <2>1, <2>2
  <2>4. CASE ReceiveFinal
    <3>1. Head(pipe).kind = "final" /\ result'.how = "final" /\ parent' = "reaping"
      BY <2>4 DEF ReceiveFinal, Receive
    <3>2. finalSent
      BY <2>2, <3>1
    <3> QED
      BY <2>1, <2>3, <3>1, <3>2
  <2>5. CASE ReceiveIterStart \/ ReceiveProgress
    <3>1. Head(pipe).kind # "final" /\ result' = result /\ parent' = "head"
      BY <2>5 DEF ReceiveIterStart, ReceiveProgress, Receive
    <3>2. finalSent => Len(pipe) > 1
      BY <2>1, <2>2, <3>1
    <3> QED
      BY <2>1, <2>2, <2>3, <3>1, <3>2
  <2> QED
    BY <1>2, <2>4, <2>5
<1>3. CASE SamePipe /\ QuietChild
  <2>1. pipe' = pipe /\ UNCHANGED <<parent, result>>
    BY <1>3 DEF SamePipe, QuietChild, Import, StartAttempt, RunTarget, EnterPostLoop,
       ExploreReturns, ExploreFails, EndWrite, Delivered, SendFails, ClosePipe, Exit
  <2>2. CASE EndWrite
    <3>1. /\ half /\ half' = FALSE /\ pipe # <<>> /\ pipe[Len(pipe)] = outbox
          /\ child = "writing" /\ child' = AfterSend
          /\ finalSent' = (finalSent \/ outbox.kind = "final") /\ ~finalSent
      BY <2>2 DEF EndWrite, Delivered, Writing
    <3>2. /\ finalSent' => outbox.kind = "final" /\ child' = "closing"
          /\ outbox.kind = "final" => finalSent'
      BY <3>1 DEF AfterSend
    <3>3. parent \notin Over
      BY <3>1
    <3> QED
      BY <2>1, <3>1, <3>2, <3>3
  <2>3. CASE ~EndWrite
    <3>1. /\ UNCHANGED <<half, finalSent>> /\ child # "dead"
          /\ child = "closing" => child' \in {"closing", "closed", "dead"}
          /\ child = "closed" => child' \in {"closed", "dead"}
      BY <1>3, <1>0, <2>3 DEF QuietChild, Import, StartAttempt, RunTarget, EnterPostLoop,
         ExploreReturns, ExploreFails, Emit, SendFails, AfterSend, ClosePipe, Exit
    <3> QED
      BY <2>1, <3>1
  <2> QED
    BY <2>2, <2>3
<1>4. CASE SamePipe /\ QuietParent
  <2>1. /\ pipe' = pipe /\ UNCHANGED <<half, finalSent>>
        /\ child' = child \/ child' = "dead"
    BY <1>4 DEF SamePipe, QuietParent, KeepWaiting, Watchdog, WaitTimesOut, ConnectionReady,
       SentinelReady, ReceiveEof, ReceiveTruncated, Reap
  <2>2. CASE KeepWaiting \/ WaitTimesOut \/ ConnectionReady
    BY <2>1, <2>2 DEF KeepWaiting, WaitTimesOut, ConnectionReady
  <2>3. CASE Watchdog
    <3>1. parent = "head" /\ parent' = "reaping" /\ result'.how = "deadline" /\ child' = "dead"
      BY <2>3 DEF Watchdog, Finalize
    <3> QED
      BY <2>1, <3>1
  <2>4. CASE SentinelReady \/ ReceiveEof \/ ReceiveTruncated
    <3>1. /\ parent \notin Over /\ parent' = "reaping"
          /\ result'.how \in {"exit", "eof", "raised"}
          /\ child \in {"closed", "dead"} /\ child' = child /\ (pipe = <<>> \/ half)
      BY <2>4 DEF SentinelReady, ReceiveEof, ReceiveTruncated, Finalize, NoWriter, Torn
    <3>2. ~finalSent
      BY <3>1
    <3> QED
      BY <2>1, <3>1, <3>2
  <2>5. CASE Reap
    <3>1. parent = "reaping" /\ parent' = "returned" /\ child' = "dead" /\ result' = result
      BY <2>5 DEF Reap
    <3> QED
      BY <2>1, <3>1
  <2> QED
    BY <1>4, <2>2, <2>3, <2>4, <2>5 DEF QuietParent
<1>5. CASE Expire \/ UNCHANGED vars
  BY <1>5 DEF Expire
<1> QED
  BY <1>1, <1>2, <1>3, <1>4, <1>5, PipeSteps, Zenon DEF Quiet

-----------------------------------------------------------------------------
(***************************************************************************)
(* Accounting for the attempts of a lost child.  As long as every message  *)
(* could be pickled, announcements and checkpoints alternate: the i-th     *)
(* unread message is the i-th to follow what the parent has read.          *)
(***************************************************************************)
Received == IF checkpoint = <<>> THEN 0 ELSE Len(checkpoint[1])
Position == 2 * Received + Len(pending)
Ordinal(m) == IF m.kind = "iter_start" THEN 2 * m.inputs[1] - 1 ELSE 2 * Len(m.inputs)

(* What the child has in hand follows what it has written. *)
InStep ==
    /\ child \in {"importing", "idle"} => Position + Len(pipe) = 2 * Len(records)
    /\ child = "running" => Position + Len(pipe) = 2 * Len(records) + 1
    /\ child \in {"sending", "writing"} /\ outbox.kind = "iter_start" =>
          outbox.inputs[1] = Len(records) + 1
    /\ child \in {"sending", "writing"} /\ outbox.kind = "progress" =>
          Len(outbox.inputs) = Len(records)
    /\ child = "sending" /\ outbox.kind # "final" => Ordinal(outbox) = Position + Len(pipe) + 1
    /\ child = "writing" /\ outbox.kind # "final" => Ordinal(outbox) = Position + Len(pipe)

InOrder == \A i \in DOMAIN pipe : pipe[i].kind # "final" => Ordinal(pipe[i]) = Position + i

(* The pending announcement is of the attempt after the last checkpoint. *)
PendingNext == pending # <<>> => pending[1].inputs = <<Received + 1>>

(* A whole announcement in the pipe counts as made. *)
WholeAnnounced ==
    \A i \in DOMAIN pipe :
        pipe[i].kind = "iter_start" /\ (half => i # Len(pipe)) => pipe[i].inputs[1] \in announced

ReadAttempts == announced \ Unread = 1 .. Received + Len(pending)

Lost == {"eof", "exit", "deadline"}

(* The answer for a lost child is what the parent held, and nothing moves *)
(* any more.                                                              *)
AnswerHeld ==
    result.how \in Lost =>
        /\ parent \in Over /\ child \in {"closed", "dead"}
        /\ Len(result.inputs) = Received
        /\ result.tombstone = IF pending = <<>> THEN <<>> ELSE pending[1].inputs

Accounted == InStep /\ InOrder /\ PendingNext /\ WholeAnnounced /\ ReadAttempts
Accounts == AnswerHeld /\ (~silenced => Accounted)

(* The counters are numbers, and a message of the pipe is a message. *)
LEMMA Counters ==
  ASSUME Types
  PROVE  /\ Received \in Nat /\ Len(pending) \in {0, 1} /\ Len(pipe) \in Nat
         /\ Position \in Nat /\ Len(records) \in Nat
         /\ pending = <<>> => Len(pending) = 0
         /\ pending # <<>> => Len(pending) = 1
         /\ DOMAIN pipe = 1 .. Len(pipe)
         /\ \A i \in DOMAIN pipe : pipe[i] \in Messages /\ WellFormed(pipe[i])
         /\ outbox \in Messages /\ WellFormed(outbox)
<1>1. /\ checkpoint \in Seq(Seq(Attempts)) /\ pending \in Seq(Messages) /\ Len(pending) <= 1
      /\ pipe \in Seq(Messages) /\ records \in Seq(Attempts) /\ outbox \in Messages
      /\ \A i \in DOMAIN pipe : WellFormed(pipe[i])
      /\ WellFormed(outbox)
  BY Zenon DEF Types, TypeOK
<1>2. Received \in Nat
  <2>1. CASE checkpoint = <<>>
    BY <2>1 DEF Received
  <2>2. CASE checkpoint # <<>>
    <3>1. 1 \in 1 .. Len(checkpoint)
      BY <1>1, <2>2, EmptySeq, LenProperties
    <3>2. checkpoint[1] \in Seq(Attempts)
      BY <1>1, <3>1, ElementOfSeq
    <3> QED
      BY <2>2, <3>2, LenProperties DEF Received
  <2> QED
    BY <2>1, <2>2
<1>3. /\ Len(pending) \in {0, 1}
      /\ pending = <<>> => Len(pending) = 0
      /\ pending # <<>> => Len(pending) = 1
  <2>1. CASE pending = <<>>
    BY <2>1, EmptySeq
  <2>2. CASE pending # <<>>
    <3>1. Len(pending) \in Nat /\ Len(pending) # 0
      BY <1>1, <2>2, EmptySeq, LenProperties
    <3>2. Len(pending) <= 1
      BY <1>1, Zenon
    <3>3. Len(pending) = 1
      <4> DEFINE p == Len(pending)
      <4>1. p \in Nat /\ p # 0 /\ p <= 1
        BY <3>1, <3>2, Zenon
      <4> HIDE DEF p
      <4>2. p = 1
        BY <4>1
      <4> QED
        BY <4>2, Zenon DEF p
    <3> QED
      BY <2>2, <3>3
  <2> QED
    BY <2>1, <2>2
<1>4. Len(pipe) \in Nat /\ Len(records) \in Nat /\ DOMAIN pipe = 1 .. Len(pipe)
  BY <1>1, LenProperties
<1>5. \A i \in DOMAIN pipe : pipe[i] \in Messages
  BY <1>1, <1>4, ElementOfSeq
<1>6. Position \in Nat
  BY <1>2, <1>3 DEF Position
<1> QED
  BY <1>1, <1>2, <1>3, <1>4, <1>5, <1>6, Zenon

(* What the ordinal of a message says. *)
LEMMA Ordinals ==
  ASSUME NEW m \in Messages, WellFormed(m)
  PROVE  /\ Len(m.inputs) \in Nat
         /\ m.kind = "iter_start" =>
              /\ m.inputs[1] \in Attempts /\ m.inputs = <<m.inputs[1]>>
              /\ Ordinal(m) = 2 * m.inputs[1] - 1
         /\ m.kind # "iter_start" => Ordinal(m) = 2 * Len(m.inputs)
         /\ Ordinal(m) \in Int
<1>1. m.inputs \in Seq(Attempts) /\ Len(m.inputs) \in Nat
  BY LenProperties DEF Messages
<1>2. ASSUME m.kind = "iter_start"
      PROVE  m.inputs[1] \in Attempts /\ m.inputs = <<m.inputs[1]>>
  <2>1. Len(m.inputs) = 1
    BY <1>2 DEF WellFormed
  <2> QED
    BY <1>1, <2>1
<1>3. m.kind = "iter_start" => Ordinal(m) = 2 * m.inputs[1] - 1 /\ Ordinal(m) \in Int
  BY <1>2 DEF Ordinal, Attempts
<1>4. m.kind # "iter_start" => Ordinal(m) = 2 * Len(m.inputs) /\ Ordinal(m) \in Int
  BY <1>1 DEF Ordinal
<1> QED
  BY <1>1, <1>2, <1>3, <1>4, Zenon

(* What comes next after r attempts of which p = 1 says one more is pending. *)
LEMMA Parity ==
  ASSUME NEW r \in Nat, NEW p \in {0, 1}, NEW n \in Int
  PROVE  /\ 2 * n - 1 = 2 * r + p + 1 => p = 0 /\ n = r + 1
         /\ 2 * n = 2 * r + p + 1 => p = 1 /\ n = r + 1
         /\ \A k \in Nat : 2 * n - 1 = 2 * r + p + k + 1 => n > r + p
  OBVIOUS

(* The first unread message follows what was read: an announcement finds no *)
(* pending one, a checkpoint settles the pending one.                       *)
LEMMA FirstFollows ==
  ASSUME Types, InOrder, PendingNext, pipe # <<>>, Head(pipe).kind # "final"
  PROVE  /\ Head(pipe) = pipe[1] /\ 1 \in DOMAIN pipe
         /\ Head(pipe).kind = "iter_start" =>
              /\ Len(pending) = 0
              /\ Head(pipe).inputs = <<Received + 1>>
         /\ Head(pipe).kind = "progress" =>
              /\ Len(pending) = 1
              /\ Len(Head(pipe).inputs) = Received + 1
              /\ pending[1].idx < Received + 1
<1>1. pipe \in Seq(Messages) /\ pending \in Seq(Messages)
  BY DEF Types, TypeOK
<1>2. Head(pipe) = pipe[1] /\ 1 \in DOMAIN pipe
  BY <1>1, TailWellFormed, HeadTailProperties, EmptySeq, LenProperties
<1> DEFINE m == pipe[1]
<1>3. /\ m \in Messages /\ WellFormed(m)
      /\ Received \in Nat /\ Len(pending) \in {0, 1} /\ Position \in Nat
      /\ (pending = <<>> => Len(pending) = 0) /\ (pending # <<>> => Len(pending) = 1)
  BY <1>2, Counters
<1>4. Ordinal(m) = 2 * Received + Len(pending) + 1
  BY <1>2, <1>3 DEF InOrder, Position
<1>5. CASE m.kind = "iter_start"
  <2>1. m.inputs[1] \in Attempts /\ m.inputs = <<m.inputs[1]>> /\ Ordinal(m) = 2 * m.inputs[1] - 1
    BY <1>3, <1>5, Ordinals
  <2>2. m.inputs[1] \in Int
    BY <2>1 DEF Attempts
  <2>2a. 2 * m.inputs[1] - 1 = 2 * Received + Len(pending) + 1
    BY <1>4, <2>1, Zenon
  <2>3. Len(pending) = 0 /\ m.inputs[1] = Received + 1
    BY <1>3, <2>2, <2>2a, Parity, Zenon
  <2> QED
    BY <1>2, <1>5, <2>1, <2>3
<1>6. CASE m.kind = "progress"
  <2>1. Len(m.inputs) \in Nat /\ Ordinal(m) = 2 * Len(m.inputs)
    BY <1>3, <1>6, Ordinals
  <2>1a. 2 * Len(m.inputs) = 2 * Received + Len(pending) + 1 /\ Len(m.inputs) \in Int
    BY <1>4, <2>1
  <2>2. Len(pending) = 1 /\ Len(m.inputs) = Received + 1
    BY <1>3, <2>1a, Parity, Zenon
  <2>3. pending[1].kind = "iter_start" /\ WellFormed(pending[1]) /\ pending[1].inputs = <<Received + 1>>
    BY <1>3, <2>2 DEF Types, PendingNext
  <2>4. pending[1].idx < Received + 1
    BY <1>3, <2>3 DEF WellFormed
  <2> QED
    BY <1>2, <1>6, <2>2, <2>4
<1>7. m.kind \in {"iter_start", "progress", "final"}
  BY <1>3 DEF Messages
<1> QED
  BY <1>2, <1>5, <1>6, <1>7

(* Reading an announcement or a checkpoint moves the parent on by one. *)
LEMMA ReadingMoves ==
  ASSUME Types, InOrder, PendingNext, ReceiveIterStart \/ ReceiveProgress
  PROVE  /\ Head(pipe).kind # "final" /\ pipe # <<>>
         /\ ReceiveIterStart => /\ Received' = Received /\ Len(pending') = 1 /\ Len(pending) = 0
                                /\ pending'[1].inputs = <<Received + 1>>
         /\ ReceiveProgress => Received' = Received + 1 /\ pending' = <<>> /\ Len(pending) = 1
         /\ Position' = Position + 1
         /\ Received' \in Nat /\ Len(pending') \in {0, 1}
         /\ PendingNext'
<1>1. Received \in Nat /\ Len(pending) \in {0, 1} /\ Position \in Nat
  BY Counters
<1>2. CASE ReceiveIterStart
  <2>1. /\ Head(pipe).kind = "iter_start" /\ pipe # <<>> /\ pending' = <<Head(pipe)>>
        /\ checkpoint' = checkpoint
    BY <1>2 DEF ReceiveIterStart, Receive
  <2>2. Len(pending) = 0 /\ Head(pipe).inputs = <<Received + 1>>
    BY <2>1, FirstFollows
  <2>3. Received' = Received
    BY <2>1 DEF Received
  <2>4. Len(pending') = 1 /\ pending'[1].inputs = <<Received + 1>>
    BY <2>1, <2>2
  <2>5. Position' = Position + 1
    BY <1>1, <2>2, <2>3, <2>4 DEF Position
  <2>6. PendingNext'
    BY <2>3, <2>4 DEF PendingNext
  <2>7. ~ReceiveProgress
    BY <2>1 DEF ReceiveProgress, Receive
  <2> QED
    BY <1>1, <1>2, <2>1, <2>2, <2>3, <2>4, <2>5, <2>6, <2>7
<1>3. CASE ReceiveProgress
  <2>1. /\ Head(pipe).kind = "progress" /\ pipe # <<>>
        /\ checkpoint' = <<Head(pipe).inputs>>
        /\ pending' = IF pending # <<>> /\ Len(Head(pipe).inputs) > pending[1].idx
                      THEN <<>> ELSE pending
    BY <1>3 DEF ReceiveProgress, Receive
  <2>2. Len(pending) = 1 /\ Len(Head(pipe).inputs) = Received + 1 /\ pending[1].idx < Received + 1
    BY <2>1, FirstFollows
  <2>3. pending # <<>>
    BY <2>2, Counters
  <2>3a. pending[1].idx \in Int
    <3>1. pending \in Seq(Messages) /\ 1 \in 1 .. Len(pending)
      BY <2>2 DEF Types, TypeOK
    <3>2. pending[1] \in Messages
      BY <3>1, ElementOfSeq
    <3> QED
      BY <3>2 DEF Messages
  <2>4. pending' = <<>>
    BY <1>1, <2>1, <2>2, <2>3, <2>3a
  <2>5. Received' = Received + 1
    BY <2>1, <2>2 DEF Received
  <2>6. Position' = Position + 1 /\ Len(pending') = 0
    BY <1>1, <2>2, <2>4, <2>5 DEF Position
  <2>7. ~ReceiveIterStart
    BY <2>1 DEF ReceiveIterStart, Receive
  <2> QED
    BY <1>1, <1>3, <2>1, <2>2, <2>4, <2>5, <2>6, <2>7 DEF PendingNext
<1> QED
  BY <1>2, <1>3

(* The answer for a lost child is put together once, and holds. *)
LEMMA HeldStep == Types /\ AnswerHeld /\ [Next]_vars => AnswerHeld'
<1> SUFFICES ASSUME Types, AnswerHeld, [Next]_vars PROVE AnswerHeld'
  OBVIOUS
<1> USE DEF vars, childVars, pipeVars, parentVars
<1>1. CASE UNCHANGED <<parent, child, checkpoint, pending, result>>
  BY <1>1 DEF AnswerHeld, Received
<1>2. ASSUME NEW how \in Lost, Finalize(how), child' \in {"closed", "dead"}
      PROVE  AnswerHeld'
  <2>1. UNCHANGED <<checkpoint, pending>> /\ parent' = "reaping"
    BY <1>2 DEF Finalize
  <2>2. result'.inputs = IF checkpoint = <<>> THEN <<>> ELSE checkpoint[1]
    BY <1>2 DEF Finalize
  <2>3. result'.tombstone = IF pending = <<>> THEN <<>> ELSE pending[1].inputs
    BY <1>2 DEF Finalize
  <2>4. Len(result'.inputs) = Received
    BY <2>2 DEF Received
  <2>5. Received' = Received
    BY <2>1 DEF Received
  <2> QED
    BY <1>2, <2>1, <2>3, <2>4, <2>5, Zenon DEF AnswerHeld, Over
<1>3. CASE Watchdog
  BY <1>2, <1>3 DEF Watchdog, Lost
<1>4. CASE SentinelReady
  BY <1>2, <1>4 DEF SentinelReady, Lost
<1>5. CASE ReceiveEof
  BY <1>2, <1>5 DEF ReceiveEof, Lost, NoWriter
<1>6. CASE ReceiveTruncated \/ ReceiveFinal
  <2>1. result'.how \notin Lost
    BY <1>6 DEF ReceiveTruncated, ReceiveFinal, Lost
  <2> QED
    BY <2>1 DEF AnswerHeld
<1>7. CASE Reap
  <2>1. UNCHANGED <<checkpoint, pending, result>> /\ child' = "dead" /\ parent' = "returned"
    BY <1>7 DEF Reap
  <2> QED
    BY <2>1 DEF AnswerHeld, Received, Over
<1>8. CASE \/ ReceiveIterStart \/ ReceiveProgress \/ KeepWaiting \/ WaitTimesOut
           \/ ConnectionReady
  <2>1. parent \notin Over /\ result' = result
    BY <1>8 DEF ReceiveIterStart, ReceiveProgress, Receive, KeepWaiting, WaitTimesOut,
       ConnectionReady, Over
  <2> QED
    BY <2>1 DEF AnswerHeld
<1>9. CASE ClosePipe \/ Exit
  <2>1. UNCHANGED <<parent, checkpoint, pending, result>> /\ child' \in {"closed", "dead"}
    BY <1>9 DEF ClosePipe, Exit
  <2> QED
    BY <2>1 DEF AnswerHeld, Received
<1>10. CASE \/ Import \/ StartAttempt \/ RunTarget \/ EnterPostLoop \/ ExploreReturns
            \/ ExploreFails \/ Send \/ BeginWrite \/ EndWrite \/ SendFails
  <2>1. child \notin {"closed", "dead"} /\ result' = result
    BY <1>10 DEF Import, StartAttempt, RunTarget, EnterPostLoop, ExploreReturns, ExploreFails,
       Send, BeginWrite, EndWrite, SendFails, Delivered
  <2> QED
    BY <2>1 DEF AnswerHeld
<1>11. CASE Expire \/ Returned
  BY <1>1, <1>11 DEF Expire, Returned
<1> QED
  BY <1>1, <1>3, <1>4, <1>5, <1>6, <1>7, <1>8, <1>9, <1>10, <1>11 DEF Next, ChildNext, ParentNext

(* A message that is written whole brings the child on. *)
LEMMA DeliveredInStep ==
  ASSUME Types, child' = AfterSend, outbox' = outbox, records' = records,
         outbox.kind = "iter_start" => outbox.inputs[1] = Len(records) + 1,
         outbox.kind = "progress" => Len(outbox.inputs) = Len(records),
         outbox.kind # "final" => Ordinal(outbox) = Position' + Len(pipe')
  PROVE  InStep'
<1>1. outbox \in Messages /\ WellFormed(outbox) /\ Len(records) \in Nat
  BY Counters
<1>2. outbox.kind \in {"iter_start", "progress", "final"}
  BY <1>1 DEF Messages
<1>3. CASE outbox.kind = "iter_start"
  <2>1. Ordinal(outbox) = 2 * outbox.inputs[1] - 1 /\ child' = "running"
    BY <1>1, <1>3, Ordinals DEF AfterSend
  <2>2. Position' + Len(pipe') = 2 * Len(records) + 1
    BY <1>1, <1>3, <2>1
  <2> QED
    BY <2>1, <2>2 DEF InStep
<1>4. CASE outbox.kind = "progress"
  <2>1. Ordinal(outbox) = 2 * Len(outbox.inputs) /\ child' = "idle"
    BY <1>1, <1>4, Ordinals DEF AfterSend
  <2>2. Position' + Len(pipe') = 2 * Len(records)
    BY <1>1, <1>4, <2>1
  <2> QED
    BY <2>1, <2>2 DEF InStep
<1>5. CASE outbox.kind = "final"
  <2>1. child' = "closing"
    BY <1>5 DEF AfterSend
  <2> QED
    BY <2>1 DEF InStep
<1> QED
  BY <1>2, <1>3, <1>4, <1>5

(* Steps that leave the pipe alone. *)
LEMMA QuietInStep ==
  ASSUME Types, Types', InStep, SamePipe, Quiet, ~silenced', Position' = Position
  PROVE  InStep'
<1> USE DEF vars, childVars, pipeVars, parentVars
<1>1. Position \in Nat /\ Len(pipe) \in Nat /\ Len(records) \in Nat /\ pipe' = pipe
  BY Counters DEF SamePipe
<1>2. CASE Import
  BY <1>1, <1>2 DEF Import, Emit, Final, InStep
<1>3. CASE StartAttempt
  <2>1. /\ Position + Len(pipe) = 2 * Len(records)
        /\ child' = "sending" /\ outbox' = IterStart(iteration, Len(records) + 1)
        /\ records' = records
    BY <1>3 DEF StartAttempt, Emit, InStep
  <2>2. outbox'.kind = "iter_start" /\ outbox'.inputs[1] = Len(records) + 1
    BY <2>1 DEF IterStart
  <2>3. Ordinal(outbox)' = 2 * (Len(records) + 1) - 1
    BY <2>2 DEF Ordinal
  <2>4. Ordinal(outbox)' = Position' + Len(pipe') + 1
    BY <1>1, <2>1, <2>3
  <2> QED
    BY <2>1, <2>2, <2>4 DEF InStep
<1>4. CASE RunTarget
  <2>1. /\ Position + Len(pipe) = 2 * Len(records) + 1
        /\ child' = "sending" /\ outbox' = Progress(records')
        /\ records' = Append(records, Len(records) + 1)
    BY <1>4 DEF RunTarget, Emit, InStep
  <2>2. Len(records') = Len(records) + 1
    <3>1. Len(records) < MaxAttempts /\ MaxAttempts \in Nat
      BY <1>4, BoundsAssumption DEF Types, Announcing, RunTarget
    <3>2. Len(records) + 1 \in Attempts /\ records \in Seq(Attempts)
      BY <1>1, <3>1 DEF Types, TypeOK, Attempts
    <3> QED
      BY <2>1, <3>2, AppendProperties
  <2>3. outbox'.kind = "progress" /\ Len(outbox'.inputs) = Len(records')
    BY <2>1 DEF Progress
  <2>4. Ordinal(outbox)' = 2 * Len(records')
    BY <2>3 DEF Ordinal
  <2>5. Ordinal(outbox)' = Position' + Len(pipe') + 1
    BY <1>1, <2>1, <2>2, <2>4
  <2> QED
    BY <2>1, <2>3, <2>5 DEF InStep
<1>5. CASE EnterPostLoop
  BY <1>1, <1>5 DEF EnterPostLoop, InStep
<1>6. CASE ExploreReturns \/ ExploreFails
  BY <1>6 DEF ExploreReturns, ExploreFails, Emit, Final, InStep
<1>7. CASE EndWrite
  <2>1. child = "writing" /\ child' = AfterSend /\ outbox' = outbox /\ records' = records
    BY <1>7 DEF EndWrite, Delivered
  <2>2. /\ outbox.kind = "iter_start" => outbox.inputs[1] = Len(records) + 1
        /\ outbox.kind = "progress" => Len(outbox.inputs) = Len(records)
        /\ outbox.kind # "final" => Ordinal(outbox) = Position + Len(pipe)
    BY <2>1 DEF InStep
  <2> QED
    BY <1>1, <2>1, <2>2, DeliveredInStep
<1>8. CASE SendFails
  BY <1>8 DEF SendFails
<1>9. CASE ClosePipe \/ Exit
  BY <1>9 DEF ClosePipe, Exit, InStep
<1>10. CASE QuietParent \/ Expire \/ UNCHANGED vars
  <2>1. UNCHANGED <<outbox, records>> /\ (child' = child \/ child' = "dead")
    BY <1>10 DEF QuietParent, KeepWaiting, Watchdog, WaitTimesOut, ConnectionReady,
       SentinelReady, ReceiveEof, ReceiveTruncated, Reap, Expire
  <2> QED
    BY <1>1, <2>1 DEF InStep, Ordinal
<1> QED
  BY <1>2, <1>3, <1>4, <1>5, <1>6, <1>7, <1>8, <1>9, <1>10, Zenon DEF Quiet, QuietChild

LEMMA QuietAccounted ==
  ASSUME Types, Types', Writing, Accounted, SamePipe, Quiet, ~silenced'
  PROVE  Accounted'
<1> USE DEF vars, childVars, pipeVars, parentVars
<1>0. Position \in Nat /\ DOMAIN pipe = 1 .. Len(pipe) /\ Len(pipe) \in Nat
  BY Counters
<1>1. UNCHANGED <<pipe, checkpoint, pending>>
  <2>1. UNCHANGED <<checkpoint, pending>>
    BY DEF Quiet, QuietChild, QuietParent, Import, StartAttempt, RunTarget, EnterPostLoop,
       ExploreReturns, ExploreFails, EndWrite, Delivered, SendFails, ClosePipe, Exit,
       KeepWaiting, Watchdog, WaitTimesOut, ConnectionReady, SentinelReady, ReceiveEof,
       ReceiveTruncated, Reap, Finalize, Expire
  <2> QED
    BY <2>1 DEF SamePipe
<1>2. Received' = Received /\ Position' = Position /\ Unread' = Unread
  BY <1>1 DEF Received, Position, Unread
<1>3. InOrder' /\ PendingNext'
  BY <1>1, <1>2 DEF Accounted, InOrder, PendingNext, Ordinal
<1>4. InStep'
  BY <1>2, QuietInStep DEF Accounted
<1>5. WholeAnnounced' /\ ReadAttempts'
  <2>1. CASE EndWrite
    <3>1. /\ pipe # <<>> /\ pipe[Len(pipe)] = outbox /\ half
          /\ outbox.kind = "iter_start" => announced' = announced \cup {outbox.inputs[1]}
          /\ outbox.kind # "iter_start" => announced' = announced
      BY <2>1 DEF EndWrite, Delivered, Writing
    <3>2. announced \subseteq announced'
      BY <3>1
    <3>3. Len(pipe) \in DOMAIN pipe
      BY <1>0, <3>1, EmptySeq DEF Types, TypeOK
    <3>4. ASSUME NEW i \in DOMAIN pipe, pipe[i].kind = "iter_start"
          PROVE  pipe[i].inputs[1] \in announced'
      <4>1. CASE i = Len(pipe)
        BY <3>1, <3>4, <4>1
      <4>2. CASE i # Len(pipe)
        BY <3>2, <3>4, <4>2 DEF Accounted, WholeAnnounced
      <4> QED
        BY <4>1, <4>2
    <3>5. WholeAnnounced'
      BY <1>1, <3>4, Zenon DEF WholeAnnounced
    <3>6. outbox.kind = "iter_start" => outbox.inputs[1] \in Unread
      BY <3>1, <3>3 DEF Unread
    <3>7. announced' \ Unread = announced \ Unread
      BY <3>1, <3>6
    <3>8. ReadAttempts'
      BY <1>1, <1>2, <3>7 DEF Accounted, ReadAttempts
    <3> QED
      BY <3>5, <3>8
  <2>2. CASE ~EndWrite
    <3>1. UNCHANGED <<half, announced>>
      BY <2>2 DEF Quiet, QuietChild, QuietParent, Import, StartAttempt, RunTarget,
         EnterPostLoop, ExploreReturns, ExploreFails, SendFails, ClosePipe, Exit,
         KeepWaiting, Watchdog, WaitTimesOut, ConnectionReady, SentinelReady, ReceiveEof,
         ReceiveTruncated, Reap, Expire
    <3>2. WholeAnnounced'
      BY <1>1, <3>1 DEF Accounted, WholeAnnounced
    <3>3. ReadAttempts'
      BY <1>1, <1>2, <3>1 DEF Accounted, ReadAttempts
    <3> QED
      BY <3>2, <3>3
  <2> QED
    BY <2>1, <2>2
<1> QED
  BY <1>3, <1>4, <1>5, Zenon DEF Accounted

(* The child writes. *)
LEMMA WriteAccounted ==
  ASSUME Types, Types', Writing, Accounted, Written, Send \/ BeginWrite
  PROVE  Accounted'
<1> USE DEF vars, childVars, pipeVars, parentVars
<1>0. /\ Received \in Nat /\ Len(pending) \in {0, 1} /\ Position \in Nat
      /\ Len(records) \in Nat /\ outbox \in Messages /\ WellFormed(outbox)
  BY Counters
<1>1. /\ Len(pipe) \in Nat /\ Len(pipe') = Len(pipe) + 1
      /\ DOMAIN pipe = 1 .. Len(pipe) /\ DOMAIN pipe' = 1 .. Len(pipe')
      /\ \A i \in DOMAIN pipe : pipe'[i] = pipe[i]
      /\ pipe'[Len(pipe')] = outbox
  BY WrittenPipe
<1>2. \A i \in DOMAIN pipe' : i \in DOMAIN pipe \/ i = Len(pipe')
  BY <1>1
<1>2a. DOMAIN pipe \subseteq DOMAIN pipe' /\ Len(pipe') \in DOMAIN pipe'
       /\ Len(pipe') \notin DOMAIN pipe
  BY <1>1
<1>3. /\ UNCHANGED <<checkpoint, pending, records, outbox>> /\ child = "sending"
  BY DEF Send, BeginWrite, Delivered
<1>4. Received' = Received /\ Position' = Position
  BY <1>3 DEF Received, Position
<1>5. /\ outbox.kind = "iter_start" => outbox.inputs[1] = Len(records) + 1
      /\ outbox.kind = "progress" => Len(outbox.inputs) = Len(records)
      /\ outbox.kind # "final" => Ordinal(outbox) = Position + Len(pipe')
  BY <1>0, <1>1, <1>3 DEF Accounted, InStep
<1>6. InStep'
  <2>1. CASE Send
    <3>1. child' = AfterSend
      BY <2>1 DEF Send, Delivered
    <3> QED
      BY <1>3, <1>4, <1>5, <3>1, DeliveredInStep
  <2>2. CASE BeginWrite
    <3>1. child' = "writing"
      BY <2>2 DEF BeginWrite
    <3> QED
      BY <1>3, <1>4, <1>5, <3>1 DEF InStep, Ordinal
  <2> QED
    BY <2>1, <2>2
<1>7. InOrder'
  <2>1. ASSUME NEW i \in DOMAIN pipe', pipe'[i].kind # "final"
        PROVE  Ordinal(pipe'[i]) = Position + i
    <3>1. CASE i \in DOMAIN pipe
      <4>1. pipe'[i] = pipe[i]
        BY <1>1, <3>1
      <4> QED
        BY <2>1, <3>1, <4>1 DEF Accounted, InOrder
    <3>2. CASE i = Len(pipe')
      BY <1>1, <1>5, <2>1, <3>2
    <3> QED
      BY <1>2, <3>1, <3>2
  <2> QED
    BY <1>4, <2>1 DEF InOrder, Ordinal
<1>8. PendingNext'
  BY <1>3, <1>4 DEF Accounted, PendingNext
<1>9. ~half
  BY <1>3 DEF Writing
<1>10. WholeAnnounced'
  <2>1. CASE Send
    <3>1. /\ outbox.kind = "iter_start" => announced' = announced \cup {outbox.inputs[1]}
          /\ outbox.kind # "iter_start" => announced' = announced
      BY <2>1 DEF Send, Delivered
    <3>2. ASSUME NEW i \in DOMAIN pipe', pipe'[i].kind = "iter_start"
          PROVE  pipe'[i].inputs[1] \in announced'
      <4>1. CASE i \in DOMAIN pipe
        BY <1>1, <1>9, <3>1, <3>2, <4>1 DEF Accounted, WholeAnnounced
      <4>2. CASE i = Len(pipe')
        BY <1>1, <3>1, <3>2, <4>2
      <4> QED
        BY <1>2, <4>1, <4>2
    <3> QED
      BY <3>2, Zenon DEF WholeAnnounced
  <2>2. CASE BeginWrite
    <3>1. half' /\ announced' = announced
      BY <2>2 DEF BeginWrite
    <3>2. ASSUME NEW i \in DOMAIN pipe', pipe'[i].kind = "iter_start", i # Len(pipe')
          PROVE  pipe'[i].inputs[1] \in announced'
      <4>1. i \in DOMAIN pipe
        BY <1>2, <3>2
      <4>2. pipe'[i] = pipe[i]
        BY <1>1, <4>1
      <4> QED
        BY <1>9, <3>1, <3>2, <4>1, <4>2 DEF Accounted, WholeAnnounced
    <3> QED
      BY <3>1, <3>2, Zenon DEF WholeAnnounced
  <2> QED
    BY <2>1, <2>2
<1>11. ReadAttempts'
  <2>1. announced \ Unread = 1 .. Received + Len(pending)
    BY DEF Accounted, ReadAttempts
  <2>2. CASE outbox.kind = "iter_start"
    <3> DEFINE n == outbox.inputs[1]
    <3>1. Unread' = Unread \cup {n}
      <4>1. ASSUME NEW x \in Unread' PROVE x \in Unread \cup {n}
        <5>1. PICK i \in DOMAIN pipe' : pipe'[i].kind = "iter_start" /\ x = pipe'[i].inputs[1]
          BY <4>1 DEF Unread
        <5>2. CASE i \in DOMAIN pipe
          BY <1>1, <5>1, <5>2 DEF Unread
        <5>3. CASE i = Len(pipe')
          BY <1>1, <5>1, <5>3
        <5> QED
          BY <1>2, <5>2, <5>3
      <4>2. ASSUME NEW x \in Unread PROVE x \in Unread'
        <5>1. PICK i \in DOMAIN pipe : pipe[i].kind = "iter_start" /\ x = pipe[i].inputs[1]
          BY <4>2 DEF Unread
        <5> QED
          BY <1>1, <1>2a, <5>1 DEF Unread
      <4>3. n \in Unread'
        BY <1>1, <1>2a, <2>2 DEF Unread
      <4> QED
        BY <4>1, <4>2, <4>3
    <3>2. n \in Int /\ Ordinal(outbox) = 2 * n - 1
      BY <1>0, <2>2, Ordinals DEF Attempts
    <3>3. 2 * n - 1 = 2 * Received + Len(pending) + Len(pipe) + 1 /\ n \in Int
      BY <1>0, <1>1, <1>5, <2>2, <3>2 DEF Position
    <3>4. n > Received + Len(pending)
      <4> DEFINE p == Len(pending)
                 k == Len(pipe)
      <4>1. /\ Received \in Nat /\ p \in {0, 1} /\ k \in Nat /\ n \in Int
            /\ 2 * n - 1 = 2 * Received + p + k + 1
        BY <1>0, <1>1, <3>3, Zenon
      <4> HIDE DEF n, p, k
      <4>2. n > Received + p
        BY <4>1
      <4> QED
        BY <4>2, Zenon DEF p
    <3>5. n \notin announced \ Unread
      BY <1>0, <2>1, <3>2, <3>4
    <3>6. announced' = announced \/ announced' = announced \cup {n}
      BY <2>2 DEF Send, BeginWrite, Delivered
    <3>7. announced' \ Unread' = announced \ Unread
      BY <3>1, <3>5, <3>6
    <3> QED
      BY <1>3, <1>4, <2>1, <3>7 DEF ReadAttempts
  <2>3. CASE outbox.kind # "iter_start"
    <3>1. announced' = announced
      BY <2>3 DEF Send, BeginWrite, Delivered
    <3>2. Unread' = Unread
      <4>1. ASSUME NEW x \in Unread' PROVE x \in Unread
        <5>1. PICK i \in DOMAIN pipe' : pipe'[i].kind = "iter_start" /\ x = pipe'[i].inputs[1]
          BY <4>1 DEF Unread
        <5>2. i \in DOMAIN pipe
          BY <1>1, <1>2, <2>3, <5>1
        <5> QED
          BY <1>1, <5>1, <5>2 DEF Unread
      <4>2. ASSUME NEW x \in Unread PROVE x \in Unread'
        <5>1. PICK i \in DOMAIN pipe : pipe[i].kind = "iter_start" /\ x = pipe[i].inputs[1]
          BY <4>2 DEF Unread
        <5> QED
          BY <1>1, <1>2a, <5>1 DEF Unread
      <4> QED
        BY <4>1, <4>2
    <3> QED
      BY <1>3, <1>4, <2>1, <3>1, <3>2 DEF ReadAttempts
  <2> QED
    BY <2>2, <2>3
<1> QED
  BY <1>6, <1>7, <1>8, <1>10, <1>11, Zenon DEF Accounted

(* The parent reads. *)
LEMMA ReadAccounted ==
  ASSUME Types, Types', Finals, Accounted, Read,
         ReceiveIterStart \/ ReceiveProgress \/ ReceiveFinal
  PROVE  Accounted'
<1> USE DEF vars, childVars, pipeVars, parentVars
<1>0. /\ Received \in Nat /\ Len(pending) \in {0, 1} /\ Position \in Nat
      /\ Len(records) \in Nat
      /\ \A i \in DOMAIN pipe : pipe[i] \in Messages /\ WellFormed(pipe[i])
  BY Counters
<1>1. /\ Len(pipe) \in Nat \ {0} /\ Len(pipe') = Len(pipe) - 1
      /\ DOMAIN pipe = 1 .. Len(pipe) /\ DOMAIN pipe' = 1 .. Len(pipe')
      /\ \A i \in DOMAIN pipe' : i + 1 \in DOMAIN pipe /\ pipe'[i] = pipe[i + 1]
      /\ Head(pipe) = pipe[1] /\ 1 \in DOMAIN pipe
      /\ half => Len(pipe) > 1
  BY ReadPipe
<1>2. UNCHANGED <<child, outbox, records, half, announced>>
  BY DEF ReceiveIterStart, ReceiveProgress, ReceiveFinal, Receive
<1>3. \A i \in DOMAIN pipe : i # 1 => i - 1 \in DOMAIN pipe' /\ pipe[i] = pipe'[i - 1]
  BY <1>1
<1>4. CASE ReceiveFinal
  <2>1. pipe[1].kind = "final" /\ UNCHANGED <<checkpoint, pending>>
    BY <1>1, <1>4 DEF ReceiveFinal, Receive
  <2>2. 1 = Len(pipe) /\ (half \/ finalSent)
    BY <1>1, <2>1 DEF Finals
  <2>3. DOMAIN pipe' = {}
    <3>1. Len(pipe') = 1 - 1
      BY <1>1, <2>2, Zenon
    <3> QED
      BY <1>1, <3>1
  <2>4. ~half
    BY <1>1, <2>2
  <2>5. child' \in {"closing", "closed", "dead"}
    BY <1>2, <2>2, <2>4 DEF Finals
  <2>6. InStep'
    BY <2>5 DEF InStep
  <2>7. InOrder' /\ WholeAnnounced'
    BY <2>3 DEF InOrder, WholeAnnounced
  <2>8. PendingNext'
    BY <2>1 DEF Accounted, PendingNext, Received
  <2>9. Unread = {} /\ Unread' = {}
    BY <1>1, <2>1, <2>2, <2>3 DEF Unread
  <2>10. ReadAttempts'
    BY <1>2, <2>1, <2>9 DEF Accounted, ReadAttempts, Received
  <2> QED
    BY <2>6, <2>7, <2>8, <2>10, Zenon DEF Accounted
<1>5. CASE ReceiveIterStart \/ ReceiveProgress
  <2>1. /\ Position' = Position + 1 /\ PendingNext'
        /\ ReceiveIterStart => /\ Received' = Received /\ Len(pending') = 1 /\ Len(pending) = 0
        /\ ReceiveProgress => Received' = Received + 1 /\ pending' = <<>> /\ Len(pending) = 1
    BY <1>5, ReadingMoves DEF Accounted
  <2>2. InStep'
    <3>1. Position' + Len(pipe') = Position + Len(pipe)
      BY <1>0, <1>1, <2>1
    <3>2. Position' + Len(pipe') + 1 = Position + Len(pipe) + 1
      BY <3>1
    <3>3. InStep
      BY DEF Accounted
    <3> QED
      BY <1>2, <3>1, <3>2, <3>3, Zenon DEF InStep, Ordinal
  <2>3. InOrder'
    <3>1. ASSUME NEW i \in DOMAIN pipe', pipe'[i].kind # "final"
          PROVE  Ordinal(pipe'[i]) = Position + 1 + i
      <4>1. i + 1 \in DOMAIN pipe /\ pipe'[i] = pipe[i + 1] /\ i \in Int
        BY <1>1
      <4>2. Ordinal(pipe[i + 1]) = Position + (i + 1)
        BY <3>1, <4>1 DEF Accounted, InOrder
      <4> QED
        BY <1>0, <4>1, <4>2
    <3> QED
      BY <2>1, <3>1 DEF InOrder, Ordinal
  <2>4. WholeAnnounced'
    <3>1. ASSUME NEW i \in DOMAIN pipe', pipe'[i].kind = "iter_start", half => i # Len(pipe')
          PROVE  pipe'[i].inputs[1] \in announced
      <4>1. i + 1 \in DOMAIN pipe /\ pipe'[i] = pipe[i + 1]
        BY <1>1
      <4>2. i # Len(pipe') => i + 1 # Len(pipe)
        BY <1>1
      <4>3. half => i + 1 # Len(pipe)
        BY <3>1, <4>2, Zenon
      <4> QED
        BY <3>1, <4>1, <4>3 DEF Accounted, WholeAnnounced
    <3> QED
      BY <1>2, <3>1, Zenon DEF WholeAnnounced
  <2>5. ReadAttempts'
    <3>1. announced \ Unread = 1 .. Received + Len(pending)
      BY DEF Accounted, ReadAttempts
    <3>2. Unread' \subseteq Unread
      <4>1. ASSUME NEW x \in Unread' PROVE x \in Unread
        <5>1. PICK i \in DOMAIN pipe' : pipe'[i].kind = "iter_start" /\ x = pipe'[i].inputs[1]
          BY <4>1 DEF Unread
        <5>2. i + 1 \in DOMAIN pipe /\ pipe'[i] = pipe[i + 1]
          BY <1>1
        <5> QED
          BY <5>1, <5>2 DEF Unread
      <4> QED
        BY <4>1
    <3>3. CASE ReceiveIterStart
      <4>1. pipe[1].kind = "iter_start" /\ pipe[1].inputs = <<Received + 1>>
        <5>1. pipe # <<>> /\ Head(pipe).kind = "iter_start"
          BY <3>3 DEF ReceiveIterStart, Receive
        <5> QED
          BY <1>1, <5>1, FirstFollows DEF Accounted
      <4>2. pipe[1].inputs[1] = Received + 1
        BY <4>1
      <4>3. Received + 1 \in Unread
        BY <1>1, <4>1, <4>2 DEF Unread
      <4>4. Received + 1 \in announced
        <5>1. half => 1 # Len(pipe)
          BY <1>1
        <5> QED
          BY <1>1, <4>1, <4>2, <5>1 DEF Accounted, WholeAnnounced
      <4>5. ASSUME NEW x \in Unread, x # Received + 1 PROVE x \in Unread'
        <5>1. PICK i \in DOMAIN pipe : pipe[i].kind = "iter_start" /\ x = pipe[i].inputs[1]
          BY <4>5 DEF Unread
        <5>2. i # 1
          BY <4>2, <4>5, <5>1
        <5>3. i - 1 \in DOMAIN pipe' /\ pipe[i] = pipe'[i - 1]
          BY <1>3, <5>2
        <5> QED
          BY <5>1, <5>3 DEF Unread
      <4>6. Received + 1 \notin Unread'
        <5>1. SUFFICES ASSUME Received + 1 \in Unread' PROVE FALSE
          OBVIOUS
        <5>2. PICK i \in DOMAIN pipe' :
                pipe'[i].kind = "iter_start" /\ Received + 1 = pipe'[i].inputs[1]
          BY <5>1 DEF Unread
        <5>3. i + 1 \in DOMAIN pipe /\ pipe'[i] = pipe[i + 1] /\ i \in Int /\ i >= 1
          BY <1>1
        <5>4. Ordinal(pipe[i + 1]) = Position + (i + 1)
          BY <5>2, <5>3 DEF Accounted, InOrder
        <5>5. Ordinal(pipe[i + 1]) = 2 * (Received + 1) - 1
          BY <1>0, <5>2, <5>3, Ordinals
        <5> QED
          BY <1>0, <2>1, <3>3, <5>3, <5>4, <5>5 DEF Position
      <4>7. announced \ Unread' = (announced \ Unread) \cup {Received + 1}
        BY <3>2, <4>3, <4>4, <4>5, <4>6
      <4>8. (1 .. Received) \cup {Received + 1} = 1 .. Received + 1
        BY <1>0
      <4>9. announced \ Unread' = 1 .. Received + 1
        BY <1>0, <2>1, <3>1, <3>3, <4>7, <4>8
      <4> QED
        BY <1>2, <2>1, <3>3, <4>9 DEF ReadAttempts
    <3>4. CASE ReceiveProgress
      <4>1. pipe[1].kind = "progress"
        BY <1>1, <3>4 DEF ReceiveProgress, Receive
      <4>2. ASSUME NEW x \in Unread PROVE x \in Unread'
        <5>1. PICK i \in DOMAIN pipe : pipe[i].kind = "iter_start" /\ x = pipe[i].inputs[1]
          BY <4>2 DEF Unread
        <5>2. i - 1 \in DOMAIN pipe' /\ pipe[i] = pipe'[i - 1]
          BY <1>3, <4>1, <5>1
        <5> QED
          BY <5>1, <5>2 DEF Unread
      <4>3. Unread' = Unread
        BY <3>2, <4>2
      <4>4. Received' + Len(pending') = Received + Len(pending)
        <5>1. Received' = Received + 1 /\ Len(pending) = 1 /\ pending' = <<>>
          BY <2>1, <3>4, Zenon
        <5>2. Len(pending') = 0
          BY <5>1, EmptySeq
        <5> QED
          BY <1>0, <5>1, <5>2
      <4> QED
        BY <1>2, <3>1, <4>3, <4>4 DEF ReadAttempts
    <3> QED
      BY <1>5, <3>3, <3>4
  <2> QED
    BY <2>1, <2>2, <2>3, <2>4, <2>5, Zenon DEF Accounted
<1> QED
  BY <1>4, <1>5

LEMMA AccountsInit == Init => Accounts
<1> SUFFICES ASSUME Init PROVE Accounts
  OBVIOUS
<1>1. /\ child = "importing" /\ pipe = <<>> /\ checkpoint = <<>> /\ pending = <<>>
      /\ records = <<>> /\ announced = {} /\ result.how = "none"
  BY DEF Init, NoResult
<1>2. Received = 0 /\ Len(pending) = 0 /\ Len(pipe) = 0 /\ Len(records) = 0
  BY <1>1 DEF Received
<1>3. Position = 0
  BY <1>2 DEF Position
<1>4. DOMAIN pipe = {}
  BY <1>1
<1>5. InStep
  BY <1>1, <1>2, <1>3 DEF InStep
<1>6. InOrder /\ PendingNext /\ WholeAnnounced
  BY <1>1, <1>4 DEF InOrder, PendingNext, WholeAnnounced
<1>7. ReadAttempts
  BY <1>1, <1>2 DEF ReadAttempts
<1>8. AnswerHeld
  BY <1>1 DEF AnswerHeld, Lost
<1> QED
  BY <1>5, <1>6, <1>7, <1>8, Zenon DEF Accounts, Accounted

LEMMA AccountsStep ==
  Types /\ Types' /\ Writing /\ Finals /\ Accounts /\ [Next]_vars => Accounts'
<1> SUFFICES ASSUME Types, Types', Writing, Finals, Accounts, [Next]_vars PROVE Accounts'
  OBVIOUS
<1> USE DEF vars, childVars, pipeVars, parentVars
<1>1. AnswerHeld'
  BY HeldStep, Zenon DEF Accounts
<1>2. ASSUME ~silenced' PROVE Accounted'
  <2>1. silenced' = silenced \/ silenced' = TRUE
    BY DEF Next, ChildNext, ParentNext, Import, StartAttempt, RunTarget, EnterPostLoop,
       ExploreReturns, ExploreFails, Send, BeginWrite, EndWrite, Delivered, SendFails,
       ClosePipe, Exit, KeepWaiting, Watchdog, WaitTimesOut, ConnectionReady, SentinelReady,
       ReceiveIterStart, ReceiveProgress, ReceiveFinal, Receive, ReceiveEof,
       ReceiveTruncated, Reap, Expire, Returned
  <2>2. ~silenced
    BY <1>2, <2>1, Zenon
  <2>3. Accounted
    BY <2>2, Zenon DEF Accounts
  <2> QED
    BY <1>2, <2>3, PipeSteps, QuietAccounted, WriteAccounted, ReadAccounted, Zenon
<1> QED
  BY <1>1, <1>2, Zenon DEF Accounts

(* The second of two sequences follows the first. *)
LEMMA SecondPart ==
  ASSUME NEW S, NEW s \in Seq(S), NEW t \in Seq(S), NEW i \in 1 .. Len(t)
  PROVE  (s \o t)[Len(s) + i] = t[i]
<1> DEFINE a == Len(s)
           b == Len(t)
<1>1. a \in Nat /\ b \in Nat /\ i \in 1 .. b
  BY LenProperties
<1>2. \A j \in 1 .. a + b : (s \o t)[j] = IF j <= a THEN s[j] ELSE t[j - a]
  BY ConcatProperties
<1> HIDE DEF a, b
<1>3. a + i \in 1 .. a + b /\ ~(a + i <= a) /\ i = (a + i) - a
  BY <1>1
<1> DEFINE j == a + i
<1>4. j \in 1 .. a + b /\ ~(j <= a) /\ j - a = i
  BY <1>3
<1> HIDE DEF j
<1>5. (s \o t)[j] = t[j - a]
  BY <1>2, <1>4, Zenon
<1>6. (s \o t)[j] = t[i]
  BY <1>4, <1>5, Zenon
<1> QED
  BY <1>6 DEF a, j

(* What the invariant says of a lost child's answer. *)
LEMMA AccountsImply == Types /\ Truth /\ Accounts => LostChildAccounted
<1> SUFFICES ASSUME Types, Truth, Accounts, result.how \in Lost, ~silenced
             PROVE  /\ IsInjective(Shown)
                    /\ \A i, j \in DOMAIN Shown : i < j => Shown[i] < Shown[j]
                    /\ ToSet(Shown) = announced \ Unread
  BY Zenon DEF LostChildAccounted, Lost
<1> DEFINE n == Received + Len(pending)
<1>1. Received \in Nat /\ Len(pending) \in {0, 1} /\ (pending = <<>> => Len(pending) = 0) /\ (pending # <<>> => Len(pending) = 1)
  BY Counters
<1>2. /\ result.inputs \in Seq(Attempts) /\ result.tombstone \in Seq(Attempts)
      /\ Numbered(result.inputs)
  BY Zenon DEF Types, TypeOK, Truth, InitialPart
<1>3. /\ Len(result.inputs) = Received
      /\ result.tombstone = IF pending = <<>> THEN <<>> ELSE pending[1].inputs
      /\ pending # <<>> => pending[1].inputs = <<Received + 1>>
      /\ announced \ Unread = 1 .. n
  BY Zenon DEF Accounts, AnswerHeld, Accounted, PendingNext, ReadAttempts
<1>4. DOMAIN Shown = 1 .. n /\ \A i \in 1 .. n : Shown[i] = i
  <2>1. Shown = result.inputs \o result.tombstone
    BY DEF Shown
  <2>2. Len(result.tombstone) = Len(pending) /\ (Len(pending) = 1 => result.tombstone = <<Received + 1>>)
    <3>1. CASE pending = <<>>
      <4>1. result.tombstone = <<>> /\ Len(pending) = 0
        BY <1>1, <1>3, <3>1, Zenon
      <4> QED
        BY <4>1
    <3>2. CASE pending # <<>>
      <4>1. result.tombstone = <<Received + 1>> /\ Len(pending) = 1
        BY <1>1, <1>3, <3>2, Zenon
      <4> QED
        BY <4>1
    <3> QED
      BY <3>1, <3>2
  <2>3. /\ Len(Shown) = Len(result.inputs) + Len(result.tombstone)
        /\ \A i \in 1 .. Len(result.inputs) : Shown[i] = result.inputs[i]
        /\ \A i \in 1 .. Len(result.tombstone) :
             Shown[Len(result.inputs) + i] = result.tombstone[i]
        /\ Shown \in Seq(Attempts)
    <3> DEFINE a == Len(result.inputs)
               b == Len(result.tombstone)
    <3>1. a \in Nat /\ b \in Nat
      BY <1>2, LenProperties
    <3>2. /\ Shown \in Seq(Attempts) /\ Len(Shown) = a + b
          /\ \A i \in 1 .. a + b :
               Shown[i] = IF i <= a THEN result.inputs[i] ELSE result.tombstone[i - a]
      BY <1>2, <2>1, ConcatProperties, Zenon
    <3> HIDE DEF a, b
    <3>3. ASSUME NEW i \in 1 .. a PROVE Shown[i] = result.inputs[i]
      <4>1. i \in 1 .. a + b /\ i <= a
        BY <3>1
      <4> QED
        BY <3>2, <4>1, Zenon
    <3>4. \A i \in 1 .. b : Shown[a + i] = result.tombstone[i]
      BY <1>2, <2>1, SecondPart, Zenon DEF a, b
    <3> QED
      BY <3>2, <3>3, <3>4, Zenon DEF a, b
  <2>4. Len(Shown) = n /\ DOMAIN Shown = 1 .. n
    BY <1>3, <2>2, <2>3, LenProperties
  <2>5. ASSUME NEW i \in 1 .. n PROVE Shown[i] = i
    <3>1. CASE i \in 1 .. Received
      <4>1. i \in DOMAIN result.inputs
        BY <1>2, <1>3, <3>1, LenProperties
      <4>2. result.inputs[i] = i
        BY <1>2, <4>1 DEF Numbered
      <4> QED
        BY <1>3, <2>3, <3>1, <4>2
    <3>2. CASE i \notin 1 .. Received
      <4>1. Len(pending) = 1 /\ i = Received + 1
        <5> DEFINE p == Len(pending)
        <5>1. Received \in Nat /\ p \in {0, 1}
          BY <1>1, Zenon
        <5>2. i \in 1 .. Received + p
          BY <2>5, Zenon
        <5> HIDE DEF p
        <5>3. p = 1 /\ i = Received + 1
          BY <3>2, <5>1, <5>2
        <5> QED
          BY <5>3, Zenon DEF p
      <4>2. Len(result.tombstone) = 1 /\ result.tombstone[1] = Received + 1
        BY <2>2, <4>1
      <4>3. 1 \in 1 .. Len(result.tombstone)
        BY <4>2
      <4>4. Shown[Received + 1] = result.tombstone[1]
        BY <1>3, <2>3, <4>3
      <4> QED
        BY <4>1, <4>2, <4>4
    <3> QED
      BY <3>1, <3>2
  <2> QED
    BY <2>4, <2>5
<1>5. n \in Nat
  BY <1>1
<1> HIDE DEF n
<1>6. IsInjective(Shown)
  BY <1>4 DEF IsInjective
<1>7. \A i, j \in DOMAIN Shown : i < j => Shown[i] < Shown[j]
  BY <1>4
<1>8. ToSet(Shown) = 1 .. n
  BY <1>4 DEF ToSet
<1> QED
  BY <1>3, <1>6, <1>7, <1>8

-----------------------------------------------------------------------------
(***************************************************************************)
(* The theorems.                                                           *)
(***************************************************************************)
Invariant == Types /\ Truth /\ Writing /\ Finals /\ Accounts

LEMMA InvariantHolds == Spec => []Invariant
<1>1. Init => Invariant
  BY TypesInit, TruthInit, FinalsInit, AccountsInit, Zenon DEF Invariant
<1>2. Invariant /\ [Next]_vars => Invariant'
  BY TypesStep, TruthStep, WritingStep, FinalsStep, AccountsStep, Zenon DEF Invariant
<1> QED
  BY <1>1, <1>2, PTL DEF Spec

(* The variables of parent, child and pipe keep their types: one checkpoint, *)
(* one pending announcement and one tombstone at most, and no more messages  *)
(* in the pipe than it holds.                                                *)
THEOREM TypeCorrect == Spec => []TypeOK
<1>1. Invariant => TypeOK
  BY Zenon DEF Invariant, Types
<1> QED
  BY <1>1, InvariantHolds, PTL

(* What the parent holds as its checkpoint, and what run_isolated answers    *)
(* before a tombstone is added, is an initial part of the child's records.   *)
THEOREM CheckpointTrueHolds == Spec => []CheckpointTrue
<1>1. Invariant => CheckpointTrue
  BY TruthImplies, Zenon DEF Invariant
<1> QED
  BY <1>1, InvariantHolds, PTL

(* A final result that was written is the answer unless the deadline passed  *)
(* first, and no other answer is called final.                               *)
THEOREM FinalPreferredHolds == Spec => []FinalPreferred
<1>1. Invariant => FinalPreferred
  BY Zenon DEF Invariant, Finals, FinalPreferred, Over
<1> QED
  BY <1>1, InvariantHolds, PTL

(* When the child is lost and none of its messages failed to pickle, the     *)
(* answer shows the attempts the parent read of, each once and in order.     *)
THEOREM LostChildAccountedHolds == Spec => []LostChildAccounted
<1>1. Invariant => LostChildAccounted
  BY AccountsImply, Zenon DEF Invariant
<1> QED
  BY <1>1, InvariantHolds, PTL
=============================================================================
