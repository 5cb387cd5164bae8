---------------------- MODULE OpenSearchExporter_proofs ----------------------
(***************************************************************************)
(* The safety of OpenSearchExporter for any documents, calls and sizes,    *)
(* and its refinement of BulkSink.                                         *)
(***************************************************************************)
EXTENDS OpenSearchExporter, SequenceTheorems, TLAPS

-----------------------------------------------------------------------------
(* The inductive invariant. *)

\* What the worker holds in each of its states.
WorkerInv ==
  /\ worker \in {"select", "done"} => serving = NoCall
  /\ worker = "draining" => serving \in Calls
  /\ worker = "sending" => inflight # <<>> /\ batch = <<>>
  /\ worker # "sending" => inflight = <<>>

\* How far a call is, and what the worker may know of it.
CallInv ==
  /\ stopped <=> once # "fresh"
  /\ \A c \in Calls :
       /\ pc[c] # "returned" => ret[c] = "none"
       /\ ret[c] = "nil" => \/ result[c] = "nil"
                            \/ result[c] = "none" /\ stopped
       /\ pc[c] \in {"idle", "once", "offering"} => result[c] = "none"
       /\ (c \in Shutdowns /\ pc[c] # "idle") => once # "fresh"
       /\ pc[c] = "once" => c \in Shutdowns
       /\ serving = c => /\ result[c] = "none"
                         /\ pc[c] \in {"awaiting", "returned"}
                         /\ pc[c] = "returned" => ret[c] = "ctx"

\* What had been accepted when a call began is sent before it is answered.
MarkInv ==
  /\ \A c \in Calls : /\ mark[c] <= Len(accepted)
                      /\ result[c] # "none" => mark[c] <= Len(sent)
  /\ (worker = "sending" /\ serving \in Calls) =>
        mark[serving] <= Len(sent) + Len(inflight)

\* The worker stopped for a Shutdown and took nothing with it.
StopInv ==
  worker = "done" => /\ batch = <<>>
                     /\ \E c \in Shutdowns : result[c] # "none"

IndInv == /\ TypeOK /\ FifoAccounting
          /\ WorkerInv /\ RoomAtSelect /\ CallInv /\ MarkInv /\ StopInv

-----------------------------------------------------------------------------
(* Sequences. *)

\* Moving the head of the channel to the end of the batch moves no document.
LEMMA ShiftHead ==
  ASSUME NEW S, NEW s \in Seq(S), NEW q \in Seq(S), q # <<>>
  PROVE  /\ Append(s, Head(q)) \in Seq(S)
         /\ Tail(q) \in Seq(S)
         /\ Len(Tail(q)) = Len(q) - 1
         /\ Append(s, Head(q)) \o Tail(q) = s \o q
<1>1. Head(q) \in S /\ Tail(q) \in Seq(S) /\ Len(Tail(q)) = Len(q) - 1
  BY HeadTailProperties
<1>2. /\ Append(s, Head(q)) \in Seq(S)
      /\ Len(Append(s, Head(q))) = Len(s) + 1
      /\ \A i \in 1..Len(s) : Append(s, Head(q))[i] = s[i]
      /\ Append(s, Head(q))[Len(s) + 1] = Head(q)
  BY <1>1, AppendProperties
<1>3. /\ s \o q \in Seq(S) /\ Len(s \o q) = Len(s) + Len(q)
      /\ \A i \in 1..Len(s) + Len(q) :
           (s \o q)[i] = IF i <= Len(s) THEN s[i] ELSE q[i - Len(s)]
  BY ConcatProperties
<1> DEFINE l == Append(s, Head(q)) \o Tail(q)
<1>4. /\ l \in Seq(S) /\ Len(l) = Len(s) + 1 + Len(Tail(q))
      /\ \A i \in 1..(Len(s) + 1 + Len(Tail(q))) :
           l[i] = IF i <= Len(s) + 1 THEN Append(s, Head(q))[i]
                                     ELSE Tail(q)[i - (Len(s) + 1)]
  BY <1>1, <1>2, ConcatProperties
<1>5. \A i \in 1..Len(Tail(q)) : Tail(q)[i] = q[i + 1]
  BY HeadTailProperties
<1>6. Head(q) = q[1] /\ Len(q) \in Nat /\ Len(s) \in Nat
  BY LenProperties
<1>7. \A i \in 1..Len(l) : l[i] = (s \o q)[i]
  BY <1>1, <1>2, <1>3, <1>4, <1>5, <1>6
<1>8. Len(l) = Len(s \o q)
  BY <1>1, <1>3, <1>4, <1>6
<1>9. l = s \o q
  BY <1>3, <1>4, <1>7, <1>8, SeqEqual
<1> QED
  BY <1>1, <1>2, <1>9

\* The same behind any other documents.
LEMMA ShiftHeadBehind ==
  ASSUME NEW S, NEW x \in Seq(S), NEW s \in Seq(S), NEW q \in Seq(S), q # <<>>
  PROVE  (x \o s) \o q = (x \o Append(s, Head(q))) \o Tail(q)
<1>1. ASSUME NEW t \in Seq(S), NEW r \in Seq(S), t \o r = s \o q
      PROVE  (x \o s) \o q = (x \o t) \o r
  <2>1. (x \o s) \o q = x \o (s \o q)
    BY ConcatAssociative
  <2>2. (x \o t) \o r = x \o (t \o r)
    BY ConcatAssociative
  <2> QED
    BY <1>1, <2>1, <2>2
<1> DEFINE t == Append(s, Head(q))
           r == Tail(q)
<1>2. t \in Seq(S) /\ r \in Seq(S) /\ t \o r = s \o q
  BY ShiftHead
<1> HIDE DEF t, r
<1>3. (x \o s) \o q = (x \o t) \o r
  BY <1>1, <1>2
<1> QED
  BY <1>3 DEF t, r

-----------------------------------------------------------------------------
(* Type correctness. *)

\* The types at first,
LEMMA TypeInit == Init => TypeOK
<1>1. <<>> \in Seq(Docs) /\ Len(<<>>) = 0
  BY EmptySeq
<1> QED
  <2> SUFFICES ASSUME Init PROVE TypeOK
    OBVIOUS
  <2>1. queue \in Seq(Docs) /\ Len(queue) <= QueueSize
    BY <1>1, ExporterAssumption DEF Init
  <2>2. /\ batch \in Seq(Docs) /\ inflight \in Seq(Docs)
        /\ accepted \in Seq(Docs) /\ sent \in Seq(Docs)
    BY <1>1 DEF Init
  <2> QED
    BY <2>1, <2>2 DEF Init, TypeOK, Verdicts

\* and through every step: the queue never passes its bound.
LEMMA TypeStep == TypeOK /\ [Next]_vars => TypeOK'
<1> SUFFICES ASSUME TypeOK, [Next]_vars PROVE TypeOK'
  OBVIOUS
<1> USE ExporterAssumption DEF TypeOK, Calls, Verdicts
<1>1. ASSUME NEW d \in Docs, Log(d) PROVE TypeOK'
  <2>1. CASE Write(d)
    BY <2>1 DEF Write, callVars
  <2>2. CASE EncodeFails(d)
    BY <2>2 DEF EncodeFails, callVars
  <2>3. CASE Enqueue(d)
    <3>1. /\ Append(queue, d) \in Seq(Docs) /\ Append(accepted, d) \in Seq(Docs)
          /\ Len(Append(queue, d)) = Len(queue) + 1
      BY AppendProperties
    <3>2. Len(queue) \in Nat
      BY LenProperties
    <3> QED
      BY <2>3, <3>1, <3>2 DEF Enqueue, callVars
  <2>4. CASE DropFull(d)
    BY <2>4 DEF DropFull, callVars
  <2> QED
    BY <1>1, <2>1, <2>2, <2>3, <2>4 DEF Log
<1>2. ASSUME NEW c \in Calls, Call(c) PROVE TypeOK'
  <2> USE DEF callFrame, Finish, LeaveOnce
  <2>0. Len(accepted) \in Nat
    BY LenProperties
  <2>1. CASE Sync(c)
    BY <2>0, <2>1 DEF Sync
  <2>2. CASE ShutdownFirst(c)
    BY <2>0, <2>2 DEF ShutdownFirst
  <2>3. CASE ShutdownAgain(c)
    BY <2>0, <2>3 DEF ShutdownAgain
  <2>4. CASE ShutdownReleased(c)
    BY <2>4 DEF ShutdownReleased
  <2>5. CASE Expire(c)
    BY <2>5 DEF Expire, callVars
  <2>6. CASE HandOver(c)
    BY <2>6 DEF HandOver
  <2>7. CASE GiveUp(c)
    BY <2>7 DEF GiveUp
  <2>8. CASE TakeResult(c)
    BY <2>8 DEF TakeResult
  <2> QED
    BY <1>2, <2>1, <2>2, <2>3, <2>4, <2>5, <2>6, <2>7, <2>8 DEF Call
<1>3. CASE Run
  <2> USE DEF workerFrame, writerVars, callVars, StartRequest, AfterCommand
  <2>0. queue # <<>> => /\ Append(batch, Head(queue)) \in Seq(Docs)
                        /\ Tail(queue) \in Seq(Docs)
                        /\ Len(Tail(queue)) <= QueueSize
    <3>1. Len(queue) \in Nat
      BY LenProperties
    <3> QED
      BY <3>1, ShiftHead
  <2>1. CASE Receive
    <3>1. CASE Len(Append(batch, Head(queue))) >= BatchSize
      <4>1. /\ inflight' \in Seq(Docs) /\ queue' \in Seq(Docs)
            /\ Len(queue') <= QueueSize
        BY <2>0, <2>1, <3>1 DEF Receive
      <4>2. /\ batch' = <<>> /\ worker' = "sending" /\ serving' = NoCall
            /\ UNCHANGED <<workerFrame, result, sent, fate>>
        BY <2>1, <3>1 DEF Receive
      <4> QED
        BY <4>1, <4>2
    <3>2. CASE ~(Len(Append(batch, Head(queue))) >= BatchSize)
      BY <2>0, <2>1, <3>2 DEF Receive
    <3> QED
      BY <3>1, <3>2
  <2>2. CASE Tick
    BY <2>2 DEF Tick
  <2>3. CASE Drain
    BY <2>0, <2>3 DEF Drain
  <2>4. CASE DrainedNothing
    BY <2>4 DEF DrainedNothing
  <2>5. CASE Drained
    BY <2>5 DEF Drained
  <2>6. CASE DrainedTooLate
    <3>1. sent \o batch \in Seq(Docs)
      BY ConcatProperties
    <3> QED
      BY <2>6, <3>1 DEF DrainedTooLate, Sent
  <2>7. ASSUME NEW ok \in BOOLEAN, RequestEnds(ok) PROVE TypeOK'
    <3>1. sent \o inflight \in Seq(Docs)
      BY ConcatProperties
    <3> QED
      BY <2>7, <3>1 DEF RequestEnds, Sent
  <2> QED
    BY <1>3, <2>1, <2>2, <2>3, <2>4, <2>5, <2>6, <2>7
    DEF Run, RequestAccepted, RequestFails
<1>4. CASE UNCHANGED vars
  BY <1>4 DEF vars
<1> QED
  BY <1>1, <1>2, <1>3, <1>4 DEF Next

\* Every variable keeps its type, and the channel never exceeds its capacity,
\* for any number of documents, calls and any sizes.
THEOREM TypeCorrect == Spec => []TypeOK
<1>1. Init => TypeOK
  BY TypeInit
<1>2. TypeOK /\ [Next]_vars => TypeOK'
  BY TypeStep
<1> QED
  BY <1>1, <1>2, PTL DEF Spec

-----------------------------------------------------------------------------
(* Invariance, one part of the inductive invariant at a time. *)

\* The actions of callers leave the documents alone.
LEMMA CallsMoveNoDocument ==
  ASSUME NEW c \in Calls, Call(c)
  PROVE  UNCHANGED <<wpc, queue, batch, inflight, accepted, sent, fate>>
BY DEF Call, Sync, ShutdownFirst, ShutdownAgain, ShutdownReleased, Expire,
       HandOver, GiveUp, TakeResult, callFrame

\* Every step moves documents from the front of one place to the end of the next.
LEMMA FifoStep ==
  ASSUME TypeOK, FifoAccounting, WorkerInv, [Next]_vars
  PROVE  FifoAccounting'
<1>0. /\ queue \in Seq(Docs) /\ batch \in Seq(Docs)
      /\ inflight \in Seq(Docs) /\ sent \in Seq(Docs)
      /\ accepted \in Seq(Docs)
      /\ sent \o inflight \in Seq(Docs)
      /\ (sent \o inflight) \o batch \in Seq(Docs)
  BY ConcatProperties DEF TypeOK
<1>a. \A p, q, r \in Seq(Docs) : (p \o q) \o r = p \o (q \o r)
  BY ConcatAssociative
<1> USE DEF FifoAccounting
<1>1. ASSUME NEW d \in Docs, Log(d) PROVE FifoAccounting'
  <2>1. CASE Enqueue(d)
    <3>1. queue' = Append(queue, d) /\ queue' = queue \o <<d>>
      BY <1>0, <1>1, <2>1, AppendIsConcat DEF Enqueue
    <3>2. accepted' = Append(accepted, d) /\ accepted' = accepted \o <<d>>
      BY <1>0, <1>1, <2>1, AppendIsConcat DEF Enqueue
    <3>3. UNCHANGED <<sent, inflight, batch>>
      BY <2>1 DEF Enqueue
    <3>4. <<d>> \in Seq(Docs)
      BY <1>1
    <3>5. (((sent \o inflight) \o batch) \o queue) \o <<d>>
            = ((sent \o inflight) \o batch) \o (queue \o <<d>>)
      BY <1>0, <1>a, <3>4
    <3> QED
      BY <3>1, <3>2, <3>3, <3>5
  <2>2. CASE Write(d) \/ EncodeFails(d) \/ DropFull(d)
    BY <2>2 DEF Write, EncodeFails, DropFull
  <2> QED
    BY <1>1, <2>1, <2>2 DEF Log
<1>2. ASSUME NEW c \in Calls, Call(c) PROVE FifoAccounting'
  BY <1>2, CallsMoveNoDocument
<1>3. CASE Run
  <2> DEFINE taken == Append(batch, Head(queue))
  <2>0. ASSUME queue # <<>>
        PROVE  /\ taken \in Seq(Docs) /\ Tail(queue) \in Seq(Docs)
               /\ accepted = ((sent \o inflight) \o taken) \o Tail(queue)
    <3>1. taken \in Seq(Docs) /\ Tail(queue) \in Seq(Docs)
      BY <1>0, <2>0, ShiftHead
    <3>2. \A x \in Seq(Docs) :
            (x \o batch) \o queue = (x \o taken) \o Tail(queue)
      BY <1>0, <2>0, ShiftHeadBehind
    <3> HIDE DEF taken
    <3> QED
      BY <1>0, <3>1, <3>2
  <2>1. CASE Receive
    <3>0. /\ queue # <<>> /\ queue' = Tail(queue)
          /\ worker = "select" /\ inflight = <<>>
          /\ UNCHANGED <<accepted, sent>>
      BY <2>1 DEF Receive, workerFrame, writerVars, WorkerInv
    <3>1. sent \o <<>> = sent /\ (sent \o taken) \o <<>> = sent \o taken
      BY <1>0, <2>0, <3>0, ConcatEmptySeq, ConcatProperties
    <3>2. CASE inflight' = taken /\ batch' = <<>>
      BY <2>0, <3>0, <3>1, <3>2
    <3>3. CASE batch' = taken /\ inflight' = inflight
      BY <2>0, <3>0, <3>1, <3>3
    <3> QED
      BY <2>1, <3>2, <3>3 DEF Receive, StartRequest
  <2>2. CASE Tick \/ Drained
    <3>1. /\ inflight = <<>> /\ inflight' = batch /\ batch' = <<>>
          /\ UNCHANGED <<queue, accepted, sent>>
      BY <2>2 DEF Tick, Drained, StartRequest, WorkerInv, workerFrame,
                  writerVars
    <3>2. (sent \o batch) \o <<>> = (sent \o <<>>) \o batch
      BY <1>0, ConcatEmptySeq, ConcatProperties
    <3> QED
      BY <3>1, <3>2
  <2>3. CASE Drain
    <3>1. /\ queue # <<>> /\ queue' = Tail(queue) /\ batch' = taken
          /\ UNCHANGED <<accepted, sent, inflight>>
      BY <2>3 DEF Drain, workerFrame, writerVars
    <3> QED
      BY <2>0, <3>1
  <2>4. CASE DrainedNothing
    BY <2>4 DEF DrainedNothing, workerFrame, writerVars
  <2>5. CASE DrainedTooLate
    <3>1. /\ inflight = <<>> /\ batch' = <<>> /\ sent' = sent \o batch
          /\ UNCHANGED <<queue, accepted, inflight>>
      BY <2>5 DEF DrainedTooLate, Sent, WorkerInv, workerFrame, writerVars
    <3>2. ((sent \o batch) \o <<>>) \o <<>> = (sent \o <<>>) \o batch
      BY <1>0, ConcatEmptySeq, ConcatProperties
    <3> QED
      BY <3>1, <3>2
  <2>6. ASSUME NEW ok \in BOOLEAN, RequestEnds(ok) PROVE FifoAccounting'
    <3>1. /\ inflight' = <<>> /\ sent' = sent \o inflight
          /\ UNCHANGED <<queue, accepted, batch>>
      BY <2>6 DEF RequestEnds, Sent, workerFrame, writerVars
    <3>2. (sent \o inflight) \o <<>> = sent \o inflight
      BY <1>0, ConcatEmptySeq
    <3> QED
      BY <3>1, <3>2
  <2> QED
    BY <1>3, <2>1, <2>2, <2>3, <2>4, <2>5, <2>6
    DEF Run, RequestAccepted, RequestFails
<1>4. CASE UNCHANGED vars
  BY <1>4 DEF vars
<1> QED
  BY <1>1, <1>2, <1>3, <1>4 DEF Next

\* The worker holds what its state says, and its batch has room at the select.
LEMMA WorkerStep ==
  ASSUME TypeOK, WorkerInv, RoomAtSelect, [Next]_vars
  PROVE  WorkerInv' /\ RoomAtSelect'
<1> USE ExporterAssumption DEF TypeOK, WorkerInv, RoomAtSelect
<1>1. ASSUME NEW d \in Docs, Log(d) PROVE WorkerInv' /\ RoomAtSelect'
  BY <1>1 DEF Log, Write, EncodeFails, Enqueue, DropFull
<1>2. ASSUME NEW c \in Calls, Call(c) PROVE WorkerInv' /\ RoomAtSelect'
  <2>1. CASE HandOver(c)
    BY <2>1 DEF HandOver
  <2>2. CASE ~HandOver(c)
    <3>1. UNCHANGED <<worker, serving, batch, inflight>>
      BY <1>2, <2>2 DEF Call, Sync, ShutdownFirst, ShutdownAgain,
         ShutdownReleased, Expire, GiveUp, TakeResult, callFrame
    <3> QED
      BY <3>1
  <2> QED
    BY <2>1, <2>2
<1>3. CASE Run
  <2> USE DEF workerFrame, StartRequest, AfterCommand
  <2>0. Len(<<>>) = 0
    BY EmptySeq
  <2>1. CASE Receive
    <3> DEFINE taken == Append(batch, Head(queue))
    <3>1. taken # <<>> /\ Len(taken) \in Nat
      BY <2>1, HeadTailProperties, AppendProperties DEF Receive
    <3>2. CASE Len(taken) >= BatchSize
      BY <2>1, <3>1, <3>2 DEF Receive
    <3>3. CASE ~(Len(taken) >= BatchSize)
      <4>1. batch' = taken /\ UNCHANGED <<inflight, worker, serving>>
        BY <2>1, <3>3 DEF Receive
      <4> QED
        BY <2>1, <3>1, <3>3, <4>1 DEF Receive
    <3> QED
      BY <3>2, <3>3
  <2>2. CASE Tick \/ Drained
    BY <2>2 DEF Tick, Drained
  <2>3. CASE Drain
    BY <2>3 DEF Drain
  <2>4. CASE DrainedNothing
    BY <2>0, <2>4 DEF DrainedNothing
  <2>5. CASE DrainedTooLate
    BY <2>0, <2>5 DEF DrainedTooLate, Sent
  <2>6. ASSUME NEW ok \in BOOLEAN, RequestEnds(ok)
        PROVE  WorkerInv' /\ RoomAtSelect'
    BY <2>0, <2>6 DEF RequestEnds, Sent
  <2> QED
    BY <1>3, <2>1, <2>2, <2>3, <2>4, <2>5, <2>6
    DEF Run, RequestAccepted, RequestFails
<1>4. CASE UNCHANGED vars
  BY <1>4 DEF vars
<1> QED
  BY <1>1, <1>2, <1>3, <1>4 DEF Next

\* Nothing is missing between the accepted and the sent documents.
LEMMA Lengths ==
  ASSUME TypeOK, FifoAccounting
  PROVE  /\ Len(sent) \in Nat /\ Len(inflight) \in Nat
         /\ Len(batch) \in Nat /\ Len(queue) \in Nat
         /\ Len(accepted) = Len(sent) + Len(inflight) + Len(batch) + Len(queue)
         /\ Len(sent \o inflight) = Len(sent) + Len(inflight)
         /\ Len(sent \o batch) = Len(sent) + Len(batch)
<1>1. /\ sent \in Seq(Docs) /\ inflight \in Seq(Docs)
      /\ batch \in Seq(Docs) /\ queue \in Seq(Docs)
  BY DEF TypeOK
<1>2. sent \o inflight \in Seq(Docs) /\ (sent \o inflight) \o batch \in Seq(Docs)
  BY <1>1, ConcatProperties
<1>3. /\ Len(sent \o inflight) = Len(sent) + Len(inflight)
      /\ Len(sent \o batch) = Len(sent) + Len(batch)
      /\ Len((sent \o inflight) \o batch) = Len(sent \o inflight) + Len(batch)
      /\ Len(((sent \o inflight) \o batch) \o queue)
           = Len((sent \o inflight) \o batch) + Len(queue)
  BY <1>1, <1>2, ConcatProperties
<1>4. /\ Len(sent) \in Nat /\ Len(inflight) \in Nat
      /\ Len(batch) \in Nat /\ Len(queue) \in Nat
  BY <1>1, LenProperties
<1> QED
  BY <1>3, <1>4 DEF FifoAccounting

\* The worker's steps: which answers it may write, and where it goes.
LEMMA RunEffect ==
  ASSUME TypeOK, WorkerInv, Run
  PROVE  /\ UNCHANGED <<wpc, accepted, pc, ret, mark, stopped, once, expired>>
         /\ \/ serving' \in {serving, NoCall} /\ UNCHANGED result
            \/ /\ serving' = NoCall
               /\ \A c \in Calls : c # serving => result'[c] = result[c]
<1> USE DEF workerFrame, writerVars, callVars, StartRequest, TypeOK
<1>1. CASE Receive \/ Tick \/ Drain \/ Drained
  BY <1>1 DEF Receive, Tick, Drain, Drained
<1>2. CASE DrainedNothing
  BY <1>2 DEF DrainedNothing
<1>3. CASE DrainedTooLate
  BY <1>3 DEF DrainedTooLate, Sent
<1>4. ASSUME NEW ok \in BOOLEAN, RequestEnds(ok)
      PROVE  /\ UNCHANGED <<wpc, accepted, pc, ret, mark, stopped, once, expired>>
             /\ serving' = NoCall
             /\ \A c \in Calls : c # serving => result'[c] = result[c]
  BY <1>4 DEF RequestEnds, Sent
<1> QED
  BY <1>1, <1>2, <1>3, <1>4 DEF Run, RequestAccepted, RequestFails

\* A call is answered once, and by the worker only when it is served.
LEMMA CallStep ==
  ASSUME TypeOK, WorkerInv, CallInv, [Next]_vars
  PROVE  CallInv'
<1> USE ExporterAssumption DEF CallInv
<1>1. ASSUME NEW d \in Docs, Log(d) PROVE CallInv'
  BY <1>1 DEF Log, Write, EncodeFails, Enqueue, DropFull, callVars
<1>2. ASSUME NEW c \in Calls, Call(c) PROVE CallInv'
  <2> USE DEF TypeOK, callFrame, Finish, LeaveOnce, Calls
  <2>1. CASE Sync(c)
    <3>1. c \notin Shutdowns /\ serving # c
      BY <2>1 DEF Sync
    <3>2. CASE stopped
      BY <2>1, <3>1, <3>2 DEF Sync
    <3>3. CASE ~stopped
      BY <2>1, <3>1, <3>3 DEF Sync
    <3> QED
      BY <3>2, <3>3
  <2>2. CASE ShutdownFirst(c)
    BY <2>2 DEF ShutdownFirst
  <2>3. CASE ShutdownAgain(c)
    BY <2>3 DEF ShutdownAgain
  <2>4. CASE ShutdownReleased(c)
    BY <2>4 DEF ShutdownReleased
  <2>5. CASE Expire(c)
    BY <2>5 DEF Expire, callVars
  <2>6. CASE HandOver(c)
    BY <2>6 DEF HandOver, WorkerInv
  <2>7. CASE GiveUp(c)
    BY <2>7 DEF GiveUp
  <2>8. CASE TakeResult(c)
    <3>1. once' # "fresh" <=> once # "fresh"
      BY <2>8 DEF TakeResult
    <3>2. /\ ret' = [ret EXCEPT ![c] = result[c]]
          /\ pc' = [pc EXCEPT ![c] = "returned"]
          /\ UNCHANGED <<stopped, result, serving>>
      BY <2>8 DEF TakeResult
    <3>3. serving # c /\ pc[c] = "awaiting"
      BY <2>8 DEF TakeResult
    <3>4. \A k \in Calls \ {c} :
            pc'[k] = pc[k] /\ ret'[k] = ret[k]
      BY <3>2
    <3>5. pc'[c] = "returned"
      BY <3>2
    <3> QED
      BY <3>1, <3>2, <3>3, <3>4, <3>5
  <2> QED
    BY <1>2, <2>1, <2>2, <2>3, <2>4, <2>5, <2>6, <2>7, <2>8 DEF Call
<1>3. CASE Run
  BY <1>3, RunEffect
<1>4. CASE UNCHANGED vars
  BY <1>4 DEF vars
<1> QED
  BY <1>1, <1>2, <1>3, <1>4 DEF Next

\* What a call found accepted is sent before it is answered.
LEMMA MarkStep ==
  ASSUME TypeOK, FifoAccounting, WorkerInv, CallInv, MarkInv, [Next]_vars
  PROVE  MarkInv'
<1>0. /\ Len(sent) \in Nat /\ Len(inflight) \in Nat
      /\ Len(batch) \in Nat /\ Len(queue) \in Nat
      /\ Len(accepted) = Len(sent) + Len(inflight) + Len(batch) + Len(queue)
      /\ Len(sent \o inflight) = Len(sent) + Len(inflight)
      /\ Len(sent \o batch) = Len(sent) + Len(batch)
      /\ Len(<<>>) = 0
  BY Lengths, EmptySeq
<1>1. ASSUME NEW d \in Docs, Log(d) PROVE MarkInv'
  <2>1. CASE Enqueue(d)
    <3>1. Len(accepted') = Len(accepted) + 1
      BY <1>1, <2>1, AppendProperties DEF Enqueue, TypeOK
    <3> QED
      BY <1>0, <2>1, <3>1 DEF Enqueue, callVars, MarkInv, TypeOK
  <2>2. CASE Write(d) \/ EncodeFails(d) \/ DropFull(d)
    BY <2>2 DEF Write, EncodeFails, DropFull, callVars, MarkInv
  <2> QED
    BY <1>1, <2>1, <2>2 DEF Log
<1>2. ASSUME NEW c \in Calls, Call(c) PROVE MarkInv'
  <2>1. CASE Sync(c) \/ ShutdownFirst(c) \/ ShutdownAgain(c)
    <3>1. /\ mark' = [mark EXCEPT ![c] = Len(accepted)]
          /\ UNCHANGED <<accepted, sent, inflight, worker, serving, result>>
          /\ pc[c] = "idle"
      BY <2>1 DEF Sync, ShutdownFirst, ShutdownAgain, callFrame
    <3>2. result[c] = "none" /\ serving # c
      BY <3>1 DEF CallInv
    <3> QED
      BY <1>0, <3>1, <3>2 DEF MarkInv, TypeOK
  <2>2. CASE HandOver(c)
    BY <2>2 DEF HandOver, MarkInv
  <2>3. CASE \/ ShutdownReleased(c) \/ Expire(c) \/ GiveUp(c) \/ TakeResult(c)
    BY <2>3 DEF ShutdownReleased, Expire, GiveUp, TakeResult, callFrame,
                callVars, MarkInv
  <2> QED
    BY <1>2, <2>1, <2>2, <2>3 DEF Call
<1>3. CASE Run
  <2> USE DEF workerFrame, writerVars, callVars, StartRequest
  <2>1. CASE Receive
    <3>1. worker' = "sending" => serving' = NoCall
      BY <2>1 DEF Receive
    <3>2. UNCHANGED <<mark, accepted, result, sent>>
      BY <2>1 DEF Receive
    <3> QED
      BY <3>1, <3>2, ExporterAssumption DEF MarkInv
  <2>2. CASE Tick
    BY <2>2, ExporterAssumption DEF Tick, MarkInv
  <2>3. CASE Drain
    BY <2>3 DEF Drain, MarkInv
  <2>4. CASE DrainedNothing
    <3>1. Len(accepted) = Len(sent)
      BY <1>0, <2>4 DEF DrainedNothing, WorkerInv
    <3> QED
      BY <2>4, <3>1, ExporterAssumption
      DEF DrainedNothing, AfterCommand, MarkInv
  <2>5. CASE Drained
    <3>1. Len(accepted) = Len(sent) + Len(batch)
      BY <1>0, <2>5 DEF Drained, WorkerInv
    <3> QED
      BY <2>5, <3>1 DEF Drained, MarkInv, WorkerInv
  <2>6. CASE DrainedTooLate
    <3>1. Len(accepted) = Len(sent')
      BY <1>0, <2>6 DEF DrainedTooLate, Sent, WorkerInv
    <3>2. /\ worker' # "sending" /\ UNCHANGED <<mark, accepted>>
      BY <2>6 DEF DrainedTooLate, Sent, AfterCommand
    <3> QED
      BY <3>1, <3>2 DEF MarkInv
  <2>7. ASSUME NEW ok \in BOOLEAN, RequestEnds(ok) PROVE MarkInv'
    <3>1. /\ Len(sent') = Len(sent) + Len(inflight)
          /\ UNCHANGED <<mark, accepted>>
          /\ worker = "sending" /\ worker' # "sending"
      BY <1>0, <2>7 DEF RequestEnds, Sent, AfterCommand
    <3>2. \A c \in Calls : c # serving => result'[c] = result[c]
      BY <2>7 DEF RequestEnds, Sent
    <3>3. \A c \in Calls : result'[c] # "none" => mark[c] <= Len(sent')
      BY <1>0, <3>1, <3>2 DEF MarkInv, TypeOK
    <3> QED
      BY <3>1, <3>3 DEF MarkInv
  <2> QED
    BY <1>3, <2>1, <2>2, <2>3, <2>4, <2>5, <2>6, <2>7
    DEF Run, RequestAccepted, RequestFails
<1>4. CASE UNCHANGED vars
  BY <1>4 DEF vars, MarkInv
<1> QED
  BY <1>1, <1>2, <1>3, <1>4 DEF Next

\* The worker stops for a Shutdown, with empty hands.
LEMMA StopStep ==
  ASSUME TypeOK, WorkerInv, CallInv, StopInv, [Next]_vars
  PROVE  StopInv'
<1> USE ExporterAssumption DEF StopInv
<1>1. ASSUME NEW d \in Docs, Log(d) PROVE StopInv'
  BY <1>1 DEF Log, Write, EncodeFails, Enqueue, DropFull
<1>2. ASSUME NEW c \in Calls, Call(c) PROVE StopInv'
  <2>1. UNCHANGED <<batch, result>> /\ (worker' = "done" => worker = "done")
    BY <1>2 DEF Call, Sync, ShutdownFirst, ShutdownAgain, ShutdownReleased,
                Expire, HandOver, GiveUp, TakeResult, callFrame
  <2> QED
    BY <2>1
<1>3. CASE Run
  <2> USE DEF StartRequest, AfterCommand
  <2>1. CASE Receive \/ Tick \/ Drain \/ Drained
    BY <2>1 DEF Receive, Tick, Drain, Drained
  <2>2. CASE DrainedNothing
    BY <2>2 DEF DrainedNothing, TypeOK, Calls
  <2>3. CASE DrainedTooLate
    <3>1. batch' = <<>> /\ (worker' = "done" => serving \in Shutdowns)
      BY <2>3 DEF DrainedTooLate, Sent
    <3>2. \A c \in Calls : c = serving => result'[c] = "send"
      BY <2>3 DEF DrainedTooLate, Sent
    <3> QED
      BY <3>1, <3>2 DEF Calls
  <2>4. ASSUME NEW ok \in BOOLEAN, RequestEnds(ok) PROVE StopInv'
    <3>1. batch' = <<>> /\ (worker' = "done" => serving \in Shutdowns)
      BY <2>4 DEF RequestEnds, Sent, WorkerInv
    <3>2. \A c \in Calls : c = serving => result'[c] \in {"nil", "send"}
      BY <2>4 DEF RequestEnds, Sent
    <3> QED
      BY <3>1, <3>2 DEF Calls
  <2> QED
    BY <1>3, <2>1, <2>2, <2>3, <2>4 DEF Run, RequestAccepted, RequestFails
<1>4. CASE UNCHANGED vars
  BY <1>4 DEF vars
<1> QED
  BY <1>1, <1>2, <1>3, <1>4 DEF Next

\* The conjuncts at first,
LEMMA InvInit == Init => IndInv
<1>1. ASSUME Init PROVE FifoAccounting
  <2>1. <<>> = ((<<>> \o <<>>) \o <<>>) \o <<>>
    BY EmptySeq, ConcatEmptySeq
  <2> QED
    BY <1>1, <2>1 DEF Init, FifoAccounting
<1>2. ASSUME Init
      PROVE  WorkerInv /\ RoomAtSelect /\ CallInv /\ MarkInv /\ StopInv
  BY <1>2, EmptySeq, ExporterAssumption
  DEF Init, WorkerInv, RoomAtSelect, CallInv, MarkInv, StopInv
<1> QED
  BY <1>1, <1>2, TypeInit DEF IndInv

\* through every step,
LEMMA InvStep == IndInv /\ [Next]_vars => IndInv'
BY TypeStep, FifoStep, WorkerStep, CallStep, MarkStep, StopStep DEF IndInv

\* and so in every run.
LEMMA Invariance == Spec => []IndInv
BY InvInit, InvStep, PTL DEF Spec

-----------------------------------------------------------------------------
(* The theorems. *)

\* No document is lost, repeated or overtaken between the channel and the
\* end of its bulk request.
THEOREM FifoDelivery == Spec => []FifoAccounting
<1>1. IndInv => FifoAccounting
  BY DEF IndInv
<1> QED
  BY <1>1, Invariance, PTL

\* A nil from the worker means that everything accepted before the call was
\* sent.
THEOREM NilIsTruthful == Spec => []NilMeansSent
<1>1. IndInv => NilMeansSent
  BY DEF IndInv, CallInv, MarkInv, NilMeansSent
<1> QED
  BY <1>1, Invariance, PTL

\* The worker stops for a Shutdown only, with everything accepted before that
\* call sent, whatever became of the caller.
THEOREM StopIsOrderly == Spec => []StopsDrained
<1>1. IndInv => StopsDrained
  BY DEF IndInv, StopInv, WorkerInv, MarkInv, StopsDrained, Calls
<1> QED
  BY <1>1, Invariance, PTL

\* A batch never waits full at the worker's select.
THEOREM BatchHasRoom == Spec => []RoomAtSelect
<1>1. IndInv => RoomAtSelect
  BY DEF IndInv
<1> QED
  BY <1>1, Invariance, PTL

-----------------------------------------------------------------------------
(* The exporter implements BulkSink. *)

\* A concatenation splits where it was joined.
LEMMA SplitConcat ==
  ASSUME NEW S, NEW s \in Seq(S), NEW t \in Seq(S)
  PROVE  /\ SubSeq(s \o t, 1, Len(s)) = s
         /\ SubSeq(s \o t, Len(s) + 1, Len(s \o t)) = t
<1> DEFINE u == s \o t
           a == SubSeq(u, 1, Len(s))
           b == SubSeq(u, Len(s) + 1, Len(u))
<1>1. /\ u \in Seq(S) /\ Len(u) = Len(s) + Len(t)
      /\ \A i \in 1..Len(s) + Len(t) :
           u[i] = IF i <= Len(s) THEN s[i] ELSE t[i - Len(s)]
  BY ConcatProperties
<1>2. Len(s) \in Nat /\ Len(t) \in Nat
  BY LenProperties
<1>3. \A i \in 1..Len(u) : u[i] \in S
  BY <1>1, ElementOfSeq
<1> HIDE DEF u
<1>4. /\ a \in Seq(S) /\ Len(a) = Len(s)
      /\ \A i \in 1..Len(s) : a[i] = u[i]
  BY <1>1, <1>2, <1>3, SubSeqProperties
<1>5. /\ b \in Seq(S) /\ Len(b) = Len(t)
      /\ \A i \in 1..Len(t) : b[i] = u[i + Len(s)]
  BY <1>1, <1>2, <1>3, SubSeqProperties
<1> HIDE DEF a, b
<1>6. a = s
  <2>1. \A i \in 1..Len(a) : a[i] = s[i]
    BY <1>1, <1>2, <1>4
  <2> QED
    BY <1>4, <2>1, SeqEqual
<1>7. b = t
  <2>1. ASSUME NEW i \in 1..Len(t) PROVE b[i] = t[i]
    <3> DEFINE j == i + Len(s)
    <3>1. /\ j \in 1..Len(s) + Len(t) /\ ~(j <= Len(s)) /\ j - Len(s) = i
      BY <1>2, <2>1
    <3>2. b[i] = u[j]
      BY <1>5, <2>1
    <3> HIDE DEF j
    <3>3. u[j] = t[j - Len(s)]
      BY <1>1, <3>1
    <3> QED
      BY <3>1, <3>2, <3>3
  <2> QED
    BY <1>5, <2>1, SeqEqual
<1> QED
  BY <1>6, <1>7 DEF a, b, u

\* What is accepted is what was sent and what waits.
LEMMA WaitingLength ==
  ASSUME TypeOK, FifoAccounting
  PROVE  /\ Waiting \in Seq(Docs)
         /\ Len(accepted) = Len(sent) + Len(Waiting)
<1>1. /\ inflight \in Seq(Docs) /\ batch \in Seq(Docs) /\ queue \in Seq(Docs)
      /\ inflight \o batch \in Seq(Docs)
  BY ConcatProperties DEF TypeOK
<1>2. /\ Waiting \in Seq(Docs)
      /\ Len(Waiting) = Len(inflight \o batch) + Len(queue)
      /\ Len(inflight \o batch) = Len(inflight) + Len(batch)
  BY <1>1, ConcatProperties DEF Waiting
<1> QED
  BY <1>2, Lengths

\* The worker's own moves keep the documents waiting in the same order.
LEMMA WaitingKept ==
  ASSUME TypeOK, WorkerInv, Receive \/ Tick \/ Drain \/ Drained
  PROVE  Waiting' = Waiting /\ UNCHANGED <<sent, result>>
<1>0. /\ queue \in Seq(Docs) /\ batch \in Seq(Docs) /\ inflight \in Seq(Docs)
  BY DEF TypeOK
<1>a. \A s \in Seq(Docs) : s \o <<>> = s /\ <<>> \o s = s
  BY ConcatEmptySeq
<1>1. UNCHANGED <<sent, result>>
  BY DEF Receive, Tick, Drain, Drained
<1>2. inflight = <<>>
  BY DEF Receive, Tick, Drain, Drained, WorkerInv
<1>3. CASE Receive \/ Drain
  <2> DEFINE taken == Append(batch, Head(queue))
  <2>0. queue # <<>>
    BY <1>3 DEF Receive, Drain
  <2>1. queue' = Tail(queue)
    BY <1>3 DEF Receive, Drain
  <2>2. /\ taken \in Seq(Docs)
        /\ (inflight \o batch) \o queue = (inflight \o taken) \o Tail(queue)
    <3>1. taken \in Seq(Docs)
      BY <1>0, <2>0, ShiftHead
    <3>2. (inflight \o batch) \o queue = (inflight \o taken) \o Tail(queue)
      BY <1>0, <2>0, ShiftHeadBehind, Z3
    <3> QED
      BY <3>1, <3>2
  <2>3. \/ inflight' = taken /\ batch' = <<>>
        \/ inflight' = inflight /\ batch' = taken
    BY <1>3 DEF Receive, Drain, StartRequest
  <2> HIDE DEF taken
  <2>4. taken \o <<>> = taken /\ <<>> \o taken = taken
    BY <1>a, <2>2
  <2> QED
    BY <1>1, <1>2, <2>1, <2>2, <2>3, <2>4 DEF Waiting, taken
<1>4. CASE Tick \/ Drained
  <2>1. inflight' = batch /\ batch' = <<>> /\ queue' = queue
    BY <1>4 DEF Tick, Drained, StartRequest
  <2> QED
    BY <1>0, <1>a, <1>1, <1>2, <2>1 DEF Waiting
<1> QED
  BY <1>3, <1>4

\* A finished request takes its documents off the front of those waiting.
LEMMA RequestAttempts ==
  ASSUME TypeOK, NEW ds \in Seq(Docs), NEW rest \in Seq(Docs), ds # <<>>,
         Waiting = ds \o rest, Waiting' = rest, sent' = sent \o ds,
         UNCHANGED <<pc, mark, ret, stopped, Late>>
  PROVE  Sink!Attempt
<1>1. /\ SubSeq(Waiting, 1, Len(ds)) = ds
      /\ SubSeq(Waiting, Len(ds) + 1, Len(Waiting)) = rest
  BY SplitConcat
<1>2. /\ Len(Waiting) = Len(ds) + Len(rest)
      /\ Len(ds) \in Nat \ {0} /\ Len(rest) \in Nat
  BY ConcatProperties, EmptySeq, LenProperties
<1>3. Len(ds) \in 1..Len(Waiting) /\ Waiting # <<>>
  BY <1>2, EmptySeq
<1>4. \E k \in 1..Len(Waiting) :
        /\ sent' = sent \o SubSeq(Waiting, 1, k)
        /\ Waiting' = SubSeq(Waiting, k + 1, Len(Waiting))
  BY <1>1, <1>3
<1>5. UNCHANGED <<{c \in Calls : pc[c] # "idle"}, Late, mark, ret, stopped>>
  OBVIOUS
<1> QED
  BY <1>3, <1>4, <1>5 DEF Sink!Attempt

\* Every step is one of the sink, or none.
LEMMA SinkStep ==
  ASSUME IndInv, [Next]_vars
  PROVE  [Sink!SinkNext]_(Sink!sinkVars)
<1> USE DEF IndInv
<1>0. Waiting \in Seq(Docs) /\ Len(sent) + Len(Waiting) = Len(accepted)
  BY WaitingLength
<1>1. ASSUME NEW d \in Docs, Log(d) PROVE [Sink!SinkNext]_(Sink!sinkVars)
  <2>0. UNCHANGED <<sent, pc, mark, ret, result, stopped, inflight, batch>>
    BY <1>1 DEF Log, Write, EncodeFails, Enqueue, DropFull, callVars
  <2>1. UNCHANGED <<Late, {c \in Calls : pc[c] # "idle"}>>
    BY <2>0 DEF Late
  <2>2. CASE Enqueue(d)
    <3>1. /\ queue \in Seq(Docs) /\ inflight \o batch \in Seq(Docs)
          /\ <<d>> \in Seq(Docs)
      BY <1>1, ConcatProperties DEF TypeOK
    <3>2. queue' = queue \o <<d>>
      BY <1>1, <2>2, <3>1, AppendIsConcat, Z3 DEF Enqueue
    <3>3. Append(Waiting, d) = Waiting \o <<d>>
      BY <1>0, <1>1, AppendIsConcat, Z3
    <3>4. (inflight \o batch) \o (queue \o <<d>>)
            = ((inflight \o batch) \o queue) \o <<d>>
      BY <3>1, ConcatAssociative
    <3>5. Waiting' = Append(Waiting, d)
      BY <2>0, <3>2, <3>3, <3>4 DEF Waiting
    <3> QED
      BY <1>1, <2>0, <2>1, <3>5 DEF Sink!SinkNext, Sink!Accept
  <2>3. CASE ~Enqueue(d)
    <3>1. queue' = queue
      BY <1>1, <2>3 DEF Log, Write, EncodeFails, DropFull
    <3> QED
      BY <2>0, <2>1, <3>1 DEF Sink!sinkVars, Waiting
  <2> QED
    BY <2>2, <2>3
<1>2. ASSUME NEW c \in Calls, Call(c)
      PROVE  [Sink!SinkNext]_(Sink!sinkVars)
  <2>0. UNCHANGED <<sent, accepted, Waiting, result>>
    BY <1>2, CallsMoveNoDocument
    DEF Waiting, Call, Sync, ShutdownFirst, ShutdownAgain, ShutdownReleased,
        Expire, HandOver, GiveUp, TakeResult
  <2> DEFINE asked == {k \in Calls : pc[k] # "idle"}
  <2> USE DEF callFrame, Finish, TypeOK
  <2>1. CASE Sync(c) \/ ShutdownFirst(c) \/ ShutdownAgain(c)
    <3>1. /\ c \notin asked /\ asked' = asked \cup {c}
          /\ result[c] = "none"
      BY <1>2, <2>1 DEF Sync, ShutdownFirst, ShutdownAgain, CallInv
    <3>2. mark' = [mark EXCEPT ![c] = Len(sent) + Len(Waiting)]
      BY <1>0, <2>1 DEF Sync, ShutdownFirst, ShutdownAgain
    <3>3. Sink!Begin(c)
      BY <2>0, <3>1, <3>2 DEF Sink!Begin
    <3>4. CASE stopped
      <4>0. ~ShutdownFirst(c)
        BY <3>4 DEF ShutdownFirst, CallInv
      <4>1. stopped' = stopped /\ Late' = Late \cup {c}
        <5>1. /\ stopped' = stopped
              /\ \/ pc' = [pc EXCEPT ![c] = "once"] /\ ret' = ret
                 \/ /\ pc' = [pc EXCEPT ![c] = "returned"]
                    /\ ret' = [ret EXCEPT ![c] = "nil"]
          BY <2>1, <3>4, <4>0 DEF Sync, ShutdownAgain, ShutdownFirst, CallInv
        <5>2. pc[c] = "idle"
          BY <2>1 DEF Sync, ShutdownFirst, ShutdownAgain
        <5> QED
          BY <1>2, <2>0, <3>1, <5>1, <5>2 DEF Late
      <4>2. ret' = ret \/ ret' = [ret EXCEPT ![c] = "nil"]
        BY <2>1, <3>4 DEF Sync, ShutdownFirst, ShutdownAgain
      <4> QED
        BY <1>2, <3>3, <3>4, <4>1, <4>2 DEF Sink!SinkNext, Sink!AskLate
    <3>5. CASE ~stopped
      <4>1. ret' = ret /\ Late' = Late /\ stopped' \in BOOLEAN
        <5>1. /\ ret' = ret /\ stopped' \in BOOLEAN
              /\ pc[c] = "idle" /\ pc' = [pc EXCEPT ![c] = "offering"]
          BY <2>1, <3>5 DEF Sync, ShutdownFirst, ShutdownAgain, CallInv
        <5> QED
          BY <1>2, <2>0, <5>1 DEF Late
      <4> QED
        BY <1>2, <3>3, <3>5, <4>1 DEF Sink!SinkNext, Sink!Ask
    <3> QED
      BY <3>4, <3>5
  <2>2. CASE ShutdownReleased(c)
    <3>1. /\ c \in asked /\ ret[c] = "none" /\ c \in Late
          /\ ret' = [ret EXCEPT ![c] = "nil"]
          /\ UNCHANGED <<mark, stopped>>
      BY <1>2, <2>2 DEF ShutdownReleased, CallInv, Late
    <3>2. asked' = asked /\ Late' = Late
      BY <1>2, <2>0, <2>2 DEF ShutdownReleased, CallInv, Late
    <3> QED
      BY <1>2, <2>0, <3>1, <3>2
      DEF Sink!SinkNext, Sink!AnswerNil, Sink!Answer
  <2>3. CASE Expire(c) \/ HandOver(c)
    <3>1. UNCHANGED <<mark, ret, stopped, asked>>
      BY <2>3 DEF Expire, HandOver, callVars
    <3>2. Late' = Late
      BY <2>0, <2>3 DEF Expire, HandOver, callVars, Late
    <3> QED
      BY <2>0, <3>1, <3>2 DEF Sink!sinkVars
  <2>4. CASE GiveUp(c) \/ TakeResult(c)
    <3> DEFINE v == ret'[c]
    <3>1. /\ c \in asked /\ ret[c] = "none" /\ pc[c] # "once"
          /\ ret' = [ret EXCEPT ![c] = v]
          /\ UNCHANGED <<mark, stopped>>
      BY <1>2, <2>4 DEF GiveUp, TakeResult, CallInv
    <3>2. v \in {"send", "ctx"} \/ (v = "nil" /\ result[c] = "nil")
      BY <1>2, <2>4 DEF GiveUp, TakeResult
    <3>3. asked' = asked /\ Late' = Late
      BY <1>2, <2>0, <2>4, <3>1, <3>2 DEF GiveUp, TakeResult, Late
    <3>4. Sink!Answer(c, v)
      BY <2>0, <3>1, <3>3 DEF Sink!Answer
    <3>5. v = "nil" => Sink!AnswerNil(c)
      BY <3>2, <3>4 DEF Sink!AnswerNil, MarkInv
    <3>6. v # "nil" => Sink!AnswerError(c)
      BY <3>2, <3>4 DEF Sink!AnswerError
    <3> QED
      BY <1>2, <3>5, <3>6 DEF Sink!SinkNext
  <2> QED
    BY <1>2, <2>1, <2>2, <2>3, <2>4 DEF Call
<1>3. CASE Run
  <2>1. UNCHANGED <<pc, mark, ret, stopped>>
    BY <1>3, RunEffect
  <2>2. Late' = Late
    BY <1>3, <2>1, RunEffect DEF Late, CallInv
  <2>3. CASE Receive \/ Tick \/ Drain \/ Drained
    <3>1. Waiting' = Waiting /\ sent' = sent
      BY <2>3, WaitingKept
    <3> QED
      BY <2>1, <2>2, <3>1 DEF Sink!sinkVars
  <2>4. CASE DrainedNothing
    BY <2>1, <2>2, <2>4 DEF DrainedNothing, Waiting, Sink!sinkVars
  <2>5. ASSUME NEW ds \in Seq(Docs), NEW rest \in Seq(Docs), ds # <<>>,
               Waiting = ds \o rest, Waiting' = rest, sent' = sent \o ds
        PROVE  [Sink!SinkNext]_(Sink!sinkVars)
    BY <2>1, <2>2, <2>5, RequestAttempts DEF Sink!SinkNext
  <2>6. \A s \in Seq(Docs) : s \o <<>> = s /\ <<>> \o s = s
    BY ConcatEmptySeq
  <2>7. CASE DrainedTooLate
    <3>1. /\ batch # <<>> /\ sent' = sent \o batch
          /\ inflight = <<>> /\ queue = <<>> /\ batch \in Seq(Docs)
          /\ inflight' = <<>> /\ queue' = <<>> /\ batch' = <<>>
      BY <2>7 DEF DrainedTooLate, Sent, WorkerInv, TypeOK
    <3>2. <<>> \in Seq(Docs) /\ Waiting = batch \o <<>> /\ Waiting' = <<>>
      BY <2>6, <3>1, EmptySeq DEF Waiting
    <3> QED
      BY <2>5, <3>1, <3>2
  <2>8. ASSUME NEW ok \in BOOLEAN, RequestEnds(ok)
        PROVE  [Sink!SinkNext]_(Sink!sinkVars)
    <3>1. /\ inflight # <<>> /\ sent' = sent \o inflight
          /\ inflight \in Seq(Docs) /\ queue \in Seq(Docs)
          /\ batch = <<>> /\ inflight' = <<>>
          /\ UNCHANGED <<queue, batch>>
      BY <2>8 DEF RequestEnds, Sent, WorkerInv, TypeOK
    <3>2. Waiting = inflight \o queue /\ Waiting' = queue
      BY <2>6, <3>1, EmptySeq DEF Waiting
    <3> QED
      BY <2>5, <3>1, <3>2
  <2> QED
    BY <1>3, <2>3, <2>4, <2>7, <2>8 DEF Run, RequestAccepted, RequestFails
<1>4. CASE UNCHANGED vars
  BY <1>4 DEF vars, Sink!sinkVars, Waiting, Late
<1> QED
  BY <1>1, <1>2, <1>3, <1>4 DEF Next

\* Writers, callers and worker together behave as a BulkSink: documents are
\* attempted in the order of acceptance, each once, and a flush call that
\* began on an open sink answers nil only with all earlier ones attempted.
THEOREM Implements == Spec => RefinesSink
<1>1. Init => Sink!SinkInit
  <2> SUFFICES ASSUME Init PROVE Sink!SinkInit
    OBVIOUS
  <2>1. Waiting = <<>>
    BY EmptySeq, ConcatEmptySeq DEF Init, Waiting
  <2>2. Late = {} /\ {c \in Calls : pc[c] # "idle"} = {}
    BY DEF Init, Late
  <2> QED
    BY <2>1, <2>2 DEF Init, Sink!SinkInit
<1>2. IndInv /\ [Next]_vars => [Sink!SinkNext]_(Sink!sinkVars)
  BY SinkStep
<1> QED
  BY <1>1, <1>2, Invariance, PTL DEF Spec, RefinesSink, Sink!SinkSpec

-----------------------------------------------------------------------------
(* What became of each document.  A document is accepted once, so its fate  *)
(* is written once, by the one request that carries it.                     *)

OnceInv ==
  /\ \A i \in 1..Len(accepted) : wpc[accepted[i]] = "done"
  /\ \A i, j \in 1..Len(accepted) : accepted[i] = accepted[j] => i = j

\* The fate of a document is known from the end of its request on, and it
\* names a call only when that call was answered with an error.
FateInv ==
  /\ \A d \in Docs : fate[d] # "pending" => wpc[d] = "done"
  /\ \A i \in 1..Len(accepted) : fate[accepted[i]] = "pending" <=> i > Len(sent)
  /\ \A c \in Calls :
       /\ result[c] # "send" => \A d \in Docs : fate[d] # c
       /\ result[c] = "send" => \E d \in Docs : fate[d] = c

\* A step that moves no document leaves its history alone.
OnceFrame == UNCHANGED <<wpc, accepted>>
FateFrame == OnceFrame /\ UNCHANGED <<sent, fate, result>>

\* A writer logs its document once.
LEMMA OnceLog ==
  ASSUME TypeOK, OnceInv, NEW d \in Docs, Log(d)
  PROVE  OnceInv'
<1>1. CASE Write(d) \/ EncodeFails(d) \/ DropFull(d)
  <2>1. /\ accepted' = accepted /\ accepted \in Seq(Docs)
        /\ wpc[d] # "done"
        /\ \A e \in Docs : wpc[e] = "done" => wpc'[e] = "done"
    BY <1>1 DEF Write, EncodeFails, DropFull, callVars, TypeOK
  <2>2. \A i \in 1..Len(accepted) : accepted[i] \in Docs
    BY <2>1, ElementOfSeq
  <2> QED
    BY <2>1, <2>2 DEF OnceInv
<1>2. CASE Enqueue(d)
  <2>1. /\ accepted' = Append(accepted, d) /\ accepted \in Seq(Docs)
        /\ wpc[d] = "encoding" /\ wpc' = [wpc EXCEPT ![d] = "done"]
        /\ wpc \in [Docs -> {"idle", "encoding", "done"}]
    BY <1>2 DEF Enqueue, TypeOK
  <2>2. /\ Len(accepted') = Len(accepted) + 1 /\ Len(accepted) \in Nat
        /\ \A i \in 1..Len(accepted) : accepted'[i] = accepted[i]
        /\ accepted'[Len(accepted) + 1] = d
    BY <2>1, AppendProperties, LenProperties
  <2>3. \A i \in 1..Len(accepted) : accepted[i] \in Docs /\ accepted[i] # d
    BY <2>1, ElementOfSeq DEF OnceInv
  <2>4. \A i \in 1..Len(accepted') :
          \/ i \in 1..Len(accepted) /\ accepted'[i] = accepted[i]
          \/ i = Len(accepted) + 1 /\ accepted'[i] = d
    BY <2>2
  <2>5. \A i \in 1..Len(accepted') : wpc'[accepted'[i]] = "done"
    BY <2>1, <2>3, <2>4 DEF OnceInv
  <2>6. \A i, j \in 1..Len(accepted') : accepted'[i] = accepted'[j] => i = j
    BY <2>3, <2>4 DEF OnceInv
  <2> QED
    BY <2>5, <2>6 DEF OnceInv
<1> QED
  BY <1>1, <1>2 DEF Log

\* A document that is accepted has no fate yet.
LEMMA FateLog ==
  ASSUME TypeOK, FifoAccounting, OnceInv, FateInv, NEW d \in Docs, Log(d)
  PROVE  FateInv'
<1>1. CASE Write(d) \/ EncodeFails(d) \/ DropFull(d)
  <2>1. /\ UNCHANGED <<accepted, sent, fate, result>>
        /\ \A e \in Docs : wpc[e] = "done" => wpc'[e] = "done"
    BY <1>1 DEF Write, EncodeFails, DropFull, callVars, TypeOK
  <2> QED
    BY <2>1 DEF FateInv
<1>2. CASE Enqueue(d)
  <2>1. /\ accepted' = Append(accepted, d) /\ accepted \in Seq(Docs)
        /\ wpc[d] = "encoding" /\ wpc' = [wpc EXCEPT ![d] = "done"]
        /\ wpc \in [Docs -> {"idle", "encoding", "done"}]
        /\ UNCHANGED <<sent, fate, result>>
    BY <1>2 DEF Enqueue, TypeOK
  <2>2. /\ Len(accepted') = Len(accepted) + 1 /\ Len(accepted) \in Nat
        /\ \A i \in 1..Len(accepted) : accepted'[i] = accepted[i]
        /\ accepted'[Len(accepted) + 1] = d
    BY <2>1, AppendProperties, LenProperties
  <2>3. \A i \in 1..Len(accepted') :
          \/ i \in 1..Len(accepted) /\ accepted'[i] = accepted[i]
          \/ i = Len(accepted) + 1 /\ accepted'[i] = d
    BY <2>2
  <2>4. Len(sent) \in Nat /\ Len(sent) <= Len(accepted) /\ fate[d] = "pending"
    BY <2>1, Lengths DEF FateInv
  <2>5. \A e \in Docs : fate'[e] # "pending" => wpc'[e] = "done"
    BY <2>1 DEF FateInv
  <2>6. \A i \in 1..Len(accepted') :
          fate'[accepted'[i]] = "pending" <=> i > Len(sent')
    BY <2>1, <2>2, <2>3, <2>4 DEF FateInv
  <2> QED
    BY <2>1, <2>5, <2>6 DEF FateInv
<1> QED
  BY <1>1, <1>2 DEF Log

\* Where the documents of a request are among the accepted ones.
LEMMA RequestIsNext ==
  ASSUME TypeOK, NEW ds \in Seq(Docs), NEW rest \in Seq(Docs),
         accepted = (sent \o ds) \o rest
  PROVE  /\ Len(sent) \in Nat /\ Len(ds) \in Nat /\ Len(accepted) \in Nat
         /\ Len(sent \o ds) = Len(sent) + Len(ds)
         /\ Len(sent) + Len(ds) <= Len(accepted)
         /\ \A k \in 1..Len(ds) : accepted[Len(sent) + k] = ds[k]
<1>1. sent \in Seq(Docs) /\ sent \o ds \in Seq(Docs)
  BY ConcatProperties DEF TypeOK
<1>2. /\ Len(sent) \in Nat /\ Len(ds) \in Nat /\ Len(rest) \in Nat
      /\ Len(sent \o ds) = Len(sent) + Len(ds)
      /\ Len(accepted) = Len(sent) + Len(ds) + Len(rest)
  BY <1>1, ConcatProperties, LenProperties
<1>3. ASSUME NEW k \in 1..Len(ds) PROVE accepted[Len(sent) + k] = ds[k]
  <2> DEFINE n == Len(sent) + k
  <2>1. /\ n \in 1..Len(sent) + Len(ds) /\ ~(n <= Len(sent)) /\ n - Len(sent) = k
        /\ n \in 1..Len(sent \o ds) + Len(rest) /\ n <= Len(sent \o ds)
    BY <1>2, <1>3
  <2> HIDE DEF n
  <2>2. accepted[n] = (sent \o ds)[n]
    BY <1>1, <2>1, ConcatProperties
  <2>3. (sent \o ds)[n] = ds[n - Len(sent)]
    BY <1>1, <2>1, ConcatProperties
  <2> QED
    BY <2>1, <2>2, <2>3 DEF n
<1> QED
  BY <1>2, <1>3

\* The end of a request gives its documents their fate and nobody else.
LEMMA FateSent ==
  ASSUME TypeOK, OnceInv, FateInv, CallInv,
         NEW ds \in Seq(Docs), NEW rest \in Seq(Docs),
         accepted = (sent \o ds) \o rest, ds # <<>>,
         NEW ok \in BOOLEAN, Sent(ds, ok)
  PROVE  FateInv'
<1> DEFINE Carried == {d \in Docs : \E i \in 1..Len(ds) : ds[i] = d}
           outcome == IF ok THEN "indexed" ELSE serving
<1>1. /\ Len(sent) \in Nat /\ Len(ds) \in Nat /\ Len(accepted) \in Nat
      /\ Len(sent \o ds) = Len(sent) + Len(ds)
      /\ Len(sent) + Len(ds) <= Len(accepted)
      /\ \A k \in 1..Len(ds) : accepted[Len(sent) + k] = ds[k]
  BY RequestIsNext
<1>2. /\ sent' = sent \o ds /\ accepted' = accepted /\ wpc' = wpc
      /\ \A d \in Docs : fate'[d] = IF d \in Carried THEN outcome ELSE fate[d]
      /\ \A c \in Calls : result'[c] =
           IF c = serving THEN IF ok THEN "nil" ELSE "send" ELSE result[c]
  BY DEF Sent, workerFrame, writerVars
<1>3. /\ serving \in Calls \cup {NoCall}
      /\ outcome # "pending" /\ (ok => outcome \notin Calls) /\ (~ok => outcome = serving)
  BY ExporterAssumption DEF TypeOK
<1>4. \A i \in 1..Len(accepted) : accepted[i] \in Docs
  BY ElementOfSeq DEF TypeOK
<1>5. \A i \in 1..Len(ds) :
        /\ Len(sent) + i \in 1..Len(accepted) /\ ds[i] \in Docs
        /\ fate[ds[i]] = "pending" /\ wpc[ds[i]] = "done"
  <2> SUFFICES ASSUME NEW i \in 1..Len(ds)
               PROVE  /\ Len(sent) + i \in 1..Len(accepted) /\ ds[i] \in Docs
                      /\ fate[ds[i]] = "pending" /\ wpc[ds[i]] = "done"
    OBVIOUS
  <2>1. Len(sent) + i \in 1..Len(accepted) /\ Len(sent) + i > Len(sent)
    BY <1>1
  <2>2. accepted[Len(sent) + i] = ds[i]
    BY <1>1
  <2> QED
    BY <2>1, <2>2, <1>4 DEF OnceInv, FateInv
<1>6. \A d \in Docs : d \in Carried => fate[d] = "pending" /\ wpc[d] = "done"
  BY <1>5
<1>7. ASSUME NEW i \in 1..Len(accepted)
      PROVE  accepted[i] \in Carried <=> i > Len(sent) /\ i <= Len(sent) + Len(ds)
  <2>1. ASSUME accepted[i] \in Carried PROVE i > Len(sent) /\ i <= Len(sent) + Len(ds)
    <3>1. PICK k \in 1..Len(ds) : ds[k] = accepted[i]
      BY <2>1
    <3>2. accepted[Len(sent) + k] = accepted[i] /\ Len(sent) + k \in 1..Len(accepted)
      BY <1>1, <1>5, <3>1
    <3>3. Len(sent) + k = i
      BY <1>7, <3>2 DEF OnceInv
    <3> QED
      BY <1>1, <3>1, <3>3
  <2>2. ASSUME i > Len(sent), i <= Len(sent) + Len(ds) PROVE accepted[i] \in Carried
    <3>1. i - Len(sent) \in 1..Len(ds) /\ Len(sent) + (i - Len(sent)) = i
      BY <1>1, <1>7, <2>2
    <3>2. accepted[Len(sent) + (i - Len(sent))] = ds[i - Len(sent)]
      BY <1>1, <3>1
    <3> QED
      BY <3>1, <3>2
  <2> QED
    BY <2>1, <2>2
<1> HIDE DEF Carried, outcome
<1>8. \A d \in Docs : fate'[d] # "pending" => wpc'[d] = "done"
  <2>1. \A d \in Docs : fate[d] # "pending" => wpc[d] = "done"
    BY DEF FateInv
  <2>2. \A d \in Docs : d \notin Carried => fate'[d] = fate[d]
    BY <1>2
  <2>3. \A d \in Docs : d \in Carried => wpc[d] = "done"
    BY <1>6
  <2> QED
    BY <1>2, <2>1, <2>2, <2>3
<1>9. ASSUME NEW i \in 1..Len(accepted)
      PROVE  fate'[accepted[i]] = "pending" <=> i > Len(sent')
  <2>1. fate[accepted[i]] = "pending" <=> i > Len(sent)
    BY <1>9 DEF FateInv
  <2>2. fate'[accepted[i]] = IF accepted[i] \in Carried THEN outcome ELSE fate[accepted[i]]
    BY <1>2, <1>4, <1>9
  <2>3. Len(sent') = Len(sent) + Len(ds)
    BY <1>1, <1>2
  <2>4. accepted[i] \in Carried <=> i > Len(sent) /\ i <= Len(sent) + Len(ds)
    BY <1>7, <1>9
  <2> QED
    BY <1>1, <1>3, <1>9, <2>1, <2>2, <2>3, <2>4
<1>10. ASSUME NEW c \in Calls
       PROVE  /\ result'[c] # "send" => \A d \in Docs : fate'[d] # c
              /\ result'[c] = "send" => \E d \in Docs : fate'[d] = c
  <2>1. c # "pending"
    BY ExporterAssumption
  <2>2. CASE c = serving
    <3>1. result[c] = "none"
      BY <2>2 DEF CallInv
    <3>2. \A d \in Docs : fate[d] # c
      BY <3>1 DEF FateInv
    <3>3. CASE ok
      BY <1>2, <1>3, <2>2, <3>2, <3>3
    <3>4. CASE ~ok
      <4>1. 1 \in 1..Len(ds)
        BY <1>1, EmptySeq
      <4>2. ds[1] \in Docs /\ ds[1] \in Carried
        BY <1>5, <4>1 DEF Carried
      <4>3. fate'[ds[1]] = c /\ result'[c] = "send"
        BY <1>2, <1>3, <2>2, <3>4, <4>2
      <4> QED
        BY <4>2, <4>3
    <3> QED
      BY <3>3, <3>4
  <2>3. CASE c # serving
    <3>1. result'[c] = result[c]
      BY <1>2, <2>3
    <3>2. \A d \in Docs : fate'[d] = c <=> fate[d] = c
      BY <1>2, <1>3, <1>6, <2>1, <2>3
    <3> QED
      BY <3>1, <3>2 DEF FateInv
  <2> QED
    BY <2>2, <2>3
<1> QED
  BY <1>2, <1>8, <1>9, <1>10 DEF FateInv

\* The steps of the worker keep what fates tell.
LEMMA FateRun ==
  ASSUME TypeOK, FifoAccounting, WorkerInv, CallInv, OnceInv, FateInv, Run
  PROVE  OnceInv' /\ FateInv'
<1>0. OnceInv'
  <2>1. UNCHANGED <<wpc, accepted>>
    BY RunEffect
  <2> QED
    BY <2>1 DEF OnceInv
<1>1. CASE Receive \/ Tick \/ Drain \/ Drained
  <2>1. FateFrame
    BY <1>1 DEF Receive, Tick, Drain, Drained, workerFrame, writerVars, FateFrame, OnceFrame
  <2> QED
    BY <1>0, <2>1 DEF FateFrame, OnceFrame, FateInv
<1>2. CASE DrainedNothing
  <2>1. /\ UNCHANGED <<wpc, accepted, sent, fate>>
        /\ result' = [result EXCEPT ![serving] = "nil"]
        /\ serving \in Calls /\ result[serving] = "none"
    BY <1>2 DEF DrainedNothing, workerFrame, writerVars, WorkerInv, CallInv
  <2>2. \A c \in Calls : result'[c] = "send" <=> result[c] = "send"
    BY <2>1 DEF TypeOK
  <2> QED
    BY <1>0, <2>1, <2>2 DEF FateInv
<1>3. CASE DrainedTooLate
  <2>1. /\ accepted = (sent \o batch) \o queue
        /\ batch \in Seq(Docs) /\ queue \in Seq(Docs) /\ batch # <<>>
    BY <1>3, ConcatEmptySeq DEF DrainedTooLate, FifoAccounting, WorkerInv, TypeOK
  <2>2. Sent(batch, FALSE)
    BY <1>3 DEF DrainedTooLate
  <2> QED
    BY <1>0, <2>1, <2>2, FateSent
<1>4. ASSUME NEW ok \in BOOLEAN, RequestEnds(ok) PROVE FateInv'
  <2>1. /\ sent \o inflight \in Seq(Docs)
        /\ inflight \in Seq(Docs) /\ queue \in Seq(Docs) /\ inflight # <<>>
    BY <1>4, ConcatProperties DEF RequestEnds, WorkerInv, TypeOK
  <2>2. accepted = (sent \o inflight) \o queue
    BY <1>4, <2>1, ConcatEmptySeq DEF RequestEnds, FifoAccounting, WorkerInv
  <2>3. Sent(inflight, ok)
    BY <1>4 DEF RequestEnds
  <2> QED
    BY <2>1, <2>2, <2>3, FateSent
<1> QED
  BY <1>0, <1>1, <1>2, <1>3, <1>4 DEF Run, RequestAccepted, RequestFails

\* Writers, callers and worker keep what fates tell,
LEMMA FateStep ==
  ASSUME IndInv, OnceInv, FateInv, [Next]_vars
  PROVE  OnceInv' /\ FateInv'
<1>1. ASSUME NEW d \in Docs, Log(d) PROVE OnceInv' /\ FateInv'
  BY <1>1, OnceLog, FateLog DEF IndInv
<1>2. ASSUME NEW c \in Calls, Call(c) PROVE OnceInv' /\ FateInv'
  <2>1. UNCHANGED <<wpc, accepted, sent, fate>>
    BY <1>2, CallsMoveNoDocument
  <2>2. UNCHANGED result
    BY <1>2 DEF Call, Sync, ShutdownFirst, ShutdownAgain, ShutdownReleased,
                Expire, HandOver, GiveUp, TakeResult
  <2> QED
    BY <2>1, <2>2 DEF OnceInv, FateInv
<1>3. CASE Run
  BY <1>3, FateRun DEF IndInv
<1>4. CASE UNCHANGED vars
  BY <1>4 DEF vars, OnceInv, FateInv
<1> QED
  BY <1>1, <1>2, <1>3, <1>4 DEF Next

\* in every run.
LEMMA FateInvariance == Spec => [](OnceInv /\ FateInv)
<1>1. Init => OnceInv /\ FateInv
  BY ExporterAssumption, EmptySeq DEF Init, OnceInv, FateInv
<1> QED
  BY <1>1, FateStep, Invariance, PTL DEF Spec

\* The worker's nil is true of every document accepted before the call, and
\* its error is about a document the command flushed.
THEOREM AnswersAreHonest == Spec => []HonestAnswer
<1>1. IndInv /\ OnceInv /\ FateInv => HonestAnswer
  <2> SUFFICES ASSUME IndInv, FateInv, NEW c \in Calls, result[c] = "nil",
                      NEW i \in 1..mark[c]
               PROVE  fate[accepted[i]] \notin {"pending", c}
    BY DEF HonestAnswer, FateInv
  <2>1. /\ mark[c] <= Len(sent) /\ mark[c] <= Len(accepted) /\ mark[c] \in Nat
        /\ Len(sent) \in Nat /\ Len(accepted) \in Nat
    BY LenProperties DEF IndInv, MarkInv, TypeOK
  <2>2. i \in 1..Len(accepted) /\ ~(i > Len(sent))
    BY <2>1
  <2>3. accepted[i] \in Docs
    BY <2>2, ElementOfSeq DEF IndInv, TypeOK
  <2> QED
    BY <2>2, <2>3 DEF FateInv
<1> QED
  BY <1>1, Invariance, FateInvariance, PTL
=============================================================================
