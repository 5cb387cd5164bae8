------------------------- MODULE OpenSearchExporter -------------------------
(***************************************************************************)
(* The zap core of pkg/logging/opensearch.go and the goroutine that sends  *)
(* its documents in bulk requests.                                         *)
(*                                                                         *)
(* Application goroutines log through Check and Write: a document goes to  *)
(* the bounded channel `entries' or is dropped, the writer never waits.    *)
(* One worker goroutine (run) collects documents into a batch and posts    *)
(* the batch when it is full, on a tick of the flush interval, or when a   *)
(* Sync or Shutdown call hands it a command over an unbuffered channel.    *)
(* Each of these steps is an action, and they interleave freely.           *)
(*                                                                         *)
(* The bulk endpoint is outside the code: it answers a request in its own  *)
(* time, with success or with an error, or not at all, and a request whose *)
(* context expires ends with an error.                                     *)
(***************************************************************************)
EXTENDS Integers, Sequences, FiniteSets

CONSTANTS
  Docs,        \* log entries above the level, each logged once
  Syncs,       \* calls of Sync
  Shutdowns,   \* calls of Shutdown
  Deadlined,   \* the Shutdown calls whose context can expire
  QueueSize,   \* capacity of the channel of documents
  BatchSize,   \* documents that make a batch full
  NoCall       \* the worker's own reason to flush: a tick or a full batch

Calls == Syncs \cup Shutdowns

ASSUME ExporterAssumption ==
  /\ QueueSize \in Nat \ {0}
  /\ BatchSize \in Nat \ {0}
  /\ Syncs \cap Shutdowns = {}
  /\ Deadlined \subseteq Shutdowns
  /\ NoCall \notin Calls
  /\ "pending" \notin Calls \cup {NoCall}
  /\ "indexed" \notin Calls \cup {NoCall}

VARIABLES
  wpc,        \* where the goroutine that logs a document is
  queue,      \* channel entries
  batch,      \* documents the worker has taken
  inflight,   \* documents of the request under way
  worker,     \* where the worker goroutine is
  serving,    \* the call whose command the worker serves, or NoCall
  stopped,    \* the atomic flag
  once,       \* stopOnce
  pc,         \* where a call is
  expired,    \* the calls whose context is done
  result,     \* the worker's answer to a call's command
  ret,        \* what a call returned
  accepted,   \* history: documents in the order they entered the channel
  sent,       \* history: documents of the finished requests, in order
  fate,       \* history: what became of a document
  mark        \* history: how many documents were accepted when a call began

writerVars == <<wpc, accepted>>
callVars   == <<pc, ret, mark, stopped, once>>
vars == <<wpc, queue, batch, inflight, worker, serving, stopped, once, pc,
          expired, result, ret, accepted, sent, fate, mark>>

Verdicts == {"nil", "send", "ctx"}

TypeOK ==
  /\ wpc \in [Docs -> {"idle", "encoding", "done"}]
  /\ queue \in Seq(Docs) /\ Len(queue) <= QueueSize
  /\ batch \in Seq(Docs)
  /\ inflight \in Seq(Docs)
  /\ worker \in {"select", "draining", "sending", "done"}
  /\ serving \in Calls \cup {NoCall}
  /\ stopped \in BOOLEAN
  /\ once \in {"fresh", "running", "done"}
  /\ pc \in [Calls -> {"idle", "once", "offering", "awaiting", "returned"}]
  /\ expired \subseteq Calls
  /\ result \in [Calls -> {"none", "nil", "send"}]
  /\ ret \in [Calls -> {"none"} \cup Verdicts]
  /\ accepted \in Seq(Docs)
  /\ sent \in Seq(Docs)
  /\ fate \in [Docs -> {"pending", "indexed", NoCall} \cup Calls]
  /\ mark \in [Calls -> Nat]

Init ==
  /\ wpc = [d \in Docs |-> "idle"]
  /\ queue = <<>> /\ batch = <<>> /\ inflight = <<>>
  /\ worker = "select" /\ serving = NoCall
  /\ stopped = FALSE /\ once = "fresh"
  /\ pc = [c \in Calls |-> "idle"]
  /\ expired = {}
  /\ result = [c \in Calls |-> "none"]
  /\ ret = [c \in Calls |-> "none"]
  /\ accepted = <<>> /\ sent = <<>>
  /\ fate = [d \in Docs |-> "pending"]
  /\ mark = [c \in Calls |-> 0]

-----------------------------------------------------------------------------
(* Logging one entry. *)

\* Check and the start of Write both look at the flag before the encoder
\* runs.  The flag is never cleared, so the later look decides.
Write(d) ==
  /\ wpc[d] = "idle"
  /\ wpc' = [wpc EXCEPT ![d] = IF stopped THEN "done" ELSE "encoding"]
  /\ UNCHANGED <<queue, batch, inflight, worker, serving, callVars, expired,
                 result, accepted, sent, fate>>

\* The encoder fails and Write returns its error.
EncodeFails(d) ==
  /\ wpc[d] = "encoding"
  /\ wpc' = [wpc EXCEPT ![d] = "done"]
  /\ UNCHANGED <<queue, batch, inflight, worker, serving, callVars, expired,
                 result, accepted, sent, fate>>

\* Mutant of Enqueue: the channel has no bound.
EnqueueUnbounded(d) ==
  /\ wpc[d] = "encoding"
  /\ queue' = Append(queue, d)
  /\ accepted' = Append(accepted, d)
  /\ wpc' = [wpc EXCEPT ![d] = "done"]
  /\ UNCHANGED <<batch, inflight, worker, serving, callVars, expired,
                 result, sent, fate>>

\* The select of Write: into the channel if it has room, else the default.
Enqueue(d) ==
  /\ wpc[d] = "encoding"
  /\ Len(queue) < QueueSize
  /\ queue' = Append(queue, d)
  /\ accepted' = Append(accepted, d)
  /\ wpc' = [wpc EXCEPT ![d] = "done"]
  /\ UNCHANGED <<batch, inflight, worker, serving, callVars, expired,
                 result, sent, fate>>

DropFull(d) ==
  /\ wpc[d] = "encoding"
  /\ Len(queue) >= QueueSize
  /\ wpc' = [wpc EXCEPT ![d] = "done"]
  /\ UNCHANGED <<queue, batch, inflight, worker, serving, callVars, expired,
                 result, accepted, sent, fate>>

-----------------------------------------------------------------------------
(* The calls Sync and Shutdown, and the command they hand to the worker. *)

callFrame == <<wpc, queue, batch, inflight, worker, serving, accepted, sent,
               fate>>

Finish(c, verdict) ==
  /\ pc' = [pc EXCEPT ![c] = "returned"]
  /\ ret' = [ret EXCEPT ![c] = verdict]

\* Sync on a stopped exporter returns nil at once; otherwise it offers a
\* command under a context of its own, with the request timeout.
Sync(c) ==
  /\ c \in Syncs
  /\ pc[c] = "idle"
  /\ mark' = [mark EXCEPT ![c] = Len(accepted)]
  /\ IF stopped THEN Finish(c, "nil")
                ELSE pc' = [pc EXCEPT ![c] = "offering"] /\ UNCHANGED ret
  /\ UNCHANGED <<callFrame, stopped, once, expired, result>>

\* The first Shutdown enters stopOnce, sets the flag and offers its command.
ShutdownFirst(c) ==
  /\ c \in Shutdowns
  /\ pc[c] = "idle"
  /\ once = "fresh"
  /\ once' = "running"
  /\ stopped' = TRUE
  /\ pc' = [pc EXCEPT ![c] = "offering"]
  /\ mark' = [mark EXCEPT ![c] = Len(accepted)]
  /\ UNCHANGED <<callFrame, ret, expired, result>>

\* A later Shutdown reaches stopOnce and waits there, whatever its context.
ShutdownAgain(c) ==
  /\ c \in Shutdowns
  /\ pc[c] = "idle"
  /\ once # "fresh"
  /\ pc' = [pc EXCEPT ![c] = "once"]
  /\ mark' = [mark EXCEPT ![c] = Len(accepted)]
  /\ UNCHANGED <<callFrame, ret, stopped, once, expired, result>>

\* The once is done: the later Shutdown returns its nil shutdownErr.
ShutdownReleased(c) ==
  /\ pc[c] = "once"
  /\ once = "done"
  /\ Finish(c, "nil")
  /\ UNCHANGED <<callFrame, mark, stopped, once, expired, result>>

\* A context expires: Sync's while the call runs, a caller's at any time.
Expire(c) ==
  /\ \/ c \in Syncs /\ pc[c] \in {"offering", "awaiting"}
     \/ c \in Deadlined
  /\ c \notin expired
  /\ expired' = expired \cup {c}
  /\ UNCHANGED <<callFrame, callVars, result>>

LeaveOnce(c) == once' = IF c \in Shutdowns THEN "done" ELSE once

\* command's first select: the worker is at its select too and takes it.
HandOver(c) ==
  /\ pc[c] = "offering"
  /\ worker = "select"
  /\ pc' = [pc EXCEPT ![c] = "awaiting"]
  /\ worker' = "draining"
  /\ serving' = c
  /\ UNCHANGED <<wpc, queue, batch, inflight, stopped, once, expired, result,
                 ret, accepted, sent, fate, mark>>

\* Mutant of GiveUp: the first select of command does not watch the context.
GiveUpAwaitingOnly(c) ==
  /\ pc[c] = "awaiting"
  /\ c \in expired
  /\ Finish(c, "ctx")
  /\ LeaveOnce(c)
  /\ UNCHANGED <<callFrame, mark, stopped, expired, result>>

\* Either select of command finds the context done.
GiveUp(c) ==
  /\ pc[c] \in {"offering", "awaiting"}
  /\ c \in expired
  /\ Finish(c, "ctx")
  /\ LeaveOnce(c)
  /\ UNCHANGED <<callFrame, mark, stopped, expired, result>>

\* command's second select finds the worker's answer.
TakeResult(c) ==
  /\ pc[c] = "awaiting"
  /\ result[c] # "none"
  /\ Finish(c, result[c])
  /\ LeaveOnce(c)
  /\ UNCHANGED <<callFrame, mark, stopped, expired, result>>

-----------------------------------------------------------------------------
(* The worker: run, its closure flush, and send. *)

workerFrame == <<writerVars, callVars, expired>>

\* Mutant of StartRequest: the batch is not emptied before the request.
StartRequestKeepsBatch(k, docs) ==
  /\ inflight' = docs
  /\ batch' = docs
  /\ worker' = "sending"
  /\ serving' = k

\* flush under the context of k: an empty batch needs no request, a batch
\* starts one.  The batch is emptied before the request is made.
StartRequest(k, docs) ==
  /\ inflight' = docs
  /\ batch' = <<>>
  /\ worker' = "sending"
  /\ serving' = k

\* The worker's select takes a document; a full batch is sent at once.
Receive ==
  /\ worker = "select"
  /\ queue # <<>>
  /\ queue' = Tail(queue)
  /\ LET taken == Append(batch, Head(queue))
     IN IF Len(taken) >= BatchSize
        THEN StartRequest(NoCall, taken)
        ELSE batch' = taken /\ UNCHANGED <<inflight, worker, serving>>
  /\ UNCHANGED <<workerFrame, result, sent, fate>>

\* Mutant of Tick: a tick sends a full batch only.
TickFullOnly ==
  /\ worker = "select"
  /\ Len(batch) >= BatchSize
  /\ StartRequest(NoCall, batch)
  /\ UNCHANGED <<workerFrame, queue, result, sent, fate>>

\* The worker's select takes a tick.
Tick ==
  /\ worker = "select"
  /\ batch # <<>>
  /\ StartRequest(NoCall, batch)
  /\ UNCHANGED <<workerFrame, queue, result, sent, fate>>

\* Mutant of Drain: the newest document goes to the front of the batch.
DrainToFront ==
  /\ worker = "draining"
  /\ queue # <<>>
  /\ queue' = Tail(queue)
  /\ batch' = <<Head(queue)>> \o batch
  /\ UNCHANGED <<workerFrame, inflight, worker, serving, result, sent, fate>>

\* The inner loop of a command empties the channel.
Drain ==
  /\ worker = "draining"
  /\ queue # <<>>
  /\ queue' = Tail(queue)
  /\ batch' = Append(batch, Head(queue))
  /\ UNCHANGED <<workerFrame, inflight, worker, serving, result, sent, fate>>

\* Mutant of AfterCommand: every command stops the worker.
AfterCommandStop(c) == IF c = NoCall THEN "select" ELSE "done"

AfterCommand(c) == IF c \in Shutdowns THEN "done" ELSE "select"

\* Mutant of DrainedNothing: the command looks at the batch only.
DrainedNothingEarly ==
  /\ worker = "draining"
  /\ batch = <<>>
  /\ result' = [result EXCEPT ![serving] = "nil"]
  /\ worker' = AfterCommand(serving)
  /\ serving' = NoCall
  /\ UNCHANGED <<workerFrame, queue, batch, inflight, sent, fate>>

\* The channel is empty and so is the batch: answer nil without a request.
DrainedNothing ==
  /\ worker = "draining"
  /\ queue = <<>> /\ batch = <<>>
  /\ result' = [result EXCEPT ![serving] = "nil"]
  /\ worker' = AfterCommand(serving)
  /\ serving' = NoCall
  /\ UNCHANGED <<workerFrame, queue, batch, inflight, sent, fate>>

\* The channel is empty and the batch goes out under the command's context.
Drained ==
  /\ worker = "draining"
  /\ queue = <<>> /\ batch # <<>>
  /\ serving \notin expired
  /\ StartRequest(serving, batch)
  /\ UNCHANGED <<workerFrame, queue, result, sent, fate>>

\* Mutant of Sent: a command's error is discarded like the worker's own.
SentSwallows(ds, ok) ==
  /\ sent' = sent \o ds
  /\ fate' = [d \in Docs |->
                IF \E i \in 1..Len(ds) : ds[i] = d
                THEN IF ok THEN "indexed" ELSE serving
                ELSE fate[d]]
  /\ result' = [c \in Calls |-> IF c = serving THEN "nil" ELSE result[c]]
  /\ worker' = AfterCommand(serving)
  /\ serving' = NoCall
  /\ UNCHANGED <<workerFrame, queue>>

\* send returns for the documents ds: what became of them, and the answer to
\* a command.  The errors of the worker's own flushes are discarded.
Sent(ds, ok) ==
  /\ sent' = sent \o ds
  /\ fate' = [d \in Docs |->
                IF \E i \in 1..Len(ds) : ds[i] = d
                THEN IF ok THEN "indexed" ELSE serving
                ELSE fate[d]]
  /\ result' = [c \in Calls |->
                  IF c = serving THEN IF ok THEN "nil" ELSE "send"
                                 ELSE result[c]]
  /\ worker' = AfterCommand(serving)
  /\ serving' = NoCall
  /\ UNCHANGED <<workerFrame, queue>>

\* The command's context is already done: the client fails the request
\* without sending it, and the batch is gone.
DrainedTooLate ==
  /\ worker = "draining"
  /\ queue = <<>> /\ batch # <<>>
  /\ serving \in expired
  /\ batch' = <<>>
  /\ Sent(batch, FALSE)
  /\ UNCHANGED inflight

RequestEnds(ok) ==
  /\ worker = "sending"
  /\ inflight' = <<>>
  /\ Sent(inflight, ok)
  /\ UNCHANGED batch

\* The endpoint accepts every document.
RequestAccepted == RequestEnds(TRUE)

\* The endpoint refuses some or cannot be reached, or the context expires.
RequestFails == RequestEnds(FALSE)

-----------------------------------------------------------------------------
Log(d) == Write(d) \/ EncodeFails(d) \/ Enqueue(d) \/ DropFull(d)

Call(c) == \/ Sync(c) \/ ShutdownFirst(c) \/ ShutdownAgain(c)
           \/ ShutdownReleased(c) \/ Expire(c) \/ HandOver(c) \/ GiveUp(c)
           \/ TakeResult(c)

Run == \/ Receive \/ Tick \/ Drain \/ DrainedNothing \/ Drained
       \/ DrainedTooLate \/ RequestAccepted \/ RequestFails

Next == (\E d \in Docs : Log(d)) \/ (\E c \in Calls : Call(c)) \/ Run

Spec == Init /\ [][Next]_vars

\* Go runs every goroutine that can move, timers fire, and a request whose
\* context has a deadline ends.  Nothing is assumed of the application (it
\* need not log or call) nor of a request under a context without deadline.
HasDeadline(k) == k \in {NoCall} \cup Syncs \cup Deadlined

Fairness ==
  /\ WF_vars(Receive) /\ WF_vars(Tick) /\ WF_vars(Drain)
  /\ WF_vars(DrainedNothing) /\ WF_vars(Drained) /\ WF_vars(DrainedTooLate)
  /\ WF_vars(HasDeadline(serving) /\ (RequestAccepted \/ RequestFails))
  /\ \A c \in Calls : /\ WF_vars(Expire(c)) /\ WF_vars(GiveUp(c))
                      /\ WF_vars(TakeResult(c)) /\ WF_vars(ShutdownReleased(c))

FairSpec == Spec /\ Fairness

-----------------------------------------------------------------------------
(* Safety. *)

\* Documents keep their order and none is lost, repeated or in two places on
\* the way from the channel through the batch to a finished request: what
\* writers put in is what was sent, is being sent, and waits.
FifoAccounting == accepted = sent \o inflight \o batch \o queue

\* A Sync or Shutdown that returns nil on the worker's word means that every
\* document accepted before the call has been through a finished request.
\* The other nil is that of a call that found the exporter already stopped.
NilMeansSent ==
  \A c \in Calls : ret[c] = "nil" =>
    \/ result[c] = "nil" /\ mark[c] <= Len(sent)
    \/ result[c] = "none" /\ stopped

\* The worker's answer to a command is the truth about what that command
\* flushed: after a nil no earlier document was refused in its name or still
\* waits, and an error means that one was.
HonestAnswer ==
  \A c \in Calls :
    /\ result[c] = "nil" =>
         \A i \in 1..mark[c] : fate[accepted[i]] \notin {"pending", c}
    /\ result[c] = "send" => \E d \in Docs : fate[d] = c

\* The worker stops only for a Shutdown, and then with nothing of its own
\* left and everything accepted before that call sent, even if the caller
\* gave up long before.
StopsDrained ==
  worker = "done" =>
    /\ batch = <<>> /\ inflight = <<>>
    /\ \E c \in Shutdowns : result[c] # "none" /\ mark[c] <= Len(sent)

\* Whatever a command drained into the batch, the worker comes back to its
\* select with room in it: a batch never waits full for the next tick.
RoomAtSelect == worker = "select" => Len(batch) < BatchSize

-----------------------------------------------------------------------------
(* The exporter implements the promise of BulkSink: a document is pending  *)
(* until the request that carries it has ended.                            *)

Waiting == inflight \o batch \o queue

\* The calls that began on a stopped exporter: those waiting on stopOnce, and
\* those that returned nil without an answer of the worker.
Late == {c \in Calls : pc[c] = "once" \/ (ret[c] = "nil" /\ result[c] = "none")}

Sink == INSTANCE BulkSink WITH
          Errors <- {"send", "ctx"},
          pending <- Waiting, attempted <- sent,
          asked <- {c \in Calls : pc[c] # "idle"}, late <- Late,
          since <- mark, verdict <- ret, closed <- stopped

\* Every step of writers, callers and worker is a step of the sink or none.
RefinesSink == Sink!SinkSpec

-----------------------------------------------------------------------------
(* Liveness. *)

\* A Sync, or a first Shutdown whose context can expire, returns, also when
\* the worker is gone or held by a request without deadline.
CallReturns ==
  \A c \in Syncs \cup Deadlined :
    (pc[c] \in {"offering", "awaiting"}) ~> (pc[c] = "returned")

Hung == worker = "sending" /\ ~HasDeadline(serving)

\* An accepted document is eventually part of a finished request, unless the
\* worker stopped or hangs in a Shutdown without deadline.
DeliveryAttempted ==
  \A n \in 1..Cardinality(Docs) :
    (Len(accepted) >= n) ~> (Len(sent) >= n \/ worker = "done" \/ Hung)

-----------------------------------------------------------------------------
(* What the comment on Shutdown says; the code does not. *)

\* opensearch.go:203: Shutdown first sends what has accumulated, then stops
\* the worker.  After a first Shutdown gave up, the second returns nil at
\* once, with records waiting and the worker still to stop.
ShutdownSendsThenStops ==
  \A c \in Shutdowns :
    ret[c] = "nil" => mark[c] <= Len(sent) /\ worker = "done"
=============================================================================
