------------------------------ MODULE BulkSink ------------------------------
(***************************************************************************)
(* What a buffered exporter of log documents promises, without saying how: *)
(* accepted documents are attempted in order, each once, in groups of any  *)
(* size, and a flush call answers nil only if everything accepted before   *)
(* it has been attempted -- or it began on a closed sink: then nil says    *)
(* nothing.                                                                *)
(* The comments of pkg/logging/opensearch.go (166, 192, 203) state it.     *)
(***************************************************************************)
EXTENDS Integers, Sequences

CONSTANTS Docs, Calls, Errors

VARIABLES
  pending,     \* accepted documents not yet attempted
  attempted,   \* attempted documents
  asked,       \* flush calls that have begun
  late,        \* those that began on a closed sink
  since,       \* how many documents had been accepted when a call began
  verdict,     \* what a call returned
  closed

sinkVars == <<pending, attempted, asked, late, since, verdict, closed>>

SinkInit ==
  /\ pending = <<>> /\ attempted = <<>>
  /\ asked = {} /\ late = {}
  /\ since = [c \in Calls |-> 0]
  /\ verdict = [c \in Calls |-> "none"]
  /\ closed = FALSE

Accept(d) ==
  /\ pending' = Append(pending, d)
  /\ UNCHANGED <<attempted, asked, late, since, verdict, closed>>

\* A request takes the oldest documents.
Attempt ==
  /\ pending # <<>>
  /\ \E k \in 1..Len(pending) :
       /\ attempted' = attempted \o SubSeq(pending, 1, k)
       /\ pending' = SubSeq(pending, k + 1, Len(pending))
  /\ UNCHANGED <<asked, late, since, verdict, closed>>

Begin(c) ==
  /\ c \notin asked
  /\ asked' = asked \cup {c}
  /\ since' = [since EXCEPT ![c] = Len(attempted) + Len(pending)]
  /\ UNCHANGED <<pending, attempted>>

\* A flush call on an open sink; some of them close it.
Ask(c) ==
  /\ ~closed
  /\ Begin(c)
  /\ closed' \in BOOLEAN
  /\ UNCHANGED <<late, verdict>>

\* A call on a closed sink has nothing to ask for; it may answer at once.
AskLate(c) ==
  /\ closed
  /\ Begin(c)
  /\ late' = late \cup {c}
  /\ \/ UNCHANGED verdict
     \/ verdict' = [verdict EXCEPT ![c] = "nil"]
  /\ UNCHANGED closed

Answer(c, v) ==
  /\ c \in asked
  /\ verdict[c] = "none"
  /\ verdict' = [verdict EXCEPT ![c] = v]
  /\ UNCHANGED <<pending, attempted, asked, late, since, closed>>

AnswerNil(c) ==
  /\ c \in late \/ since[c] <= Len(attempted)
  /\ Answer(c, "nil")

AnswerError(c) == \E v \in Errors : Answer(c, v)

SinkNext ==
  \/ \E d \in Docs : Accept(d)
  \/ Attempt
  \/ \E c \in Calls : Ask(c) \/ AskLate(c) \/ AnswerNil(c) \/ AnswerError(c)

SinkSpec == SinkInit /\ [][SinkNext]_sinkVars
=============================================================================
