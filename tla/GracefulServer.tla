--------------------------- MODULE GracefulServer ---------------------------
(***************************************************************************)
(* What the kit's servers promise whoever stops them, without saying how:  *)
(* requests enter while the server is open, who asks closes it for good,   *)
(* and a stop answers nil only when nothing listens and no request is      *)
(* under way.  On a server that was never opened nil says nothing.         *)
(***************************************************************************)
CONSTANTS Requests, Stops

VARIABLES
  phase,       \* new, open, closed
  asked,       \* somebody wants it to end
  listening,   \* its accept loop runs
  active,      \* the requests under way
  answer       \* what a stop returned

promiseVars == <<phase, asked, listening, active, answer>>

PromiseInit ==
  /\ phase = "new" /\ ~asked /\ ~listening
  /\ active = {}
  /\ answer = [c \in Stops |-> "none"]

Ask == asked' = TRUE /\ UNCHANGED <<phase, listening, active, answer>>

Open ==
  /\ phase = "new"
  /\ phase' = "open"
  /\ UNCHANGED <<asked, listening, active, answer>>

Listen ==
  /\ phase = "open"
  /\ listening' = TRUE
  /\ UNCHANGED <<phase, asked, active, answer>>

Admit(r) ==
  /\ phase = "open"
  /\ active' = active \cup {r}
  /\ UNCHANGED <<phase, asked, listening, answer>>

\* Requests and the loop end, by themselves or cut.
Wind ==
  /\ listening' \in {listening, FALSE}
  /\ active' \in SUBSET active
  /\ UNCHANGED <<phase, asked, answer>>

\* The server closes, and may cut what is under way.
Close ==
  /\ asked' = TRUE
  /\ phase' = "closed"
  /\ listening' \in {listening, FALSE}
  /\ active' \in SUBSET active
  /\ UNCHANGED answer

Answer(c, v) ==
  /\ answer[c] = "none"
  /\ answer' = [answer EXCEPT ![c] = v]
  /\ UNCHANGED <<phase, asked, listening, active>>

AnswerNil(c) == phase # "open" /\ ~listening /\ active = {} /\ Answer(c, "nil")

AnswerError(c) == Answer(c, "error")

PromiseNext ==
  \/ Ask \/ Open \/ Listen \/ Wind \/ Close
  \/ \E r \in Requests : Admit(r)
  \/ \E c \in Stops : AnswerNil(c) \/ AnswerError(c)

PromiseSpec == PromiseInit /\ [][PromiseNext]_promiseVars

\* What the promise comes to: a server that has closed and come to rest, as one
\* has that answered nil, stays at rest.  Nothing listens or enters ever again.
Quiet == phase = "closed" /\ ~listening /\ active = {}

StaysQuiet == [][Quiet => Quiet']_promiseVars
=============================================================================
