----------------------------- MODULE Operations -----------------------------
(***************************************************************************)
(* Notifications sent through a connection (integrations/workflows.py,     *)
(* workflow_routes.py), the circuit breaker and the record every call      *)
(* leaves on the connection's row (runtime.py, circuit.py), and what staff *)
(* do to the connection (modules/integrations/service.py).                 *)
(*                                                                         *)
(* A worker reads the connection without a lock, commits the claim of the  *)
(* operation, calls the provider, and writes the operation and those       *)
(* columns of the connection it changed, over whatever was committed       *)
(* meanwhile.  Staff hold the row of the connection while they work on it. *)
(***************************************************************************)
EXTENDS Integers, FiniteSets

CONSTANTS
  Ops,          \* deliveries, one for each recipient
  RuleOps,      \* those a business event causes by the workflow's rule
  Workers,
  NoOp,
  MaxAttempts,  \* delivery_max_attempts
  Threshold,    \* circuit_failure_threshold
  MaxStaff      \* bound: what staff do

ASSUME OperationsAssumption ==
  /\ RuleOps \subseteq Ops /\ NoOp \notin Ops
  /\ MaxAttempts \in Nat \ {0} /\ Threshold \in Nat \ {0} /\ MaxStaff \in Nat

VARIABLES
  conn,      \* the row of the connection
  rule,      \* whether the rule sends this event to this recipient
  provider,  \* "keys": it recognises a repeated key; "smtp": a mail server; "plain"
  op,        \* op[o]: the row of the operation
  worker,    \* worker[w]: its call, and the connection as it read it
  received,  \* received[o]: times the provider took the message (history)
  risk,      \* risk[o]: times a person let it go out again (history)
  cut,       \* cut[o]: times a mail server had the mail when the line broke (history)
  staff      \* counter (bound)

opVars == <<conn, rule, provider, op, worker, received, risk, cut, staff>>

\* circuit_opened_at and rate_limited_until are seen as running or past.
NewConn == [status |-> "connected", circuit |-> "closed", failures |-> 0, opened |-> "", limited |-> ""]
NewOp == [status |-> "none", attempts |-> 0, old |-> FALSE]
Idle == [at |-> "idle", on |-> NoOp, seen |-> NewConn, key |-> FALSE]

OpInit ==
  /\ conn \in {[NewConn EXCEPT !.status = s] : s \in {"connected", "disabled"}}
  /\ rule = TRUE /\ provider \in {"keys", "plain", "smtp"}
  /\ op = [o \in Ops |-> NewOp]
  /\ worker = [w \in Workers |-> Idle]
  /\ received = [o \in Ops |-> 0] /\ risk = [o \in Ops |-> 0] /\ cut = [o \in Ops |-> 0]
  /\ staff = 0

Keyed == provider = "keys"
Inactive == conn.status \in {"revoked", "disabled"}
Ready == conn.status \in {"connected", "degraded"}
Becomes(o, status) == op' = [op EXCEPT ![o].status = status]

----------------------------------------------------------------------------
(* Circuit: half open counts as closed until its call has ended.           *)

Cooling(row) == row.circuit = "open" /\ row.opened # "past"           \* CircuitOpen
Admitted(row) == IF row.circuit = "open" THEN [row EXCEPT !.circuit = "half_open"] ELSE row

CountTo(n) == IF n < Threshold THEN n ELSE Threshold   \* counted no further
Failed(row) ==
  LET n == CountTo(row.failures + 1) IN
  IF row.circuit = "half_open" \/ n >= Threshold
    THEN [row EXCEPT !.failures = n, !.circuit = "open", !.opened = "running"]
    ELSE [row EXCEPT !.failures = n]

\* How a call can end, and the ways in which the message may have arrived all
\* the same: a timeout, 5xx, unreadable answer or error of our own; with a mail
\* server also a connection lost after the mail was handed over, for only its
\* timeouts are told apart.  A mail server gives no 429 and no unreadable answer.
Counted == {"refused", "throttled", "unsure", "garbled"}
Endings == {"ok", "rejected", "denied", "broken"} \cup Counted
Gives(ending) == provider = "smtp" => ending \notin {"throttled", "garbled"}
MaybeTaken == {"unsure", "garbled", "broken"} \cup (IF provider = "smtp" THEN {"refused"} ELSE {})

\* ConnectionRuntime.record_success and record_failure.
Worsens(status, ending, test) ==
  CASE ending = "denied" \/ (test /\ ending = "rejected") -> "error"
    [] test /\ status = "connecting" -> "error"
    [] status = "connected" -> "degraded"
    [] OTHER -> status
Recorded(row, ending, test) ==
  CASE ending = "broken" -> row
    [] ending = "ok" -> NewConn
    [] OTHER ->
         LET next == IF ending \in Counted THEN Failed(row) ELSE row IN
         [next EXCEPT !.status = Worsens(row.status, ending, test),
                      !.limited = IF ending = "throttled" THEN "running" ELSE @]

\* The columns a commit writes: those whose value is not the one read.  A time
\* set again is another time.
Written(seen, mine, ending) ==
  {f \in DOMAIN mine : mine[f] # seen[f]}
    \cup (IF ending \in Counted /\ mine.circuit = "open" THEN {"opened"} ELSE {})
Commit(seen, mine, ending) ==
  conn' = [f \in DOMAIN conn |-> IF f \in Written(seen, mine, ending) THEN mine[f] ELSE conn[f]]

----------------------------------------------------------------------------
(* Operations come to be (business.py operation, workflows.py fanout).     *)

Request(o) ==
  /\ o \notin RuleOps /\ op[o].status = "none" /\ Ready
  /\ Becomes(o, "pending")
  /\ UNCHANGED <<conn, rule, provider, worker, received, risk, cut, staff>>

Happens(o) ==
  /\ o \in RuleOps /\ op[o].status = "none"
  /\ Becomes(o, "event")
  /\ UNCHANGED <<conn, rule, provider, worker, received, risk, cut, staff>>

Fanout(o) ==
  /\ op[o].status = "event"
  /\ Becomes(o, IF rule /\ Ready THEN "pending" ELSE "passed")
  /\ UNCHANGED <<conn, rule, provider, worker, received, risk, cut, staff>>

----------------------------------------------------------------------------
(* workflows.deliver                                                       *)

Claimable(o) == op[o].status \in {"pending", "failed"}   \* next_attempt_at passes at any time
Unwanted(o) == Inactive \/ (o \in RuleOps /\ ~rule)
TooLate(o) == op[o].attempts > 0 /\ op[o].old

Drop(o) ==
  /\ Claimable(o)
  /\ \/ Unwanted(o) /\ Becomes(o, "cancelled")
     \/ ~Unwanted(o) /\ TooLate(o) /\ Becomes(o, "needs_review")
  /\ UNCHANGED <<conn, rule, provider, worker, received, risk, cut, staff>>

\* A key outlives the call of a claim made in its first 23 hours.
Claim(w, o) ==
  /\ worker[w] = Idle
  /\ Claimable(o) /\ ~Unwanted(o) /\ ~TooLate(o)
  /\ op' = [op EXCEPT ![o].status = "running", ![o].attempts = @ + 1]
  /\ worker' = [worker EXCEPT ![w] = [at |-> "calling", on |-> o, seen |-> conn, key |-> ~op[o].old]]
  /\ UNCHANGED <<conn, rule, provider, received, risk, cut, staff>>

RetriesUnsure(ending) == ending \in {"refused", "throttled", "unsure"}  \* mutant of Retries
Retries(ending) == ending \in {"refused", "throttled"} \/ (ending = "unsure" /\ Keyed)
LeftToRetry(o, ending) ==                                             \* mutant of Left
  IF ending = "ok" THEN "succeeded" ELSE IF Retries(ending) THEN "failed" ELSE "needs_review"
Left(o, ending) ==
  CASE ending = "ok" -> "succeeded"
    [] Retries(ending) /\ op[o].attempts < MaxAttempts -> "failed"
    [] OTHER -> "needs_review"

\* The breaker or the limiter refused: the attempt is spent all the same.
HoldOff(w) ==
  LET seen == worker[w].seen IN
  /\ worker[w].at = "calling"
  /\ conn' = IF ~Cooling(seen) /\ seen.circuit = "open"
               THEN [conn EXCEPT !.circuit = "half_open"] ELSE conn
  /\ Becomes(worker[w].on, Left(worker[w].on, "refused"))
  /\ worker' = [worker EXCEPT ![w] = Idle]
  /\ UNCHANGED <<rule, provider, received, risk, cut, staff>>

Dials(w) ==
  worker[w].at = "calling" /\ ~Cooling(worker[w].seen) /\ worker[w].seen.limited # "running"

Takes(w, taken) ==
  LET o == worker[w].on IN
  received' = [received EXCEPT ![o] =
    IF taken /\ ~(Keyed /\ worker[w].key /\ @ > 0) THEN @ + 1 ELSE @]

HangUp(w, ending, taken) ==
  LET seen == worker[w].seen
      mine == Recorded(Admitted(seen), ending, FALSE) IN
  /\ Dials(w) /\ Gives(ending)
  /\ (ending = "ok" => taken) /\ (taken => ending \in {"ok"} \cup MaybeTaken)
  /\ Commit(seen, mine, ending)
  /\ Becomes(worker[w].on, Left(worker[w].on, ending))
  /\ Takes(w, taken)
  /\ cut' = [cut EXCEPT ![worker[w].on] = IF taken /\ ending = "refused" THEN @ + 1 ELSE @]
  /\ worker' = [worker EXCEPT ![w] = Idle]
  /\ UNCHANGED <<rule, provider, risk, staff>>

Dies(w, taken) ==
  /\ worker[w].at = "calling"
  /\ taken => Dials(w)
  /\ Takes(w, taken)
  /\ worker' = [worker EXCEPT ![w] = Idle]
  /\ UNCHANGED <<conn, rule, provider, op, risk, cut, staff>>

----------------------------------------------------------------------------
(* workflows.due, ten minutes after a worker was last heard of; and time.  *)

LeftRunning(o) == "failed"                                            \* mutant of Interrupted
NotNoticed(o) == "running"                                            \* mutant of Interrupted
Interrupted(o) == "needs_review"
Sweep(o) ==
  /\ op[o].status = "running" /\ \A w \in Workers : worker[w].on # o
  /\ Becomes(o, Interrupted(o))
  /\ UNCHANGED <<conn, rule, provider, worker, received, risk, cut, staff>>

Time ==
  /\ \/ conn.opened = "running" /\ conn' = [conn EXCEPT !.opened = "past"] /\ UNCHANGED op
     \/ conn.limited = "running" /\ conn' = [conn EXCEPT !.limited = "past"] /\ UNCHANGED op
     \/ \E o \in Ops : /\ op[o].status \in {"pending", "running", "failed"} /\ ~op[o].old
                       /\ op[o].attempts > 0 \/ risk[o] > 0   \* no other's age is asked
                       /\ op' = [op EXCEPT ![o].old = TRUE] /\ UNCHANGED conn
  /\ UNCHANGED <<rule, provider, worker, received, risk, cut, staff>>

----------------------------------------------------------------------------
(* Staff                                                                   *)

StaffActs == staff < MaxStaff /\ staff' = staff + 1 /\ UNCHANGED <<provider, worker, received, cut>>
SetConn(row) == conn' = row /\ StaffActs /\ UNCHANGED <<rule, op, risk>>

\* A delivery under review is sent again only when they accept a duplicate.
Retry(o) ==
  /\ op[o].status \in {"failed", "needs_review"}
  /\ op' = [op EXCEPT ![o].status = "pending", ![o].attempts = 0]
  /\ risk' = [risk EXCEPT ![o] = IF Keyed \/ op[o].status = "needs_review" THEN @ + 1 ELSE @]
  /\ StaffActs /\ UNCHANGED <<conn, rule>>

\* save_rule: what happened before the rule was saved is never sent by it.
SaveRule(on) ==
  /\ on # rule /\ (on => Ready)
  /\ rule' = on
  /\ op' = [o \in Ops |-> IF op[o].status = "event" THEN [op[o] EXCEPT !.status = "passed"] ELSE op[o]]
  /\ StaffActs /\ UNCHANGED <<conn, risk>>

\* run_test: the row is locked from before the call until it is recorded.
Test(ending) ==
  /\ ~Inactive /\ Gives(ending)
  /\ LET halted == Cooling(conn) \/ conn.limited = "running"
         tried == IF Cooling(conn) THEN conn ELSE Admitted(conn)
         after == IF halted THEN tried ELSE Recorded(tried, ending, TRUE) IN
     SetConn([after EXCEPT !.status = IF @ = "connecting" THEN "error" ELSE @])

Rotate ==
  /\ conn.status # "revoked"
  /\ SetConn([NewConn EXCEPT !.status =
                IF conn.status \in {"disabled", "connecting"} THEN conn.status ELSE "connecting"])

Enable == conn.status = "disabled" /\ SetConn([conn EXCEPT !.status = "connecting"])
Disable == ~Inactive /\ SetConn([conn EXCEPT !.status = "disabled"])
Disconnect == conn.status # "revoked" /\ SetConn([conn EXCEPT !.status = "revoked"])

----------------------------------------------------------------------------
Call(w) == HoldOff(w) \/ \E ending \in Endings, taken \in BOOLEAN : HangUp(w, ending, taken)

Staff ==
  \/ \E o \in Ops : Retry(o)
  \/ \E on \in BOOLEAN : SaveRule(on)
  \/ \E ending \in Endings \ {"broken"} : Test(ending)
  \/ Rotate \/ Enable \/ Disable \/ Disconnect

OpNext ==
  \/ \E o \in Ops : Request(o) \/ Happens(o) \/ Fanout(o) \/ Drop(o) \/ Sweep(o)
  \/ \E w \in Workers : Call(w) \/ (\E o \in Ops : Claim(w, o)) \/ \E taken \in BOOLEAN : Dies(w, taken)
  \/ Time \/ Staff

OpSpec == OpInit /\ [][OpNext]_opVars

(* Jobs that are due start, jobs go on or die, the sweep runs, time passes. *)
OpFairness ==
  /\ WF_opVars(\E o \in Ops : Fanout(o) \/ Sweep(o))
  /\ WF_opVars(\E o \in Ops : Drop(o) \/ \E w \in Workers : Claim(w, o))
  /\ WF_opVars(\E w \in Workers : Call(w))
FairOpSpec == OpSpec /\ OpFairness

----------------------------------------------------------------------------
Statuses == {"none", "event", "passed", "pending", "running", "failed", "succeeded", "needs_review", "cancelled"}
Rows == [status : {"connecting", "connected", "degraded", "error", "disabled", "revoked"},
         circuit : {"closed", "open", "half_open"}, failures : 0..Threshold,
         opened : {"", "running", "past"}, limited : {"", "running", "past"}]

(* Rows and processes have values of their kind; attempts are bounded.     *)
OpTypeOK ==
  /\ conn \in Rows /\ rule \in BOOLEAN /\ provider \in {"keys", "plain", "smtp"}
  /\ op \in [Ops -> [status : Statuses, attempts : 0..MaxAttempts, old : BOOLEAN]]
  /\ worker \in [Workers -> [at : {"idle", "calling"}, on : Ops \cup {NoOp},
                             seen : Rows, key : BOOLEAN]]
  /\ received \in [Ops -> Nat] /\ risk \in [Ops -> Nat] /\ cut \in [Ops -> Nat]
  /\ staff \in 0..MaxStaff

(* A delivery is not blindly sent again after a timeout, a 5xx or a crash:  *)
(* the provider took it at most once and once more for each time a person  *)
(* accepted a duplicate, or, where the provider knows the key for a day,   *)
(* started the 23 hours again, or for each time a mail server had the mail *)
(* although the connection to it was lost.                                 *)
NoBlindResend == \A o \in Ops : received[o] <= 1 + risk[o] + cut[o]

(* What is shown as cancelled was not sent: a provider that knows no keys  *)
(* took it only if a person had let it go out again, or if it is a mail    *)
(* server and the connection was lost.  (With keys a retry can be          *)
(* cancelled although the first try arrived.)                              *)
CancelledUnsent ==
  \A o \in Ops : ~Keyed /\ op[o].status = "cancelled" => received[o] <= risk[o] + cut[o]

(* "A crash after send may have delivered the message: do not blindly send *)
(* again." (workflows.py:285); "ambiguous [...] after it may have been     *)
(* processed) -> never blindly retried" (retry.py:5-6).  Not so for a mail *)
(* whose connection is lost after it was handed over (smtp.py:188-191).    *)
SentOnce == \A o \in Ops : received[o] <= 1 + risk[o]

(* Whatever fails or dies, a delivery ends sent, cancelled or before a     *)
(* person; an open circuit only makes it end sooner.                       *)
DeliveryEnds ==
  \A o \in Ops : op[o].status \in {"pending", "running", "failed"}
                   ~> op[o].status \in {"succeeded", "needs_review", "cancelled"}

(* "revoked (terminal; credentials destroyed ...)" (INTEGRATIONS.md:91).   *)
RevokedStays == [][conn.status = "revoked" => conn'.status = "revoked"]_opVars

(* "rejects calls for CIRCUIT_COOLDOWN_SECONDS, then allows one half-open  *)
(* probe. State lives in DB columns, so all processes agree"               *)
(* (INTEGRATIONS.md:137-138).                                              *)
OneProbe ==
  \A v, w \in Workers :
    LET probes(x) == Dials(x) /\ Admitted(worker[x].seen).circuit = "half_open" IN
    probes(v) /\ probes(w) => v = w
=============================================================================
