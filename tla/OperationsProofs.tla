-------------------------- MODULE OperationsProofs --------------------------
(***************************************************************************)
(* No delivery is blindly sent again, but for a mail whose connection was  *)
(* lost: for any operations, workers, attempt limit and threshold of the   *)
(* breaker, and any number of acts of staff.                               *)
(* The connection's row plays no part in it: whatever workers write over   *)
(* each other's columns, only the operation's own row decides.             *)
(***************************************************************************)
EXTENDS Operations, TLAPS

(* An operation that a worker has is running, and no other worker has it.  *)
Holds(w, o) == worker[w].at = "calling" /\ worker[w].on = o
OneCaller ==
  /\ \A w \in Workers : worker[w].at = "calling" => worker[w].on \in Ops
  /\ \A o \in Ops, w \in Workers : Holds(w, o) =>
       op[o].status = "running" /\ \A v \in Workers : Holds(v, o) => v = w

(* An operation that waits to be sent was not taken more often than a      *)
(* person allowed and a mail server lost the connection; only with a       *)
(* provider that knows the key may a failed one have been, and a worker    *)
(* has that key or the message was not taken.                              *)
Waiting == {"none", "event", "passed", "pending"}
Untaken(o) == received[o] <= risk[o] + cut[o]
Accounted(o) ==
  /\ received[o] <= 1 + risk[o] + cut[o]
  /\ op[o].status \in Waiting => Untaken(o) /\ op[o].attempts = 0
  /\ op[o].status \in {"failed", "cancelled"} /\ ~Keyed => Untaken(o)
  /\ op[o].status \in {"running", "failed"} => op[o].attempts > 0
  /\ op[o].status = "failed" => op[o].attempts < MaxAttempts
  /\ \A w \in Workers : Holds(w, o) /\ ~(Keyed /\ worker[w].key) => Untaken(o)

OpInv == OpTypeOK /\ OneCaller /\ \A o \in Ops : Accounted(o)

----------------------------------------------------------------------------
LEMMA NewRow == NewConn \in Rows
  <1>1. 0 \in 0..Threshold
    BY OperationsAssumption
  <1>2. QED
    BY <1>1 DEF NewConn, Rows

LEMMA TestedRow ==
  ASSUME NEW row \in Rows
  PROVE  [row EXCEPT !.status = IF @ = "connecting" THEN "error" ELSE @] \in Rows
  <1>1. CASE row.status = "connecting"
    BY <1>1 DEF Rows
  <1>2. CASE row.status # "connecting"
    BY <1>2 DEF Rows
  <1>3. QED
    BY <1>1, <1>2

LEMMA InitHolds == OpInit => OpInv
  <1> SUFFICES ASSUME OpInit PROVE OpInv
    OBVIOUS
  <1>1. \A w \in Workers : worker[w].at = "idle" /\ worker[w].key = FALSE
    BY DEF OpInit, Idle
  <1>2. conn \in Rows
    BY NewRow DEF OpInit, Rows
  <1>3. OpTypeOK
    BY <1>2, NewRow, OperationsAssumption DEF OpInit, OpTypeOK, Statuses, NewOp, Idle
  <1>4. OneCaller
    BY <1>1 DEF OneCaller, Holds
  <1>5. \A o \in Ops : Accounted(o)
    BY <1>1 DEF OpInit, Accounted, Untaken, Holds, NewOp
  <1>6. QED
    BY <1>3, <1>4, <1>5 DEF OpInv

(* What a call records is a row, and so is what a commit leaves of it.     *)
LEMMA RecordedRow ==
  ASSUME NEW row \in Rows, NEW ending \in Endings, NEW test \in BOOLEAN
  PROVE  Recorded(Admitted(row), ending, test) \in Rows
  <1>1. Admitted(row) \in Rows
    BY DEF Admitted, Rows
  <1>2. NewConn \in Rows
    BY NewRow
  <1>3. ASSUME NEW r \in Rows PROVE Failed(r) \in Rows
    <2>1. CountTo(r.failures + 1) \in 0..Threshold
      <3>1. r.failures \in 0..Threshold /\ Threshold \in Nat
        BY OperationsAssumption DEF Rows
      <3>2. QED
        BY <3>1 DEF CountTo
    <2>2. QED
      BY <2>1 DEF Failed, Rows
  <1>4. ASSUME NEW r \in Rows PROVE Recorded(r, ending, test) \in Rows
    <2>1. Worsens(r.status, ending, test) \in {"connecting", "connected", "degraded", "error", "disabled", "revoked"}
      BY DEF Worsens, Rows
    <2>2. CASE ending \in {"broken", "ok"}
      BY <1>2, <2>2 DEF Recorded
    <2>3. CASE ending \notin {"broken", "ok"}
      <3> DEFINE next == IF ending \in Counted THEN Failed(r) ELSE r
      <3>1. next \in Rows
        BY <1>3
      <3>2. [next EXCEPT !.status = Worsens(r.status, ending, test),
                         !.limited = IF ending = "throttled" THEN "running" ELSE @] \in Rows
        BY <2>1, <3>1 DEF Rows
      <3>3. QED
        BY <2>3, <3>2 DEF Recorded
    <2>4. QED
      BY <2>2, <2>3
  <1>5. QED
    BY <1>1, <1>4

LEMMA CommitRow ==
  ASSUME NEW seen \in Rows, NEW mine \in Rows, NEW ending \in Endings, conn \in Rows,
         Commit(seen, mine, ending)
  PROVE  conn' \in Rows
  BY DEF Commit, Rows

LEMMA TypeHolds == OpInv /\ [OpNext]_opVars => OpTypeOK'
  <1> SUFFICES ASSUME OpInv, [OpNext]_opVars PROVE OpTypeOK'
    OBVIOUS
  <1> USE DEF OpInv, OpTypeOK
  <1>0. NewConn \in Rows
    BY NewRow
  <1>1. ASSUME NEW o \in Ops, Request(o) \/ Happens(o) \/ Fanout(o) \/ Drop(o) \/ Sweep(o)
        PROVE  OpTypeOK'
    BY <1>1 DEF Request, Happens, Fanout, Drop, Sweep, Becomes, Statuses, Interrupted
  <1>2. ASSUME NEW o \in Ops, Retry(o) PROVE OpTypeOK'
    <2>1. op' \in [Ops -> [status : Statuses, attempts : 0..MaxAttempts, old : BOOLEAN]]
      <3>1. 0 \in 0..MaxAttempts /\ "pending" \in Statuses
        BY OperationsAssumption DEF Statuses
      <3>2. QED
        BY <1>2, <3>1 DEF Retry
    <2>2. risk' \in [Ops -> Nat]
      BY <1>2 DEF Retry
    <2>3. staff' \in 0..MaxStaff
      BY <1>2, OperationsAssumption DEF Retry, StaffActs
    <2>4. QED
      BY <1>2, <2>1, <2>2, <2>3 DEF Retry, StaffActs
  <1>3. ASSUME NEW w \in Workers, NEW o \in Ops, Claim(w, o) PROVE OpTypeOK'
    <2>1. op[o].attempts + 1 \in 0..MaxAttempts
      BY <1>3, OperationsAssumption DEF Claim, Claimable, Accounted, Waiting
    <2>2. op' \in [Ops -> [status : Statuses, attempts : 0..MaxAttempts, old : BOOLEAN]]
      BY <1>3, <2>1 DEF Claim, Statuses
    <2>3. QED
      BY <1>3, <2>2 DEF Claim
  <1>4. ASSUME NEW w \in Workers, HoldOff(w) PROVE OpTypeOK'
    <2>1. worker[w].on \in Ops /\ Left(worker[w].on, "refused") \in Statuses
      BY <1>4 DEF HoldOff, OneCaller, Left, Statuses
    <2>2. conn' \in Rows
      BY <1>4 DEF HoldOff, Rows
    <2>3. QED
      BY <1>4, <1>0, <2>1, <2>2 DEF HoldOff, Becomes, Idle
  <1>5. ASSUME NEW w \in Workers, NEW ending \in Endings, NEW taken \in BOOLEAN, HangUp(w, ending, taken)
        PROVE  OpTypeOK'
    <2>1. worker[w].on \in Ops /\ Left(worker[w].on, ending) \in Statuses
      BY <1>5 DEF HangUp, Dials, OneCaller, Left, Statuses
    <2>2. conn' \in Rows
      BY <1>5, RecordedRow, CommitRow DEF HangUp
    <2>3. received' \in [Ops -> Nat]
      BY <1>5, <2>1 DEF HangUp, Takes
    <2>4. cut' \in [Ops -> Nat]
      BY <1>5, <2>1 DEF HangUp
    <2>5. QED
      BY <1>5, <1>0, <2>1, <2>2, <2>3, <2>4 DEF HangUp, Becomes, Idle
  <1>6. ASSUME NEW w \in Workers, NEW taken \in BOOLEAN, Dies(w, taken) PROVE OpTypeOK'
    BY <1>6, <1>0 DEF Dies, Takes, Idle, OneCaller
  <1>7. ASSUME Time PROVE OpTypeOK'
    <2>1. conn' \in Rows
      BY <1>7 DEF Time, Rows
    <2>2. op' \in [Ops -> [status : Statuses, attempts : 0..MaxAttempts, old : BOOLEAN]]
      BY <1>7 DEF Time
    <2>3. QED
      BY <1>7, <2>1, <2>2 DEF Time
  <1>8. ASSUME NEW on \in BOOLEAN, SaveRule(on) PROVE OpTypeOK'
    BY <1>8, OperationsAssumption DEF SaveRule, StaffActs, Statuses
  <1>9. ASSUME NEW row \in Rows, SetConn(row) PROVE OpTypeOK'
    BY <1>9, OperationsAssumption DEF SetConn, StaffActs
  <1>10. ASSUME NEW ending \in Endings, Test(ending) PROVE OpTypeOK'
    <2>1. Admitted(conn) \in Rows /\ Recorded(Admitted(conn), ending, TRUE) \in Rows
      BY RecordedRow DEF Admitted, Rows
    <2>2. \A row \in Rows : [row EXCEPT !.status = IF @ = "connecting" THEN "error" ELSE @] \in Rows
      BY TestedRow
    <2>3. CASE Cooling(conn) \/ conn.limited = "running"
      BY <1>9, <1>10, <2>1, <2>2, <2>3 DEF Test
    <2>4. CASE ~(Cooling(conn) \/ conn.limited = "running")
      BY <1>9, <1>10, <2>1, <2>2, <2>4 DEF Test
    <2>5. QED
      BY <2>3, <2>4
  <1>11. ASSUME Rotate \/ Enable \/ Disable \/ Disconnect PROVE OpTypeOK'
    <2>1. \A to \in {"connecting", "disabled", "revoked"} :
            [conn EXCEPT !.status = to] \in Rows /\ [NewConn EXCEPT !.status = to] \in Rows
      BY <1>0 DEF Rows
    <2>2. QED
      BY <1>9, <1>11, <2>1 DEF Rotate, Enable, Disable, Disconnect
  <1>12. CASE UNCHANGED opVars
    BY <1>12 DEF opVars
  <1>13. QED
    BY <1>1, <1>2, <1>3, <1>4, <1>5, <1>6, <1>7, <1>8, <1>10, <1>11, <1>12 DEF OpNext, Call, Staff
----------------------------------------------------------------------------
(* The rest of the invariant, given the kinds of values before and after.  *)
Kept == OneCaller /\ \A o \in Ops : Accounted(o)

(* The steps that move one operation's row while no worker has it.         *)
LEMMA RowSteps ==
  ASSUME OpInv, OpTypeOK', NEW q \in Ops,
         Request(q) \/ Happens(q) \/ Fanout(q) \/ Drop(q) \/ Sweep(q) \/ Retry(q)
  PROVE  Kept'
  <1> USE DEF OpInv, Keyed
  <1>1. UNCHANGED <<provider, worker, received, cut>>
    BY DEF Request, Happens, Fanout, Drop, Sweep, Retry, StaffActs
  <1>2. \A o \in Ops : o # q => op'[o] = op[o] /\ risk'[o] = risk[o]
    BY DEF Request, Happens, Fanout, Drop, Sweep, Retry, Becomes, OpTypeOK
  <1>3. \A w \in Workers : ~Holds(w, q)
    BY DEF Request, Happens, Fanout, Drop, Sweep, Retry, Claimable, OneCaller, Holds
  <1>4. OneCaller'
    BY <1>1, <1>2, <1>3 DEF OneCaller, Holds
  <1>5. ASSUME NEW o \in Ops PROVE Accounted(o)'
    <2>1. CASE o # q
      BY <1>1, <1>2, <2>1 DEF Accounted, Untaken, Holds
    <2>2. CASE o = q /\ Retry(q)
      <3>1. op'[q].status = "pending" /\ op'[q].attempts = 0
        BY <2>2 DEF Retry, OpTypeOK
      <3>2. Untaken(q)'
        BY <1>1, <2>2 DEF Retry, OpTypeOK, Accounted, Untaken
      <3>3. QED
        BY <1>1, <1>3, <2>2, <3>1, <3>2 DEF Accounted, Untaken, Holds, Waiting, OpTypeOK
    <2>3. CASE o = q /\ ~Retry(q)
      <3>1. /\ risk' = risk /\ op'[q].attempts = op[q].attempts
            /\ \/ op[q].status \in Waiting /\ op'[q].status \in {"pending", "event", "passed", "cancelled", "needs_review"}
               \/ op[q].status = "failed" /\ op'[q].status \in {"cancelled", "needs_review"}
               \/ op'[q].status = "needs_review"
        BY <2>3 DEF Request, Happens, Fanout, Drop, Sweep, Becomes, Claimable, Interrupted, Waiting, OpTypeOK
      <3>2. QED
        BY <1>1, <1>3, <2>3, <3>1 DEF Accounted, Untaken, Holds, Waiting
    <2>4. QED
      BY <2>1, <2>2, <2>3
  <1>6. QED
    BY <1>4, <1>5 DEF Kept

LEMMA ClaimStep == ASSUME OpInv, OpTypeOK', NEW u \in Workers, NEW q \in Ops, Claim(u, q) PROVE Kept'
  <1> USE DEF OpInv, Keyed
  <1>1. UNCHANGED <<provider, received, risk, cut>> /\ op[q].status \in {"pending", "failed"} /\ ~TooLate(q)
    BY DEF Claim, Claimable
  <1>2. /\ op'[q].status = "running" /\ op'[q].attempts = op[q].attempts + 1
        /\ \A o \in Ops : o # q => op'[o] = op[o]
    BY DEF Claim, OpTypeOK
  <1>3. /\ worker'[u].at = "calling" /\ worker'[u].on = q /\ worker'[u].key = ~op[q].old
        /\ \A w \in Workers : w # u => worker'[w] = worker[w]
    BY DEF Claim, OpTypeOK
  <1>4. \A w \in Workers : ~Holds(w, q)
    BY <1>1 DEF OneCaller, Holds
  <1>5. /\ \A w \in Workers : Holds(w, q)' <=> w = u
        /\ \A o \in Ops, w \in Workers : o # q => (Holds(w, o)' <=> Holds(w, o) /\ w # u)
    <2>1. worker[u].at = "idle"
      BY DEF Claim, Idle
    <2>2. QED
      BY <1>3, <1>4, <2>1 DEF Holds
  <1>6. OneCaller'
    BY <1>2, <1>3, <1>5 DEF OneCaller
  <1>7. ASSUME NEW o \in Ops PROVE Accounted(o)'
    <2>1. CASE o # q
      <3>1. \A w \in Workers : Holds(w, o)' => Holds(w, o) /\ worker'[w] = worker[w]
        BY <1>3, <1>5, <2>1
      <3>2. received'[o] = received[o] /\ risk'[o] = risk[o] /\ cut'[o] = cut[o] /\ provider' = provider /\ op'[o] = op[o]
        BY <1>1, <1>2, <1>3, <1>5, <2>1
      <3>3. QED
        BY <3>1, <3>2 DEF Accounted, Untaken
    <2>2. CASE o = q
      <3>1. op[q].attempts \in Nat /\ op[q].attempts = 0 => Untaken(q)
        BY <1>1 DEF Accounted, OpTypeOK, Waiting
      <3>2. ~(Keyed /\ ~op[q].old) => Untaken(q)
        BY <1>1, <3>1 DEF Accounted, TooLate, Waiting, OpTypeOK
      <3>3. op[q].attempts \in Nat
        BY DEF OpTypeOK
      <3>4. received'[q] = received[q] /\ risk'[q] = risk[q] /\ cut'[q] = cut[q] /\ received[q] <= 1 + risk[q] + cut[q]
        BY <1>1 DEF Accounted
      <3>5. \A w \in Workers : Holds(w, q)' /\ ~(Keyed' /\ worker'[w].key) => received'[q] <= risk'[q] + cut'[q]
        BY <1>1, <1>3, <1>5, <3>2, <3>4 DEF Untaken
      <3>6. op'[q].attempts > 0
        BY <1>2, <3>3
      <3>7. Accounted(q)'
        BY <1>2, <3>4, <3>5, <3>6 DEF Accounted, Untaken, Waiting
      <3>8. QED
        BY <2>2, <3>7
    <2>3. QED
      BY <2>1, <2>2
  <1>8. QED
    BY <1>6, <1>7 DEF Kept

(* The end of a call: what the provider took fits the row that is left.    *)
LEMMA EndStep ==
  ASSUME OpInv, OpTypeOK', NEW u \in Workers, NEW taken \in BOOLEAN,
         \/ HoldOff(u) /\ ~taken
         \/ \E ending \in Endings : HangUp(u, ending, taken)
         \/ Dies(u, taken)
  PROVE  Kept'
  <1> USE DEF OpInv, Keyed
  <1>0. PICK q \in Ops : q = worker[u].on
    BY DEF HoldOff, HangUp, Dies, Dials, OneCaller
  <1> DEFINE more == IF taken /\ ~(Keyed /\ worker[u].key /\ received[q] > 0) THEN 1 ELSE 0
  <1>1. Holds(u, q) /\ q = worker[u].on /\ op[q].status = "running"
    BY <1>0 DEF HoldOff, HangUp, Dies, Dials, Holds, OneCaller
  <1>2. UNCHANGED <<provider, risk>> /\ worker' = [worker EXCEPT ![u] = Idle]
    BY DEF HoldOff, HangUp, Dies
  <1>3. /\ \A o \in Ops : o # q => received'[o] = received[o]
        /\ received'[q] = received[q] + more
        /\ \A o \in Ops : o # q => cut'[o] = cut[o]
        /\ cut'[q] \in {cut[q], cut[q] + 1}
    <2>0. (\A o \in Ops : o # q => cut'[o] = cut[o]) /\ cut'[q] \in {cut[q], cut[q] + 1}
      BY <1>1 DEF HoldOff, HangUp, Dies, OpTypeOK
    <2>1. CASE HoldOff(u) /\ ~taken
      BY <1>1, <2>0, <2>1 DEF HoldOff, OpTypeOK
    <2>2. CASE Takes(u, taken)
      BY <1>1, <2>0, <2>2 DEF Takes, OpTypeOK
    <2>3. QED
      BY <2>1, <2>2 DEF HangUp, Dies
  <1>4. /\ \A o \in Ops : o # q => op'[o] = op[o]
        /\ op'[q].attempts = op[q].attempts
        /\ \/ op'[q].status \in {"running", "needs_review", "succeeded"}
           \/ op'[q].status = "failed" /\ op[q].attempts < MaxAttempts /\ (Keyed \/ ~taken \/ cut'[q] = cut[q] + 1)
    <2>1. CASE Dies(u, taken)
      BY <1>1, <2>1 DEF Dies
    <2>2. CASE HoldOff(u) /\ ~taken
      BY <1>1, <2>2 DEF HoldOff, Becomes, Left, OpTypeOK
    <2>3. CASE \E ending \in Endings : HangUp(u, ending, taken)
      <3>1. PICK ending \in Endings : HangUp(u, ending, taken)
        BY <2>3
      <3>2. Left(q, ending) = "failed" =>
              op[q].attempts < MaxAttempts /\ (Keyed \/ ~taken \/ cut'[q] = cut[q] + 1)
        BY <1>1, <3>1 DEF HangUp, Left, Retries, MaybeTaken, OpTypeOK
      <3>3. Left(q, ending) \in {"failed", "needs_review", "succeeded"}
        BY DEF Left
      <3>4. QED
        BY <1>1, <3>1, <3>2, <3>3 DEF HangUp, Becomes, OpTypeOK
    <2>4. QED
      BY <2>1, <2>2, <2>3
  <1>5. /\ \A o \in Ops, w \in Workers : Holds(w, o)' <=> Holds(w, o) /\ w # u
        /\ \A w \in Workers : w # u => worker'[w] = worker[w]
        /\ worker'[u].at = "idle"
    BY <1>2 DEF Holds, Idle, OpTypeOK
  <1>6. \A w \in Workers : ~Holds(w, q)'
    BY <1>1, <1>5 DEF OneCaller, Holds
  <1>7. OneCaller'
    <2>1. ASSUME NEW w \in Workers, worker'[w].at = "calling" PROVE worker'[w].on \in Ops
      BY <1>5, <2>1 DEF OneCaller
    <2>2. ASSUME NEW o \in Ops, NEW w \in Workers, Holds(w, o)'
          PROVE  op'[o].status = "running" /\ \A v \in Workers : Holds(v, o)' => v = w
      <3>1. Holds(w, o) /\ o # q
        BY <1>5, <1>6, <2>2
      <3>2. QED
        BY <1>4, <1>5, <3>1 DEF OneCaller
    <2>3. QED
      BY <2>1, <2>2 DEF OneCaller
  <1>8. ASSUME NEW o \in Ops PROVE Accounted(o)'
    <2>1. CASE o # q
      <3>1. \A w \in Workers : Holds(w, o)' => Holds(w, o) /\ worker'[w] = worker[w]
        BY <1>5, <2>1
      <3>2. received'[o] = received[o] /\ risk'[o] = risk[o] /\ cut'[o] = cut[o] /\ provider' = provider /\ op'[o] = op[o]
        BY <1>2, <1>3, <1>4, <1>5, <2>1
      <3>3. QED
        BY <3>1, <3>2 DEF Accounted, Untaken
    <2>2. CASE o = q
      <3>0. received[q] \in Nat /\ risk[q] \in Nat /\ cut[q] \in Nat /\ op[q].attempts > 0
        BY <1>1 DEF OpTypeOK, Accounted
      <3>1. received[q] + more <= 1 + risk[q] + cut[q]
        BY <1>1, <3>0 DEF Accounted, Untaken
      <3>2. ~Keyed => Untaken(q) /\ (taken \/ more = 0) /\ more \in {0, 1}
        BY <1>1 DEF Accounted
      <3>3. QED
        BY <1>1, <1>2, <1>3, <1>4, <1>6, <2>2, <3>0, <3>1, <3>2 DEF Accounted, Untaken, Waiting
    <2>3. QED
      BY <2>1, <2>2
  <1>9. QED
    BY <1>7, <1>8 DEF Kept

(* Everything else leaves the operations alone, but for their age and for  *)
(* what happened before a rule was saved.                                  *)
LEMMA OtherSteps ==
  ASSUME OpInv, OpTypeOK',
         \/ Time \/ (\E on \in BOOLEAN : SaveRule(on)) \/ (\E ending \in Endings : Test(ending))
         \/ Rotate \/ Enable \/ Disable \/ Disconnect \/ UNCHANGED opVars
  PROVE  Kept'
  <1> USE DEF OpInv, Keyed
  <1>1. UNCHANGED <<provider, worker, received, risk, cut>>
    BY DEF Time, SaveRule, Test, Rotate, Enable, Disable, Disconnect, SetConn, StaffActs, opVars
  <1>2. \A o \in Ops : /\ op'[o].attempts = op[o].attempts
                       /\ op'[o].status = op[o].status
                            \/ (op[o].status = "event" /\ op'[o].status = "passed")
    <2>1. CASE Time
      BY <2>1 DEF Time, OpTypeOK
    <2>2. CASE \E on \in BOOLEAN : SaveRule(on)
      BY <2>2 DEF SaveRule, OpTypeOK
    <2>3. CASE \/ (\E ending \in Endings : Test(ending)) \/ Rotate \/ Enable \/ Disable \/ Disconnect
               \/ UNCHANGED opVars
      BY <2>3 DEF Test, Rotate, Enable, Disable, Disconnect, SetConn, opVars
    <2>4. QED
      BY <2>1, <2>2, <2>3
  <1>3. OneCaller'
    BY <1>1, <1>2 DEF OneCaller, Holds
  <1>4. \A o \in Ops : Accounted(o)'
    BY <1>1, <1>2 DEF Accounted, Untaken, Holds, Waiting
  <1>5. QED
    BY <1>3, <1>4 DEF Kept

LEMMA StepHolds == OpInv /\ [OpNext]_opVars => OpInv'
  <1> SUFFICES ASSUME OpInv, [OpNext]_opVars PROVE OpInv'
    OBVIOUS
  <1>0. OpTypeOK'
    BY TypeHolds
  <1>1. ASSUME NEW o \in Ops, Request(o) \/ Happens(o) \/ Fanout(o) \/ Drop(o) \/ Sweep(o) \/ Retry(o)
        PROVE  Kept'
    BY <1>0, <1>1, RowSteps
  <1>2. ASSUME NEW w \in Workers, NEW o \in Ops, Claim(w, o) PROVE Kept'
    BY <1>0, <1>2, ClaimStep
  <1>3. ASSUME NEW w \in Workers, HoldOff(w) PROVE Kept'
    BY <1>0, <1>3, EndStep
  <1>4. ASSUME NEW w \in Workers, NEW taken \in BOOLEAN,
               Dies(w, taken) \/ \E ending \in Endings : HangUp(w, ending, taken)
        PROVE  Kept'
    BY <1>0, <1>4, EndStep
  <1>5. ASSUME \/ Time \/ (\E on \in BOOLEAN : SaveRule(on)) \/ (\E ending \in Endings : Test(ending))
               \/ Rotate \/ Enable \/ Disable \/ Disconnect \/ UNCHANGED opVars
        PROVE  Kept'
    BY <1>0, <1>5, OtherSteps
  <1>6. Kept'
    BY <1>1, <1>2, <1>3, <1>4, <1>5 DEF OpNext, Call, Staff
  <1>7. QED
    BY <1>0, <1>6 DEF OpInv, Kept

----------------------------------------------------------------------------
(* The provider has a message at most once, once more for each time a      *)
(* person accepted it, and once more for each time a mail server lost the  *)
(* connection after it had the mail, however workers, sweeps and retries   *)
(* interleave (workflows.py deliver, due; workflow_routes.py retry).       *)
THEOREM NoResend == OpSpec => []NoBlindResend
  <1>1. OpInv => NoBlindResend
    BY DEF OpInv, NoBlindResend, Accounted
  <1>2. QED
    BY InitHolds, StepHolds, <1>1, PTL DEF OpSpec

(* A provider without keys did not get what is shown as cancelled, unless  *)
(* a person let it go out again or a mail server lost the connection.      *)
THEOREM Cancelled == OpSpec => []CancelledUnsent
  <1>1. OpInv => CancelledUnsent
    BY DEF OpInv, CancelledUnsent, Accounted, Untaken
  <1>2. QED
    BY InitHolds, StepHolds, <1>1, PTL DEF OpSpec

(* Values keep their kinds; above all, no operation exceeds its attempts.  *)
THEOREM OperationTypes == OpSpec => []OpTypeOK
  <1>1. OpInv => OpTypeOK
    BY DEF OpInv
  <1>2. QED
    BY InitHolds, StepHolds, <1>1, PTL DEF OpSpec
=============================================================================
