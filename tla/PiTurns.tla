------------------------------ MODULE PiTurns ------------------------------
(***************************************************************************)
(* The assistant's turns in one WhatsApp chat (modules/pi/runtime.py,      *)
(* outage.py, service.py).  Each message of the customer arrives as a      *)
(* webhook event; a worker stores it, waits for the customer to finish     *)
(* typing, reads the chat, asks the model, checks everything again under   *)
(* row locks and queues a reply; another job hands the reply to WhatsApp.  *)
(* Staff take the chat over at any time; a sweep every 30 seconds runs     *)
(* again what stopped.                                                     *)
(*                                                                         *)
(* Jobs are not counted: an event or a reply that is due may be run by any *)
(* free worker at any time, also while another runs it, because a webhook  *)
(* repeated, a sweep (an event is untouched for 120 seconds while a job    *)
(* lasts up to 180) or a replay queues it again.                           *)
(*                                                                         *)
(* The connection of the chat is switched off and on while all this runs;  *)
(* a job that finds it off ignores the event or skips the reply, each for  *)
(* good.  Abstracted: the chat is in brain mode and has its notes, without *)
(* which a reply is sent unasked whether a newer message came              *)
(* (handlers.py:707-709); automatic replies are not switched off and the   *)
(* plan does not lapse; the customer does not opt out; the number is not   *)
(* the one where a linked member of the team talks to NORI, whose messages *)
(* end there (runtime.py:892-909).  The staff's own messages and the       *)
(* system's fixed notices are not rows of the model, and the alert after   *)
(* two hours of an outage is one of the acts of staff.                     *)
(***************************************************************************)
EXTENDS Integers, Sequences, FiniteSets, SequencesExt

CONSTANTS
  Messages,     \* what the customer writes
  NoMessage,
  Workers,      \* processes that run the jobs
  MaxAttempts,  \* attempts of an event
  MaxOutages,   \* bound: turns for which the model is down
  MaxStaff      \* bound: what staff do

ASSUME PiAssumption ==
  /\ NoMessage \notin Messages
  /\ MaxAttempts \in Nat \ {0}
  /\ MaxOutages \in Nat /\ MaxStaff \in Nat

VARIABLES
  event,     \* event[m]: the receipt of the webhook
  inbound,   \* inbound[m]: status and error code of the customer's message
  rows,      \* messages of both sides in the order of created_at
  newest,    \* the message that set conversation.last_inbound_at
  chat,      \* conversation.mode and status: ai, human or closed
  on,        \* the connection, its tenant and the product are active
  run,       \* messages that have a PiAgentRun
  reply,     \* reply[m]: the outbound row with the key reply:m
  worker,    \* worker[w]: what the process is in the middle of
  given,     \* given[m]: times reply[m] reached WhatsApp (history)
  outages, staff  \* counters (bounds)

convVars == <<newest, chat>>
turnVars == <<event, inbound, rows, run>>
piVars == <<event, inbound, rows, newest, chat, on, run, reply, worker, given, outages, staff>>

NoReply == [status |-> "none", by |-> "ai", fits |-> {}, covers |-> {}]
Idle == [at |-> "idle", msg |-> NoMessage, seen |-> NoMessage, burst |-> {}, capped |-> FALSE]

PiInit ==
  /\ event = [m \in Messages |-> [status |-> "none", attempts |-> 0]]
  /\ inbound = [m \in Messages |-> [status |-> "none", code |-> ""]]
  /\ rows = <<>> /\ newest = NoMessage /\ chat = "ai" /\ on = TRUE /\ run = {}
  /\ reply = [m \in Messages |-> NoReply]
  /\ worker = [w \in Workers |-> Idle]
  /\ given = [m \in Messages |-> 0]
  /\ outages = 0 /\ staff = 0

In(m) == [kind |-> "in", of |-> m]
Out(m) == [kind |-> "out", of |-> m]
Precedes(r, s) == \E i, j \in DOMAIN rows : i < j /\ rows[i] = r /\ rows[j] = s

TurnAt == {"opening", "refused", "repeat", "thinking", "writing"}
SendAt == {"claimed", "calling"}     \* "picked" before: a reply read without a lock
On(w, m) == worker[w].msg = m
\* The sender holds the row of the conversation while it calls WhatsApp.
Locked == \E w \in Workers : worker[w].at = "calling"

\* Nobody else has the row of the event locked, as its first transaction does.
EventFree(m) == \A v \in Workers : On(v, m) => worker[v].at # "opening"

Goes(w, at) == worker' = [worker EXCEPT ![w].at = at]
Ends(w) == worker' = [worker EXCEPT ![w] = Idle]
EventDone(m) == EventFree(m) /\ event' = [event EXCEPT ![m].status = "processed"]
Closes(m, status, code) ==
  /\ inbound' = [inbound EXCEPT ![m] = [status |-> status, code |-> code]]
  /\ EventDone(m)
\* A first transaction that does not commit leaves no row.
TakesBack(m) == \E i \in DOMAIN rows : rows[i] = In(m) /\ rows' = RemoveAt(rows, i)
HandsOff == chat' = IF chat = "closed" THEN chat ELSE "human"

----------------------------------------------------------------------------
(* Receipt (routes.py receive) and the first transaction of a turn.        *)

\* Also while the connection is off: the webhook of a connection made through
\* Integrations asks less than the jobs do.
Receive(m) ==
  /\ event[m].status = "none"
  /\ event' = [event EXCEPT ![m].status = "received"]
  /\ UNCHANGED <<inbound, rows, convVars, run, reply, worker, given, outages, on, staff>>

Waiting(m) == event[m].status \in {"received", "queued"}          \* mutant of Due
Due(m) == event[m].status \in {"received", "queued"} /\ event[m].attempts < MaxAttempts

\* The transaction starts, which is the created_at of a message it inserts.
Open(w, m) ==
  /\ worker[w] = Idle
  /\ Due(m) /\ EventFree(m)
  /\ worker' = [worker EXCEPT ![w] = [Idle EXCEPT !.at = "opening", !.msg = m]]
  /\ rows' = IF inbound[m].status = "none" THEN Append(rows, In(m)) ELSE rows
  /\ UNCHANGED <<event, inbound, convVars, run, reply, given, outages, on, staff>>

\* persist_inbound, and what the turn knows of the chat from here on.
Persist(w) ==
  LET m == worker[w].msg
      new == inbound[m].status = "none"
      heard == IF new THEN m ELSE newest
      at == IF ~new /\ inbound[m].status # "received" THEN "repeat"
            ELSE IF chat = "ai" THEN "thinking" ELSE "refused" IN
  /\ worker[w].at = "opening" /\ on
  /\ ~Locked
  /\ new => chat # "closed"
  /\ event' = [event EXCEPT ![m] = [status |-> "queued", attempts |-> @.attempts + 1]]
  /\ inbound' = IF new THEN [inbound EXCEPT ![m].status = "received"] ELSE inbound
  /\ newest' = heard
  /\ worker' = [worker EXCEPT ![w].at = at, ![w].seen = heard]
  /\ UNCHANGED <<rows, chat, run, reply, given, outages, on, staff>>

\* The chat was closed: the message opens another one.
OtherChat(w) ==
  LET m == worker[w].msg IN
  /\ worker[w].at = "opening" /\ on
  /\ inbound[m].status = "none" /\ chat = "closed"
  /\ event' = [event EXCEPT ![m].status = "processed"]
  /\ TakesBack(m)
  /\ Ends(w)
  /\ UNCHANGED <<inbound, convVars, run, reply, given, outages, on, staff>>

\* The connection is off: the event is over, and a message that an earlier run
\* or a replay left "received" stays so.
Ignore(w) ==
  LET m == worker[w].msg IN
  /\ worker[w].at = "opening" /\ ~on
  /\ event' = [event EXCEPT ![m].status = "ignored"]
  /\ IF inbound[m].status = "none" THEN TakesBack(m) ELSE UNCHANGED rows
  /\ Ends(w)
  /\ UNCHANGED <<inbound, convVars, run, reply, given, outages, on, staff>>

\* A person had the chat, or an earlier run of the event ended the turn.
Leave(w) ==
  LET m == worker[w].msg IN
  /\ \/ worker[w].at = "refused" /\ Closes(m, "skipped", "")
     \/ worker[w].at = "repeat" /\ EventDone(m) /\ UNCHANGED inbound
  /\ Ends(w)
  /\ UNCHANGED <<rows, convVars, run, reply, given, outages, on, staff>>

----------------------------------------------------------------------------
(* After the debounce.  The decisions are made of committed rows, without  *)
(* a lock, and written over whatever was committed meanwhile.              *)

NewerWaiting(m) == \E n \in Messages : inbound[n].status = "received" /\ Precedes(In(m), In(n))

SetAside(w, code) ==
  /\ Closes(worker[w].msg, "skipped", code)
  /\ Ends(w)
  /\ UNCHANGED <<run, reply, given, outages, on, staff>>

Coalesce(w) ==
  /\ worker[w].at \in {"thinking", "writing"}
  /\ NewerWaiting(worker[w].msg) /\ ~worker[w].capped
  /\ SetAside(w, "burst") /\ UNCHANGED <<rows, convVars>>

\* No newer message waits, or burst_too_long: the clock decides, for good.
Proceeds(w) == worker[w].at = "thinking"

\* Moderation stays silent, or there is nothing to answer: the text decides.
Dismiss(w) ==
  /\ Proceeds(w)
  /\ SetAside(w, "dismissed") /\ UNCHANGED <<rows, convVars>>

\* rate_limited: kept for the next answer, or a loop that a person must end.
Limit(w) ==
  /\ Proceeds(w)
  /\ \/ SetAside(w, "limited") /\ UNCHANGED <<rows, convVars>>
     \/ /\ ~Locked /\ HandsOff
        /\ rows' = IF chat = "human" THEN rows ELSE Append(rows, Out(worker[w].msg))
        /\ SetAside(w, "loop") /\ UNCHANGED newest

BurstCodes == {"burst", "limited", "outage"}
AnyEarlier(m) == {n \in Messages : Precedes(In(n), In(m))}        \* mutant of BurstBefore
BurstBefore(m) ==
  {n \in Messages :
     /\ inbound[n].status = "skipped" /\ inbound[n].code \in BurstCodes
     /\ Precedes(In(n), In(m))
     /\ ~\E k \in Messages : Precedes(In(n), Out(k))}

\* The context of the turn: what the model will read.  A turn that goes on
\* although a newer message waits has found the burst too long.
ReadChat(w) ==
  /\ Proceeds(w)
  /\ worker' = [worker EXCEPT ![w].at = "writing", ![w].capped = NewerWaiting(worker[w].msg),
                              ![w].burst = BurstBefore(worker[w].msg)]
  /\ UNCHANGED <<turnVars, convVars, reply, given, outages, on, staff>>

----------------------------------------------------------------------------
(* The model has answered: everything is checked again under row locks.    *)

Fresh(w) == chat = "ai" /\ on /\ newest = worker[w].seen

Finishing(w) ==
  /\ worker[w].at = "writing"
  /\ ~Locked
  /\ Ends(w)

RefuseDraft(w) ==
  /\ Finishing(w) /\ ~Fresh(w)
  /\ Closes(worker[w].msg, "skipped",
            IF chat = "ai" /\ newest # worker[w].seen THEN "burst" ELSE "")
  /\ UNCHANGED <<rows, convVars, run, reply, given, outages, on, staff>>

AlreadyRun(w) ==
  /\ Finishing(w) /\ Fresh(w) /\ worker[w].msg \in run
  /\ EventDone(worker[w].msg)
  /\ UNCHANGED <<inbound, rows, convVars, run, reply, given, outages, on, staff>>

Runs(w) ==
  /\ Finishing(w) /\ Fresh(w) /\ worker[w].msg \notin run
  /\ run' = run \cup {worker[w].msg}
  /\ UNCHANGED <<newest, given, on, staff>>

\* send_whatsapp_message: a reply that a newer message supersedes fits nothing.
Superseded(m) == \E n \in Messages : inbound[n].status # "none" /\ Precedes(In(m), In(n))
Draft(w, by) ==
  [status |-> "queued", by |-> by, covers |-> {worker[w].msg} \cup worker[w].burst,
   fits |-> IF Superseded(worker[w].msg) THEN {} ELSE {newest}]

\* by: the system, when the reply announces that a person will answer.
Answer(w, by) ==
  LET m == worker[w].msg IN
  /\ Runs(w)
  /\ Closes(m, "processed", "")
  /\ IF reply[m].status = "none"
       THEN reply' = [reply EXCEPT ![m] = Draft(w, by)] /\ rows' = Append(rows, Out(m))
       ELSE UNCHANGED <<reply, rows>>
  /\ IF by = "system" THEN HandsOff ELSE UNCHANGED chat
  /\ UNCHANGED outages

\* No reply passed the checks: a person answers, and a fixed notice says so.
HandOff(w) ==
  /\ Runs(w)
  /\ Closes(worker[w].msg, "processed", "")
  /\ HandsOff /\ rows' = Append(rows, Out(worker[w].msg))
  /\ UNCHANGED <<reply, outages>>

\* The model is down: the message waits for outage.due_replays.
Park(w) ==
  /\ outages < MaxOutages
  /\ Runs(w)
  /\ Closes(worker[w].msg, "skipped", "outage")
  /\ outages' = outages + 1
  /\ UNCHANGED <<rows, chat, reply>>

\* The process dies, or the job fails with an error nobody handles.
TurnDies(w) ==
  /\ worker[w].at \in TurnAt
  /\ IF worker[w].at = "opening" /\ inbound[worker[w].msg].status = "none"
       THEN TakesBack(worker[w].msg) ELSE UNCHANGED rows
  /\ Ends(w)
  /\ UNCHANGED <<event, inbound, convVars, run, reply, given, outages, on, staff>>

----------------------------------------------------------------------------
(* send_pi_message.  The claim is committed before the call.               *)

Blocked(m) == chat = "closed" \/ (reply[m].by = "ai" /\ chat = "human")

Pick(w, m) ==
  /\ worker[w] = Idle
  /\ reply[m].status = "queued"
  /\ worker' = [worker EXCEPT ![w] = [Idle EXCEPT !.at = "picked", !.msg = m]]
  /\ UNCHANGED <<turnVars, convVars, reply, given, outages, on, staff>>

\* The connection is off: written over whatever became of the reply meanwhile.
SkipOff(w) ==
  /\ worker[w].at = "picked" /\ ~on
  /\ reply' = [reply EXCEPT ![worker[w].msg].status = "skipped"]
  /\ Ends(w)
  /\ UNCHANGED <<turnVars, convVars, given, outages, on, staff>>

Claim(w) ==
  LET m == worker[w].msg IN
  /\ worker[w].at = "picked" /\ on
  /\ ~Locked
  /\ IF reply[m].status # "queued" THEN UNCHANGED reply
     ELSE reply' = [reply EXCEPT ![m].status = IF Blocked(m) THEN "skipped" ELSE "processing"]
  /\ IF reply[m].status = "queued" /\ ~Blocked(m) THEN Goes(w, "claimed") ELSE Ends(w)
  /\ UNCHANGED <<turnVars, convVars, given, outages, on, staff>>

FitsWhenClaimed(m) == reply[m].fits # {}                          \* mutant of Fits
Fits(m) == newest \in reply[m].fits

Recheck(w) ==
  LET m == worker[w].msg IN
  /\ worker[w].at = "claimed"
  /\ ~Locked
  /\ IF Blocked(m) \/ ~Fits(m) \/ ~on
       THEN reply' = [reply EXCEPT ![m].status = "skipped"] /\ Ends(w)
       ELSE Goes(w, "calling") /\ UNCHANGED reply
  /\ UNCHANGED <<turnVars, convVars, given, outages, on, staff>>

Given(w, got) == given' = [given EXCEPT ![worker[w].msg] = @ + IF got THEN 1 ELSE 0]

Sent(w) ==
  /\ worker[w].at = "calling"
  /\ reply' = [reply EXCEPT ![worker[w].msg].status = "sent"]
  /\ Ends(w) /\ Given(w, TRUE)
  /\ UNCHANGED <<turnVars, convVars, outages, on, staff>>

\* got: a call can fail or time out after WhatsApp has the message.
Rejected(w, got) ==
  /\ worker[w].at = "calling"
  /\ reply' = [reply EXCEPT ![worker[w].msg].status = "failed"]
  /\ Ends(w) /\ Given(w, got) /\ HandsOff
  /\ UNCHANGED <<turnVars, newest, outages, on, staff>>

SendDies(w, got) ==
  /\ worker[w].at \in SendAt
  /\ got => worker[w].at = "calling"
  /\ Ends(w) /\ Given(w, got)
  /\ UNCHANGED <<turnVars, convVars, reply, outages, on, staff>>

----------------------------------------------------------------------------
(* sweep_pi: what nobody has touched for five minutes, longer than a job   *)
(* lasts, is given up and, if the connection is on, handed to a person.    *)

ToPerson == IF on THEN ~Locked /\ HandsOff ELSE UNCHANGED chat

BeyondLast(m) == Waiting(m) /\ event[m].attempts > MaxAttempts    \* mutant of Exhausted
Exhausted(m) == event[m].status \in {"received", "queued"} /\ event[m].attempts >= MaxAttempts
ExpireTurn(m) ==
  /\ Exhausted(m)
  /\ \A w \in Workers : On(w, m) => worker[w].at \notin TurnAt
  /\ event' = [event EXCEPT ![m].status = "failed"]
  /\ ToPerson
  /\ UNCHANGED <<inbound, rows, newest, run, reply, worker, given, outages, on, staff>>

KeptClaim(m) == reply                                             \* mutant of Unconfirmed
SentAgain(m) == [reply EXCEPT ![m].status = "queued"]             \* mutant of Unconfirmed
Unconfirmed(m) == [reply EXCEPT ![m].status = "failed"]
ExpireReply(m) ==
  /\ reply[m].status = "processing"
  /\ \A w \in Workers : On(w, m) => worker[w].at \in TurnAt
  /\ reply' = Unconfirmed(m)
  /\ ToPerson
  /\ UNCHANGED <<turnVars, newest, worker, given, outages, on, staff>>

Parked(m) == inbound[m].status = "skipped" /\ inbound[m].code = "outage"

\* settle: an answer went out after it, or a later message was processed.
Settled(m) ==
  \/ \E n \in Messages : /\ reply[n].status \notin {"none", "failed"} /\ reply[n].by = "ai"
                          /\ Precedes(In(m), Out(n))
  \/ \E n \in Messages : inbound[n].status = "processed" /\ Precedes(In(m), In(n))

\* outage.sweep: parked messages are settled, dropped with the chat or after a
\* day, or, when the back-off is over, the newest of them is run again if no
\* other message is in a turn.  Nobody asks whether the connection is on.
Replayable(m) ==
  /\ Parked(m) /\ ~Settled(m)
  /\ \A n \in Messages : Parked(n) /\ ~Settled(n) => ~Precedes(In(m), In(n))
  /\ \A n \in Messages : inbound[n].status # "received"

AttemptsOnly(m) == [event[m] EXCEPT !.attempts = 0]               \* mutant of RunAgain
RunAgain(m) == [status |-> "received", attempts |-> 0]

OutageSweep(age) ==
  LET gone == chat # "ai" \/ age = "late"
      again == {m \in Messages : Replayable(m) /\ ~gone /\ age = "due"}
      ends(m) == IF ~Parked(m) THEN inbound[m]
                 ELSE IF Settled(m) THEN [inbound[m] EXCEPT !.code = "answered"]
                 ELSE IF gone THEN [inbound[m] EXCEPT !.code = "dropped"]
                 ELSE IF m \in again THEN [status |-> "received", code |-> ""]
                 ELSE inbound[m] IN
  /\ \E m \in Messages : Parked(m)
  /\ \A m \in again : EventFree(m)
  /\ inbound' = [m \in Messages |-> ends(m)]
  /\ event' = [m \in Messages |-> IF m \in again THEN RunAgain(m) ELSE event[m]]
  /\ run' = run \ again
  /\ UNCHANGED <<rows, convVars, reply, worker, given, outages, on, staff>>

----------------------------------------------------------------------------
(* Staff (service.py mode, routes.py replay_event).                        *)

StaffActs ==
  /\ staff < MaxStaff
  /\ staff' = staff + 1
  /\ UNCHANGED <<inbound, rows, newest, run, reply, worker, given, outages>>

ChangeChat(to) ==
  /\ ~Locked
  /\ chat # to /\ chat # "closed"
  /\ chat' = to
  /\ StaffActs /\ UNCHANGED <<event, on>>

ReplayEvent(m) ==
  /\ event[m].status \in {"failed", "received", "queued"}
  /\ EventFree(m)
  /\ event' = [event EXCEPT ![m] = [status |-> "queued", attempts |-> 0]]
  /\ StaffActs /\ UNCHANGED <<chat, on>>

\* The connection, its integration, the tenant or the product.
Switch ==
  /\ on' = ~on
  /\ StaffActs /\ UNCHANGED <<event, chat>>

----------------------------------------------------------------------------
Turn(w) ==
  \/ Persist(w) \/ OtherChat(w) \/ Ignore(w) \/ Leave(w) \/ Coalesce(w) \/ Dismiss(w) \/ Limit(w)
  \/ ReadChat(w)
  \/ RefuseDraft(w) \/ AlreadyRun(w) \/ Park(w) \/ HandOff(w)
  \/ \E by \in {"ai", "system"} : Answer(w, by)

Send(w) == SkipOff(w) \/ Claim(w) \/ Recheck(w) \/ Sent(w) \/ \E got \in BOOLEAN : Rejected(w, got)

Staff ==
  \/ \E to \in {"ai", "human", "closed"} : ChangeChat(to)
  \/ \E m \in Messages : ReplayEvent(m)
  \/ Switch

PiNext ==
  \/ \E m \in Messages : Receive(m) \/ ExpireTurn(m) \/ ExpireReply(m)
  \/ \E w \in Workers :
       \/ Turn(w) \/ TurnDies(w) \/ Send(w) \/ \E got \in BOOLEAN : SendDies(w, got)
       \/ \E m \in Messages : Open(w, m) \/ Pick(w, m)
  \/ (\E age \in {"early", "due", "late"} : OutageSweep(age)) \/ Staff

PiSpec == PiInit /\ [][PiNext]_piVars

(* Jobs that are due start, jobs go on or die, the sweeps run; and jobs do *)
(* not die in their first transaction for ever, which counts no attempt.   *)
PiFairness ==
  /\ WF_piVars(\E w \in Workers, m \in Messages : Open(w, m) \/ Pick(w, m))
  /\ WF_piVars(\E w \in Workers : Turn(w) \/ Send(w))
  /\ WF_piVars(\E m \in Messages : ExpireTurn(m) \/ ExpireReply(m))
  /\ WF_piVars(OutageSweep("due"))
  /\ SF_piVars(\E w \in Workers : Persist(w) \/ OtherChat(w) \/ Ignore(w))
FairPiSpec == PiSpec /\ PiFairness

----------------------------------------------------------------------------
(* Every row and every process has a value of its kind.                    *)
PiTypeOK ==
  /\ event \in [Messages -> [status : {"none", "received", "queued", "processed", "failed", "ignored"},
                             attempts : 0..MaxAttempts]]
  /\ inbound \in [Messages -> [status : {"none", "received", "skipped", "processed"},
                               code : {"", "burst", "dismissed", "limited", "loop", "outage",
                                       "answered", "dropped"}]]
  /\ rows \in Seq([kind : {"in", "out"}, of : Messages])
  /\ newest \in Messages \cup {NoMessage}
  /\ chat \in {"ai", "human", "closed"} /\ on \in BOOLEAN
  /\ run \subseteq Messages
  /\ reply \in [Messages -> [status : {"none", "queued", "processing", "sent", "failed", "skipped"},
                             by : {"ai", "system"}, fits : SUBSET Messages,
                             covers : SUBSET Messages]]
  /\ worker \in [Workers -> [at : {"idle", "picked"} \cup TurnAt \cup SendAt,
                             msg : Messages \cup {NoMessage}, seen : Messages \cup {NoMessage},
                             burst : SUBSET Messages, capped : BOOLEAN]]
  /\ given \in [Messages -> Nat]
  /\ outages \in 0..MaxOutages /\ staff \in 0..MaxStaff

(* A turn is over for both rows or for none, although several runs of one  *)
(* event write them without reading them again: a message is answered or   *)
(* set aside exactly when its event is processed, so the event of one that *)
(* waits can be run again and nothing done is run twice.  (The message of  *)
(* another chat is not here.  An event that is ignored leaves its message  *)
(* as it was, which HeldIsAnswered is about.)                              *)
DoneTogether ==
  \A m \in Messages :
    LET over == inbound[m].status \in {"processed", "skipped"} IN
    /\ event[m].status = "processed" => over \/ (inbound[m].status = "none" /\ chat = "closed")
    /\ over => event[m].status = "processed"

(* What the customer said is answered once: two replies that reached       *)
(* WhatsApp never cover the same message, whatever was set aside, parked   *)
(* and run again.                                                          *)
AnsweredOnce ==
  \A m, n \in Messages :
    given[m] > 0 /\ given[n] > 0 /\ reply[m].covers \cap reply[n].covers # {} => m = n

(* The detailed pipeline keeps the promise.  A reply is ready while it may *)
(* still be handed over, also where a job that found the connection off    *)
(* has written "skipped" over the claim of another.                        *)
InHand(m) == \E w \in Workers : worker[w].at \in SendAt /\ On(w, m)
PromisedReply(m) ==
  [state |-> CASE given[m] > 1 -> "given twice"
               [] given[m] = 1 -> "given"
               [] given[m] = 0 /\ reply[m].status = "none" -> "none"
               [] given[m] = 0 /\ (reply[m].status \in {"queued", "processing"} \/ InHand(m)) -> "ready"
               [] OTHER -> "withdrawn",
   by |-> reply[m].by, fits |-> reply[m].fits]
Promise == INSTANCE PiPromise WITH reply <- [m \in Messages |-> PromisedReply(m)]
PromiseKept == Promise!Spec

(* Every message that was stored and whose event is due leaves "received", *)
(* or the event is given up: as failed, which brings a person in if the    *)
(* connection is on, or as ignored, which only a connection that is off    *)
(* can do; however often its turn is interrupted.                          *)
EveryTurnEnds ==
  \A m \in Messages :
    inbound[m].status = "received" /\ event[m].status \in {"received", "queued"}
      ~> \/ inbound[m].status # "received"
         \/ event[m].status = "failed" /\ (chat # "ai" \/ ~on)
         \/ event[m].status = "ignored" /\ ~on

(* A reply that was queued is handed over, withdrawn or given up.          *)
EveryReplyEnds ==
  \A m \in Messages :
    reply[m].status = "queued" ~> reply[m].status \in {"sent", "skipped", "failed"}

(* "the newer message answers them all, once" (runtime.py:1556-1557): a    *)
(* message set aside for a newer one is covered by a reply, unless no      *)
(* reply has been written since.                                           *)
NewerAnswersThemAll ==
  \A m \in Messages :
    inbound[m].code = "burst" /\ (\E n \in Messages : reply[n].status # "none" /\ Precedes(In(m), Out(n)))
      => \E k \in Messages : m \in reply[k].covers

(* "never silent after a holding message | the sweeper runs this every 30  *)
(* s until answered" (outage.py:10): when the connection is on again and   *)
(* stays on, a message held during an outage is answered, set aside for    *)
(* another reason, or its event fails and a person is called.              *)
HeldIsAnswered ==
  <>[]on => \A m \in Messages :
    Parked(m) ~> \/ inbound[m].status = "processed"
                 \/ inbound[m].status = "skipped" /\ inbound[m].code # "outage"
                 \/ event[m].status = "failed"
=============================================================================
