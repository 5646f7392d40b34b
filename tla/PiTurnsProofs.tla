---------------------------- MODULE PiTurnsProofs ----------------------------
(***************************************************************************)
(* The turns of the assistant keep the promise of PiPromise, and what a    *)
(* turn was asked is settled when its event is: for any messages and       *)
(* workers, any bound of the attempts, and any number of outages and acts  *)
(* of staff.  Nothing is answered twice, and no answer comes late.         *)
(***************************************************************************)
EXTENDS PiTurns, SequenceTheorems, TLAPS

(* Kinds of values.  The order of the messages (rows) comes in AnswerInv.  *)
EventRow == [status : {"none", "received", "queued", "processed", "failed", "ignored"}, attempts : Nat]
Codes == {"", "burst", "dismissed", "limited", "loop", "outage", "answered", "dropped"}
InboundRow == [status : {"none", "received", "skipped", "processed"}, code : Codes]
ReplyRow == [status : {"none", "queued", "processing", "sent", "failed", "skipped"},
             by : {"ai", "system"}, fits : SUBSET (Messages \cup {NoMessage}), covers : SUBSET Messages]
WorkerRow == [at : {"idle", "picked"} \cup TurnAt \cup SendAt, msg : Messages \cup {NoMessage},
              seen : Messages \cup {NoMessage}, burst : SUBSET Messages, capped : BOOLEAN]
Shapes ==
  /\ event \in [Messages -> EventRow] /\ inbound \in [Messages -> InboundRow]
  /\ reply \in [Messages -> ReplyRow] /\ worker \in [Workers -> WorkerRow]
  /\ given \in [Messages -> {0, 1}]
  /\ newest \in Messages \cup {NoMessage} /\ chat \in {"ai", "human", "closed"}

(* A reply is in the hands of one worker, which took it when nothing had   *)
(* been given of it, and a job that finds the connection off can only      *)
(* write "skipped" over the claim; a call is made by one worker at a time, *)
(* and the chat it was checked against stays as it was.                    *)
Picks(w) == worker[w].at = "picked"
Sends(w) == worker[w].at \in SendAt
Calls(w) == worker[w].at = "calling"
Handing ==
  /\ \A w \in Workers : Sends(w) =>
       /\ worker[w].msg \in Messages
       /\ reply[worker[w].msg].status \in {"processing", "skipped"} /\ given[worker[w].msg] = 0
  /\ \A w \in Workers : Picks(w) => worker[w].msg \in Messages /\ reply[worker[w].msg].status # "none"
  /\ \A v, w \in Workers : Sends(v) /\ Sends(w) /\ worker[v].msg = worker[w].msg => v = w
  /\ \A v, w \in Workers : Calls(v) /\ Calls(w) => v = w
  /\ \A w \in Workers : Calls(w) => Fits(worker[w].msg) /\ ~Blocked(worker[w].msg)
  /\ \A m \in Messages : reply[m].status \in {"none", "queued"} => given[m] = 0

(* Who opens an event has it alone, and the event is not over; whoever is  *)
(* further has a message that was stored.                                  *)
Opens(w) == worker[w].at = "opening"
Thinks(w) == worker[w].at \in {"refused", "thinking", "writing"}
Turning ==
  /\ \A w \in Workers : worker[w].at # "repeat"
  /\ \A w \in Workers : Opens(w) =>
       worker[w].msg \in Messages /\ event[worker[w].msg].status \in {"received", "queued"}
  /\ \A v, w \in Workers : Opens(v) /\ Opens(w) /\ worker[v].msg = worker[w].msg => v = w
  /\ \A w \in Workers : Thinks(w) =>
       worker[w].msg \in Messages /\ inbound[worker[w].msg].status # "none"

(* An event is processed just when its message is over; one that has a run *)
(* is.  An event that is ignored says nothing of its message.              *)
Over(m) == inbound[m].status \in {"processed", "skipped"}
Together ==
  /\ \A m \in Messages : event[m].status # "processed" => ~Over(m)
  /\ \A m \in Messages : event[m].status = "none" => inbound[m].status = "none"
  /\ \A m \in Messages : m \in run => Over(m)
  /\ DoneTogether

PiInv == Shapes /\ Handing /\ Turning /\ Together

----------------------------------------------------------------------------
(* Steps of the promise.                                                   *)
Promised == [m \in Messages |-> PromisedReply(m)]

LEMMA StateOf ==
  ASSUME PiInv, NEW m \in Messages
  PROVE  PromisedReply(m) =
           [state |-> IF given[m] = 1 THEN "given"
                      ELSE IF reply[m].status = "none" THEN "none"
                      ELSE IF reply[m].status \in {"queued", "processing"} \/ InHand(m) THEN "ready"
                      ELSE "withdrawn",
            by |-> reply[m].by, fits |-> reply[m].fits]
  <1>1. given[m] \in {0, 1} /\ (InHand(m) => reply[m].status # "none")
    BY DEF PiInv, Shapes, Handing, InHand, Sends, On
  <1>2. CASE given[m] = 1
    BY <1>2 DEF PromisedReply
  <1>3. CASE given[m] = 0
    BY <1>1, <1>3 DEF PromisedReply
  <1>4. QED
    BY <1>1, <1>2, <1>3

LEMMA Stutters ==
  ASSUME UNCHANGED <<newest, chat>>, \A m \in Messages : PromisedReply(m)' = PromisedReply(m)
  PROVE  UNCHANGED Promise!promiseVars
  BY DEF Promise!promiseVars

LEMMA HandsOver ==
  ASSUME UNCHANGED newest, \A m \in Messages : PromisedReply(m)' = PromisedReply(m),
         chat # "closed", chat' \in {"ai", "human", "closed"}
  PROVE  Promise!Next
  BY DEF Promise!Next, Promise!HandOver

LEMMA Hears ==
  ASSUME UNCHANGED chat, \A m \in Messages : PromisedReply(m)' = PromisedReply(m),
         NEW m \in Messages, newest' = m
  PROVE  Promise!Next
  BY DEF Promise!Next, Promise!Hear

LEMMA Becomes ==
  ASSUME NEW m \in Messages, NEW state,
         PromisedReply(m)' = [PromisedReply(m) EXCEPT !.state = state],
         \A n \in Messages : n # m => PromisedReply(n)' = PromisedReply(n)
  PROVE  Promised' = [Promised EXCEPT ![m].state = state]
  BY DEF Promised

LEMMA Withdraws ==
  ASSUME NEW m \in Messages, UNCHANGED newest, PromisedReply(m).state = "ready",
         PromisedReply(m)' = [PromisedReply(m) EXCEPT !.state = "withdrawn"],
         \A n \in Messages : n # m => PromisedReply(n)' = PromisedReply(n),
         chat' = chat \/ (chat = "ai" /\ chat' = "human")
  PROVE  Promise!Next
  <1>1. Promised' = [Promised EXCEPT ![m].state = "withdrawn"]
    BY Becomes
  <1>2. Promise!Withdraw(m)
    BY <1>1 DEF Promise!Withdraw, Promise!PersonMayStep, Promised
  <1>3. QED
    BY <1>2 DEF Promise!Next

LEMMA Gives ==
  ASSUME NEW m \in Messages, UNCHANGED newest, PromisedReply(m).state = "ready",
         PromisedReply(m)' = [PromisedReply(m) EXCEPT !.state = "given"],
         newest \in PromisedReply(m).fits, chat = "ai" \/ (chat = "human" /\ PromisedReply(m).by = "system"),
         \A n \in Messages : n # m => PromisedReply(n)' = PromisedReply(n),
         chat' = chat \/ (chat = "ai" /\ chat' = "human")
  PROVE  Promise!Next
  <1>1. Promised' = [Promised EXCEPT ![m].state = "given"]
    BY Becomes
  <1>2. Promise!Give(m)
    BY <1>1 DEF Promise!Give, Promise!PersonMayStep, Promised
  <1>3. QED
    BY <1>2 DEF Promise!Next

LEMMA Prepares ==
  ASSUME NEW m \in Messages, NEW by \in {"ai", "system"}, NEW fits \in SUBSET {newest},
         UNCHANGED newest, PromisedReply(m).state = "none", chat = "ai",
         PromisedReply(m)' = [state |-> "ready", by |-> by, fits |-> fits],
         \A n \in Messages : n # m => PromisedReply(n)' = PromisedReply(n),
         chat' = IF by = "system" THEN "human" ELSE chat
  PROVE  Promise!Next
  <1>1. Promised' = [Promised EXCEPT ![m] = [state |-> "ready", by |-> by, fits |-> fits]]
    BY DEF Promised
  <1>2. Promise!Prepare(m, by, fits)
    BY <1>1 DEF Promise!Prepare, Promised
  <1>3. QED
    BY <1>2 DEF Promise!Next

LEMMA InitHolds == PiInit => PiInv /\ Promise!Init
  <1> SUFFICES ASSUME PiInit PROVE PiInv /\ Promise!Init
    OBVIOUS
  <1>1. /\ \A m \in Messages : event[m].status = "none" /\ inbound[m].status = "none" /\ given[m] = 0
        /\ \A m \in Messages : reply[m] = NoReply
        /\ \A w \in Workers : worker[w] = Idle
        /\ run = {} /\ chat = "ai" /\ newest = NoMessage
    BY DEF PiInit
  <1>2. Shapes
    <2>1. [status |-> "none", attempts |-> 0] \in EventRow /\ [status |-> "none", code |-> ""] \in InboundRow
      BY DEF EventRow, InboundRow, Codes
    <2>2. NoReply \in ReplyRow /\ Idle \in WorkerRow
      BY DEF NoReply, ReplyRow, Idle, WorkerRow
    <2>3. QED
      BY <2>1, <2>2 DEF PiInit, Shapes
  <1>3. Handing
    BY <1>1 DEF Handing, Picks, Sends, Calls, SendAt, Idle
  <1>4. Turning
    BY <1>1 DEF Turning, Opens, Thinks, Idle
  <1>5. Together
    BY <1>1 DEF Together, Over, DoneTogether
  <1>6. PiInv
    BY <1>2, <1>3, <1>4, <1>5 DEF PiInv
  <1>7. \A m \in Messages : PromisedReply(m) = Promise!NoReply
    <2> SUFFICES ASSUME NEW m \in Messages PROVE PromisedReply(m) = Promise!NoReply
      OBVIOUS
    <2>1. given[m] = 0 /\ reply[m] = NoReply
      BY <1>1
    <2>2. NoReply.status = "none" /\ NoReply.by = "ai" /\ NoReply.fits = {}
      BY DEF NoReply
    <2>3. PromisedReply(m) = [state |-> "none", by |-> "ai", fits |-> {}]
      BY <1>6, <2>1, <2>2, StateOf
    <2>4. QED
      BY <2>3 DEF Promise!NoReply
  <1>8. Promise!Init
    BY <1>1, <1>7 DEF Promise!Init
  <1>9. QED
    BY <1>6, <1>8

----------------------------------------------------------------------------
(* What a step leaves alone.                                               *)
Kept == PiInv' /\ [Promise!Next]_Promise!promiseVars
OneWorker(w) == \A v \in Workers : v # w => worker'[v] = worker[v]
ChatMay == chat' = chat \/ (~Locked /\ chat # "closed" /\ chat' \in {"ai", "human", "closed"})

SameHands == \A m \in Messages : InHand(m)' <=> InHand(m)

LEMMA HandsStay ==
  ASSUME NEW w \in Workers, OneWorker(w), ~Sends(w), ~Sends(w)'
  PROVE  SameHands
  BY DEF SameHands, InHand, OneWorker, Sends, On

LEMMA QuietRefines ==
  ASSUME UNCHANGED <<reply, given, newest>>, SameHands, ChatMay
  PROVE  [Promise!Next]_Promise!promiseVars
  <1>1. \A m \in Messages : PromisedReply(m)' = PromisedReply(m)
    BY DEF PromisedReply, SameHands
  <1>2. CASE chat' = chat
    BY <1>1, <1>2, Stutters
  <1>3. CASE chat # "closed" /\ chat' \in {"ai", "human", "closed"}
    BY <1>1, <1>3, HandsOver
  <1>4. QED
    BY <1>2, <1>3 DEF ChatMay

\* The chat does not change under a worker that calls.
LEMMA TurnKeepsHands ==
  ASSUME PiInv, NEW w \in Workers, ~Sends(w), ~Sends(w)', ~Picks(w)', OneWorker(w), UNCHANGED given,
         Locked => UNCHANGED <<newest, chat>>,
         \A m \in Messages : reply'[m] = reply[m] \/ (reply[m].status = "none" /\ reply'[m].status = "queued")
  PROVE  Handing'
  <1>1. \A v \in Workers : Sends(v)' => v # w /\ Sends(v) /\ worker'[v] = worker[v]
    BY DEF OneWorker, Sends
  <1>2. \A v \in Workers : Calls(v)' => v # w /\ Calls(v) /\ Sends(v) /\ worker'[v] = worker[v] /\ Locked
    BY DEF OneWorker, Sends, Calls, SendAt, Locked
  <1>3. \A v \in Workers : Sends(v) => worker[v].msg \in Messages /\ reply'[worker[v].msg] = reply[worker[v].msg]
    BY DEF PiInv, Handing
  <1>4. \A v \in Workers : Sends(v)' =>
          /\ worker'[v].msg \in Messages
          /\ reply'[worker'[v].msg].status \in {"processing", "skipped"} /\ given'[worker'[v].msg] = 0
    BY <1>1, <1>3 DEF PiInv, Handing
  <1>5. \A u, v \in Workers : Sends(u)' /\ Sends(v)' /\ worker'[u].msg = worker'[v].msg => u = v
    BY <1>1 DEF PiInv, Handing
  <1>6. \A u, v \in Workers : Calls(u)' /\ Calls(v)' => u = v
    BY <1>2 DEF PiInv, Handing
  <1>7. \A v \in Workers : Calls(v)' => Fits(worker[v].msg)' /\ ~Blocked(worker[v].msg)'
    BY <1>2, <1>3 DEF PiInv, Handing, Fits, Blocked
  <1>8. \A m \in Messages : reply'[m].status \in {"none", "queued"} => given'[m] = 0
    BY DEF PiInv, Handing
  <1>9. \A v \in Workers : Picks(v)' => worker'[v].msg \in Messages /\ reply'[worker'[v].msg].status # "none"
    BY DEF PiInv, Handing, Picks, OneWorker
  <1>10. QED
    BY <1>2, <1>4, <1>5, <1>6, <1>7, <1>8, <1>9 DEF Handing, Fits, Blocked

LEMMA SendKeepsTurns ==
  ASSUME PiInv, UNCHANGED <<event, inbound, run>>, chat = "closed" => chat' = "closed",
         \A v \in Workers : worker'[v] = worker[v] \/ worker'[v].at \notin TurnAt
  PROVE  Turning' /\ Together'
  <1>1. Turning'
    BY DEF PiInv, Turning, Opens, Thinks, TurnAt
  <1>2. Together'
    BY DEF PiInv, Together, Over, DoneTogether
  <1>3. QED
    BY <1>1, <1>2

\* Events and the chat, without the workers.
LEMMA EventsKeep ==
  ASSUME PiInv, UNCHANGED <<inbound, run, reply, worker, given, newest>>, ChatMay,
         event' \in [Messages -> EventRow],
         \A m \in Messages :
           \/ event'[m] = event[m]
           \/ /\ event[m].status # "processed" /\ event'[m].status \in {"received", "queued", "failed"}
              /\ \A w \in Workers : Opens(w) /\ On(w, m) => event'[m].status # "failed"
  PROVE  Kept
  <1>1. Shapes'
    BY DEF PiInv, Shapes, ChatMay
  <1>2. Handing' /\ SameHands
    BY DEF PiInv, Handing, ChatMay, Locked, Picks, Sends, Calls, Fits, Blocked, SameHands, InHand, On
  <1>3. Turning'
    BY DEF PiInv, Turning, Opens, Thinks, On
  <1>4. Together'
    BY DEF PiInv, Together, Over, DoneTogether, ChatMay
  <1>5. QED
    BY <1>1, <1>2, <1>3, <1>4, QuietRefines DEF Kept, PiInv

LEMMA ReceiptsKeep ==
  ASSUME PiInv, NEW m \in Messages, Receive(m) \/ ReplayEvent(m) \/ ExpireTurn(m)
  PROVE  Kept
  <1>1. event[m] \in EventRow /\ event \in [Messages -> EventRow] /\ chat \in {"ai", "human", "closed"}
    BY DEF PiInv, Shapes
  <1>2. CASE Receive(m)
    <2>1. event' \in [Messages -> EventRow] /\ event'[m].status = "received"
          /\ \A n \in Messages : n # m => event'[n] = event[n]
      BY <1>1, <1>2 DEF Receive, EventRow
    <2>2. QED
      BY <1>2, <2>1, EventsKeep DEF Receive, convVars, ChatMay
  <1>3. CASE ReplayEvent(m)
    <2>1. event' \in [Messages -> EventRow] /\ event'[m].status = "queued"
          /\ \A n \in Messages : n # m => event'[n] = event[n]
      BY <1>1, <1>3 DEF ReplayEvent, EventRow
    <2>2. QED
      BY <1>3, <2>1, EventsKeep DEF ReplayEvent, StaffActs, ChatMay
  <1>4. CASE ExpireTurn(m)
    <2>1. event' \in [Messages -> EventRow] /\ event'[m].status = "failed"
          /\ \A n \in Messages : n # m => event'[n] = event[n]
      BY <1>1, <1>4 DEF ExpireTurn, EventRow
    <2>2. ChatMay
      BY <1>1, <1>4 DEF ExpireTurn, ToPerson, HandsOff, ChatMay
    <2>3. event[m].status # "processed" /\ \A w \in Workers : Opens(w) => ~On(w, m)
      BY <1>4 DEF ExpireTurn, Exhausted, Opens, TurnAt
    <2>4. QED
      BY <1>4, <2>1, <2>2, <2>3, EventsKeep DEF ExpireTurn
  <1>5. QED
    BY <1>2, <1>3, <1>4

LEMMA ChangeChatKeeps ==
  ASSUME PiInv, NEW to \in {"ai", "human", "closed"}, ChangeChat(to) \/ Switch
  PROVE  Kept
  <1>1. event' \in [Messages -> EventRow] /\ event' = event
    BY DEF ChangeChat, Switch, PiInv, Shapes
  <1>2. ChatMay
    BY DEF ChangeChat, Switch, ChatMay
  <1>3. QED
    BY <1>1, <1>2, EventsKeep DEF ChangeChat, Switch, StaffActs

----------------------------------------------------------------------------
(* The turns.                                                              *)
LEMMA WorkerMoves ==
  ASSUME PiInv, NEW w \in Workers, NEW row \in WorkerRow, worker' = [worker EXCEPT ![w] = row]
  PROVE  worker' \in [Workers -> WorkerRow] /\ worker'[w] = row /\ OneWorker(w)
  BY DEF PiInv, Shapes, OneWorker

LEMMA IdleRow == Idle \in WorkerRow /\ Idle.at = "idle"
  BY DEF Idle, WorkerRow

\* A turn ends with its event.
LEMMA ClosingKeeps ==
  ASSUME PiInv, NEW w \in Workers, Thinks(w), EventDone(worker[w].msg), Ends(w),
         inbound' \in [Messages -> InboundRow],
         inbound'[worker[w].msg].status \in {"processed", "skipped"},
         \A n \in Messages : n # worker[w].msg => inbound'[n] = inbound[n],
         run' \subseteq run \cup {worker[w].msg}, ChatMay
  PROVE  /\ Turning' /\ Together' /\ event' \in [Messages -> EventRow] /\ worker' \in [Workers -> WorkerRow]
         /\ ~Sends(w) /\ ~Sends(w)' /\ ~Picks(w)' /\ OneWorker(w)
  <1> DEFINE m == worker[w].msg
  <1>1. m \in Messages /\ event \in [Messages -> EventRow] /\ worker[w].at \in TurnAt /\ event[m] \in EventRow
    BY DEF PiInv, Turning, Shapes, Thinks, TurnAt
  <1>2. worker' \in [Workers -> WorkerRow] /\ worker'[w] = Idle /\ OneWorker(w)
    BY WorkerMoves, IdleRow DEF Ends
  <1>3. event' \in [Messages -> EventRow] /\ event'[m].status = "processed"
        /\ \A n \in Messages : n # m => event'[n] = event[n]
    BY <1>1 DEF EventDone, EventRow
  <1>4. \A v \in Workers : worker[v].msg = m => ~Opens(v)
    BY DEF EventDone, EventFree, On, Opens
  <1>5. Turning'
    <2>1. \A v \in Workers : Opens(v)' => v # w /\ Opens(v) /\ worker'[v] = worker[v] /\ worker[v].msg # m
      BY <1>2, <1>4, IdleRow DEF Opens, OneWorker
    <2>2. \A v \in Workers : Thinks(v)' => v # w /\ Thinks(v) /\ worker'[v] = worker[v]
      BY <1>2, IdleRow DEF Thinks, OneWorker
    <2>3. \A v \in Workers : worker'[v].at # "repeat"
      BY <1>2, IdleRow DEF OneWorker, PiInv, Turning
    <2>4. \A v \in Workers : Opens(v)' =>
            worker'[v].msg \in Messages /\ event'[worker'[v].msg].status \in {"received", "queued"}
      BY <1>3, <2>1 DEF PiInv, Turning
    <2>5. \A u, v \in Workers : Opens(u)' /\ Opens(v)' /\ worker'[u].msg = worker'[v].msg => u = v
      BY <2>1 DEF PiInv, Turning
    <2>6. \A n \in Messages : inbound[n].status # "none" => inbound'[n].status # "none"
      OBVIOUS
    <2>7. \A v \in Workers : Thinks(v)' => worker'[v].msg \in Messages /\ inbound'[worker'[v].msg].status # "none"
      BY <2>2, <2>6 DEF PiInv, Turning
    <2>8. QED
      BY <2>3, <2>4, <2>5, <2>7 DEF Turning
  <1>6. Together'
    <2>1. chat = "closed" => chat' = "closed"
      BY DEF ChatMay
    <2>2. DoneTogether'
      BY <1>3, <2>1 DEF PiInv, Together, DoneTogether, Over
    <2>3. \A n \in Messages : event'[n].status # "processed" => n # m /\ event'[n] = event[n] /\ inbound'[n] = inbound[n]
      BY <1>3
    <2>4. \A n \in Messages : n \in run' => Over(n)'
      BY DEF PiInv, Together, Over
    <2>5. QED
      BY <1>3, <2>2, <2>3, <2>4 DEF PiInv, Together, Over
  <1>7. ~Sends(w) /\ ~Sends(w)' /\ ~Picks(w)'
    BY <1>1, <1>2, IdleRow DEF Picks, Sends, SendAt, TurnAt
  <1>8. QED
    BY <1>2, <1>3, <1>5, <1>6, <1>7

LEMMA EndsQuietly ==
  ASSUME PiInv, NEW w \in Workers, Thinks(w), EventDone(worker[w].msg), Ends(w),
         inbound' \in [Messages -> InboundRow],
         inbound'[worker[w].msg].status \in {"processed", "skipped"},
         \A n \in Messages : n # worker[w].msg => inbound'[n] = inbound[n],
         run' \subseteq run \cup {worker[w].msg}, ChatMay, UNCHANGED <<reply, given, newest>>
  PROVE  Kept
  <1>1. /\ Turning' /\ Together' /\ event' \in [Messages -> EventRow] /\ worker' \in [Workers -> WorkerRow]
        /\ ~Sends(w) /\ ~Sends(w)' /\ ~Picks(w)' /\ OneWorker(w)
    BY ClosingKeeps
  <1>2. Handing' /\ SameHands
    BY <1>1, TurnKeepsHands, HandsStay DEF ChatMay
  <1>3. Shapes'
    BY <1>1 DEF PiInv, Shapes, ChatMay
  <1>4. QED
    BY <1>1, <1>2, <1>3, QuietRefines DEF Kept, PiInv

\* Staff or a sweep never hand a chat back to the assistant.
LEMMA HandsOffMay == PiInv /\ HandsOff /\ ~Locked => ChatMay
  BY DEF PiInv, Shapes, HandsOff, ChatMay

LEMMA InboundSet ==
  ASSUME PiInv, NEW w \in Workers, Thinks(w), NEW status \in {"skipped", "processed"}, NEW code \in Codes,
         Closes(worker[w].msg, status, code)
  PROVE  /\ EventDone(worker[w].msg) /\ inbound' \in [Messages -> InboundRow]
         /\ inbound'[worker[w].msg].status \in {"processed", "skipped"}
         /\ \A n \in Messages : n # worker[w].msg => inbound'[n] = inbound[n]
  <1>1. worker[w].msg \in Messages /\ inbound \in [Messages -> InboundRow]
    BY DEF PiInv, Turning, Shapes
  <1>2. [status |-> status, code |-> code] \in InboundRow
    BY DEF InboundRow
  <1>3. QED
    BY <1>1, <1>2 DEF Closes

LEMMA LeaveKeeps ==
  ASSUME PiInv, NEW w \in Workers, Leave(w)
  PROVE  Kept
  <1>1. worker[w].at = "refused" /\ Thinks(w) /\ Closes(worker[w].msg, "skipped", "")
    BY DEF Leave, PiInv, Turning, Thinks
  <1>2. "" \in Codes
    BY DEF Codes
  <1>3. QED
    BY <1>1, <1>2, InboundSet, EndsQuietly DEF Leave, convVars, ChatMay

LEMMA SetAsideKeeps ==
  ASSUME PiInv, NEW w \in Workers, Thinks(w), NEW code \in Codes, SetAside(w, code), UNCHANGED newest, ChatMay
  PROVE  Kept
  BY InboundSet, EndsQuietly DEF SetAside

LEMMA AsideKeeps ==
  ASSUME PiInv, NEW w \in Workers, Coalesce(w) \/ Dismiss(w) \/ Limit(w)
  PROVE  Kept
  <1>1. Thinks(w)
    BY DEF Coalesce, Dismiss, Limit, Proceeds, Thinks
  <1>2. {"burst", "dismissed", "limited", "loop"} \subseteq Codes
    BY DEF Codes
  <1>3. UNCHANGED convVars => UNCHANGED newest /\ ChatMay
    BY DEF convVars, ChatMay
  <1>4. CASE Coalesce(w)
    BY <1>1, <1>2, <1>3, <1>4, SetAsideKeeps DEF Coalesce
  <1>5. CASE Dismiss(w)
    BY <1>1, <1>2, <1>3, <1>5, SetAsideKeeps DEF Dismiss
  <1>6. CASE Limit(w)
    BY <1>1, <1>2, <1>3, <1>6, SetAsideKeeps, HandsOffMay DEF Limit
  <1>7. QED
    BY <1>4, <1>5, <1>6

LEMMA FinishKeeps ==
  ASSUME PiInv, NEW w \in Workers, RefuseDraft(w) \/ AlreadyRun(w) \/ Park(w) \/ HandOff(w)
  PROVE  Kept
  <1>1. Thinks(w) /\ ~Locked /\ Ends(w) /\ worker[w].msg \in Messages
    BY DEF RefuseDraft, AlreadyRun, Park, HandOff, Runs, Finishing, Thinks, PiInv, Turning
  <1>2. {"burst", "", "outage"} \subseteq Codes
    BY DEF Codes
  <1>3. CASE RefuseDraft(w)
    <2> DEFINE code == IF chat = "ai" /\ newest # worker[w].seen THEN "burst" ELSE ""
    <2>1. code \in Codes /\ Closes(worker[w].msg, "skipped", code)
      BY <1>2, <1>3 DEF RefuseDraft
    <2> HIDE DEF code
    <2>2. UNCHANGED <<run, reply, given, newest>> /\ ChatMay
      BY <1>3 DEF RefuseDraft, convVars, ChatMay
    <2>3. QED
      BY <1>1, <2>1, <2>2, InboundSet, EndsQuietly
  <1>4. CASE AlreadyRun(w)
    <2>1. inbound' = inbound /\ inbound \in [Messages -> InboundRow] /\ Over(worker[w].msg)
      BY <1>1, <1>4 DEF AlreadyRun, PiInv, Together, Shapes
    <2>2. UNCHANGED <<run, reply, given, newest>> /\ ChatMay /\ EventDone(worker[w].msg)
      BY <1>4 DEF AlreadyRun, convVars, ChatMay
    <2>3. QED
      BY <1>1, <2>1, <2>2, EndsQuietly DEF Over
  <1>5. CASE Park(w)
    <2>1. Closes(worker[w].msg, "skipped", "outage") /\ run' = run \cup {worker[w].msg}
          /\ UNCHANGED <<reply, given, newest>> /\ ChatMay
      BY <1>5 DEF Park, Runs, ChatMay
    <2>2. QED
      BY <1>1, <1>2, <2>1, InboundSet, EndsQuietly
  <1>6. CASE HandOff(w)
    <2>1. Closes(worker[w].msg, "processed", "") /\ run' = run \cup {worker[w].msg}
          /\ UNCHANGED <<reply, given, newest>> /\ ChatMay
      BY <1>1, <1>6, HandsOffMay DEF HandOff, Runs
    <2>2. QED
      BY <1>1, <1>2, <2>1, InboundSet, EndsQuietly
  <1>7. QED
    BY <1>3, <1>4, <1>5, <1>6

LEMMA AnswerKeeps ==
  ASSUME PiInv, NEW w \in Workers, NEW by \in {"ai", "system"}, Answer(w, by)
  PROVE  Kept
  <1>0. PICK m \in Messages : m = worker[w].msg
    BY DEF Answer, Runs, Finishing, Thinks, PiInv, Turning
  <1>1. Thinks(w) /\ ~Locked /\ Ends(w) /\ chat = "ai"
    BY DEF Answer, Runs, Finishing, Fresh, Thinks, PiInv, Turning
  <1>2. /\ Closes(m, "processed", "") /\ run' = run \cup {m} /\ UNCHANGED <<given, newest>>
        /\ chat' = IF by = "system" THEN "human" ELSE chat
    BY <1>0, <1>1 DEF Answer, Runs, HandsOff
  <1>3. ChatMay /\ "" \in Codes
    BY <1>1, <1>2 DEF ChatMay, Codes
  <1>4. /\ EventDone(m) /\ inbound' \in [Messages -> InboundRow]
        /\ inbound'[m].status \in {"processed", "skipped"}
        /\ \A n \in Messages : n # m => inbound'[n] = inbound[n]
    BY <1>0, <1>1, <1>2, <1>3, InboundSet
  <1>5. CASE reply[m].status # "none"
    <2>1. UNCHANGED reply
      BY <1>0, <1>5 DEF Answer
    <2>2. QED
      BY <1>0, <1>1, <1>2, <1>3, <1>4, <2>1, EndsQuietly
  <1>6. CASE reply[m].status = "none"
    <2> DEFINE row == Draft(w, by)
    <2>1. /\ row \in ReplyRow /\ row.status = "queued" /\ row.by = by /\ row.fits \in SUBSET {newest}
      <3>1. worker[w].burst \subseteq Messages /\ newest \in Messages \cup {NoMessage}
        BY DEF PiInv, Shapes, WorkerRow
      <3>2. QED
        BY <1>0, <3>1 DEF Draft, ReplyRow
    <2>2. reply' = [reply EXCEPT ![m] = row] /\ reply \in [Messages -> ReplyRow]
      BY <1>0, <1>6 DEF Answer, PiInv, Shapes
    <2> HIDE DEF row
    <2>3. reply' \in [Messages -> ReplyRow] /\ reply'[m] = row /\ \A n \in Messages : n # m => reply'[n] = reply[n]
      BY <1>1, <2>1, <2>2
    <2>4. /\ Turning' /\ Together' /\ event' \in [Messages -> EventRow] /\ worker' \in [Workers -> WorkerRow]
          /\ ~Sends(w) /\ ~Sends(w)' /\ ~Picks(w)' /\ OneWorker(w)
      BY <1>0, <1>1, <1>2, <1>3, <1>4, ClosingKeeps
    <2>5. Handing' /\ SameHands
      BY <1>1, <1>2, <1>6, <2>1, <2>3, <2>4, TurnKeepsHands, HandsStay
    <2>6. Shapes'
      BY <1>2, <1>3, <1>4, <2>3, <2>4 DEF PiInv, Shapes, ChatMay
    <2>7. given[m] = 0 /\ given'[m] = 0
      BY <1>1, <1>2, <1>6 DEF PiInv, Handing
    <2>8. PiInv'
      BY <2>4, <2>5, <2>6 DEF PiInv
    <2>9. PromisedReply(m).state = "none"
      BY <1>1, <1>6, <2>7, StateOf
    <2>10. \A n \in Messages : n # m => PromisedReply(n)' = PromisedReply(n)
      BY <1>2, <2>3, <2>5 DEF PromisedReply, SameHands
    <2>11. PromisedReply(m)' = [state |-> "ready", by |-> by, fits |-> row.fits]
      <3>1. PromisedReply(m)' = [state |-> CASE given'[m] > 1 -> "given twice"
                                            [] given'[m] = 1 -> "given"
                                            [] given'[m] = 0 /\ reply'[m].status = "none" -> "none"
                                            [] given'[m] = 0 /\ (reply'[m].status \in {"queued", "processing"} \/ InHand(m)') -> "ready"
                                            [] OTHER -> "withdrawn",
                                 by |-> reply'[m].by, fits |-> reply'[m].fits]
        BY DEF PromisedReply
      <3>2. QED
        BY <2>1, <2>3, <2>7, <3>1
    <2>12. Promise!Next
      BY <1>1, <1>2, <2>1, <2>9, <2>10, <2>11, Prepares
    <2>13. QED
      BY <2>8, <2>12 DEF Kept
  <1>7. QED
    BY <1>5, <1>6

----------------------------------------------------------------------------
(* The beginning of a turn, its context, and its death.                    *)

\* A worker moves between the places of a turn.
LEMMA TurnMoves ==
  ASSUME PiInv, NEW w \in Workers, NEW row \in WorkerRow, worker' = [worker EXCEPT ![w] = row],
         ~Sends(w), row.at \notin SendAt \cup {"picked"}, UNCHANGED <<reply, given, chat>>,
         newest' \in Messages \cup {NoMessage}, Locked => UNCHANGED newest,
         event' \in [Messages -> EventRow], inbound' \in [Messages -> InboundRow],
         Turning', Together'
  PROVE  PiInv' /\ SameHands
  <1>1. worker' \in [Workers -> WorkerRow] /\ worker'[w] = row /\ OneWorker(w)
    BY WorkerMoves
  <1>2. ~Sends(w)' /\ ~Picks(w)'
    BY <1>1 DEF Picks, Sends
  <1>3. Handing' /\ SameHands
    BY <1>1, <1>2, TurnKeepsHands, HandsStay
  <1>4. Shapes'
    BY <1>1 DEF PiInv, Shapes
  <1>5. QED
    BY <1>3, <1>4 DEF PiInv

\* A worker that does not open an event, where events stay.
LEMMA TurningStays ==
  ASSUME PiInv, NEW w \in Workers, NEW row \in WorkerRow, worker' = [worker EXCEPT ![w] = row],
         UNCHANGED <<event, inbound, run, chat>>, row.at \notin {"opening", "repeat"},
         row.at \in {"refused", "thinking", "writing"} => row.msg \in Messages /\ inbound[row.msg].status # "none"
  PROVE  Turning' /\ Together'
  <1>1. worker'[w] = row /\ \A v \in Workers : v # w => worker'[v] = worker[v]
    BY WorkerMoves DEF OneWorker
  <1>2. \A v \in Workers : Opens(v)' => v # w /\ Opens(v) /\ worker'[v] = worker[v]
    BY <1>1 DEF Opens
  <1>3. Turning'
    BY <1>1, <1>2 DEF PiInv, Turning, Thinks
  <1>4. Together'
    BY DEF PiInv, Together, Over, DoneTogether
  <1>5. QED
    BY <1>3, <1>4

LEMMA OpenKeeps ==
  ASSUME PiInv, NEW w \in Workers, NEW m \in Messages, Open(w, m)
  PROVE  Kept
  <1> DEFINE row == [Idle EXCEPT !.at = "opening", !.msg = m]
  <1>1. /\ worker' = [worker EXCEPT ![w] = row] /\ worker[w] = Idle /\ Due(m) /\ EventFree(m)
        /\ UNCHANGED <<event, inbound, newest, chat, run, reply, given>>
    BY DEF Open, convVars
  <1>2. row \in WorkerRow /\ row.at = "opening" /\ row.msg = m
    BY DEF Idle, WorkerRow, TurnAt
  <1> HIDE DEF row
  <1>3. worker'[w] = row /\ \A v \in Workers : v # w => worker'[v] = worker[v]
    BY <1>1, <1>2, WorkerMoves DEF OneWorker
  <1>4. Turning'
    <2>1. \A v \in Workers : v # w /\ worker[v].msg = m => ~Opens(v)
      BY <1>1 DEF EventFree, On, Opens
    <2>2. \A v \in Workers : Opens(v)' =>
            worker'[v].msg \in Messages /\ event'[worker'[v].msg].status \in {"received", "queued"}
      BY <1>1, <1>2, <1>3 DEF Due, PiInv, Turning, Opens
    <2>3. \A u, v \in Workers : Opens(u)' /\ Opens(v)' /\ worker'[u].msg = worker'[v].msg => u = v
      BY <1>2, <1>3, <2>1 DEF PiInv, Turning, Opens
    <2>4. \A v \in Workers : Thinks(v)' => worker'[v].msg \in Messages /\ inbound'[worker'[v].msg].status # "none"
      BY <1>1, <1>2, <1>3 DEF PiInv, Turning, Thinks
    <2>5. QED
      BY <1>2, <1>3, <2>2, <2>3, <2>4 DEF PiInv, Turning
  <1>5. Together'
    BY <1>1 DEF PiInv, Together, Over, DoneTogether
  <1>6. ~Sends(w) /\ row.at \notin SendAt \cup {"picked"}
    BY <1>1, <1>2, IdleRow DEF Sends, SendAt
  <1>7. PiInv' /\ SameHands
    BY <1>1, <1>2, <1>4, <1>5, <1>6, TurnMoves DEF PiInv, Shapes
  <1>8. QED
    BY <1>1, <1>7, QuietRefines DEF Kept, ChatMay

LEMMA PersistKeeps ==
  ASSUME PiInv, NEW w \in Workers, Persist(w)
  PROVE  Kept
  <1>0. PICK m \in Messages : m = worker[w].msg
    BY DEF Persist, PiInv, Turning, Opens
  <1> DEFINE new == inbound[m].status = "none"
             heard == IF new THEN m ELSE newest
             at == IF ~new /\ inbound[m].status # "received" THEN "repeat"
                   ELSE IF chat = "ai" THEN "thinking" ELSE "refused"
             row == [worker[w] EXCEPT !.at = at, !.seen = heard]
  <1>1. /\ Opens(w) /\ ~Locked /\ newest' = heard
        /\ event' = [event EXCEPT ![m] = [status |-> "queued", attempts |-> @.attempts + 1]]
        /\ inbound' = IF new THEN [inbound EXCEPT ![m].status = "received"] ELSE inbound
        /\ UNCHANGED <<chat, run, reply, given>>
    BY <1>0 DEF Persist, Opens
  <1>2. worker' = [worker EXCEPT ![w] = row]
    <2>1. worker' = [worker EXCEPT ![w].at = at, ![w].seen = heard]
      BY <1>0 DEF Persist
    <2> HIDE DEF at, heard
    <2>2. QED
      BY <2>1 DEF PiInv, Shapes
  <1>3. inbound[m] \in InboundRow /\ event[m] \in EventRow /\ newest \in Messages \cup {NoMessage}
        /\ worker[w] \in WorkerRow /\ event \in [Messages -> EventRow] /\ inbound \in [Messages -> InboundRow]
    BY DEF PiInv, Shapes
  <1>4. event[m].status \in {"received", "queued"} /\ ~Over(m)
    BY <1>0, <1>1 DEF PiInv, Turning, Together
  <1>5. at \in {"thinking", "refused"}
    BY <1>3, <1>4 DEF Over, InboundRow
  <1>6. heard \in Messages \cup {NoMessage}
    BY <1>3
  <1>7. /\ inbound' \in [Messages -> InboundRow] /\ inbound'[m].status = "received"
        /\ \A n \in Messages : n # m => inbound'[n] = inbound[n]
    BY <1>1, <1>3, <1>4 DEF Over, InboundRow
  <1>8. /\ event' \in [Messages -> EventRow] /\ event'[m].status = "queued"
        /\ \A n \in Messages : n # m => event'[n] = event[n]
    <2>1. event[m].attempts + 1 \in Nat
      BY <1>3 DEF EventRow
    <2>2. [status |-> "queued", attempts |-> event[m].attempts + 1] \in EventRow
      BY <2>1 DEF EventRow
    <2>3. QED
      BY <1>1, <1>3, <2>2
  <1> HIDE DEF at, heard
  <1>9. row \in WorkerRow /\ row.at = at /\ row.msg = m
    BY <1>0, <1>3, <1>5, <1>6 DEF WorkerRow, TurnAt
  <1> HIDE DEF row
  <1>10. worker'[w] = row /\ \A v \in Workers : v # w => worker'[v] = worker[v]
    BY <1>2, <1>9, WorkerMoves DEF OneWorker
  <1>11. Turning'
    <2>1. \A v \in Workers : Opens(v)' => v # w /\ Opens(v) /\ worker'[v] = worker[v]
      BY <1>5, <1>9, <1>10 DEF Opens
    <2>2. \A v \in Workers : Opens(v)' =>
            worker'[v].msg \in Messages /\ event'[worker'[v].msg].status \in {"received", "queued"}
      BY <1>8, <2>1 DEF PiInv, Turning
    <2>3. \A u, v \in Workers : Opens(u)' /\ Opens(v)' /\ worker'[u].msg = worker'[v].msg => u = v
      BY <2>1 DEF PiInv, Turning
    <2>4. \A v \in Workers : Thinks(v)' => worker'[v].msg \in Messages /\ inbound'[worker'[v].msg].status # "none"
      <3>1. \A n \in Messages : inbound[n].status # "none" => inbound'[n].status # "none"
        BY <1>7
      <3>2. \A v \in Workers : v # w /\ Thinks(v)' => Thinks(v) /\ worker'[v] = worker[v]
        BY <1>10 DEF Thinks
      <3>3. QED
        BY <1>7, <1>9, <1>10, <3>1, <3>2 DEF PiInv, Turning
    <2>5. \A v \in Workers : worker'[v].at # "repeat"
      BY <1>5, <1>9, <1>10 DEF PiInv, Turning
    <2>6. QED
      BY <2>2, <2>3, <2>4, <2>5 DEF Turning
  <1>12. Together'
    <2>1. m \notin run
      BY <1>4 DEF PiInv, Together
    <2>2. \A n \in Messages : n # m => (Over(n)' <=> Over(n))
      BY <1>7 DEF Over
    <2>3. ~Over(m)'
      BY <1>7 DEF Over
    <2>4. DoneTogether'
      BY <1>1, <1>7, <1>8 DEF PiInv, Together, DoneTogether
    <2>5. QED
      BY <1>1, <1>7, <1>8, <2>1, <2>2, <2>3, <2>4 DEF PiInv, Together
  <1>13. ~Sends(w) /\ row.at \notin SendAt \cup {"picked"}
    BY <1>1, <1>5, <1>9 DEF Opens, Sends, SendAt
  <1>14. PiInv' /\ SameHands
    BY <1>1, <1>2, <1>6, <1>7, <1>8, <1>9, <1>11, <1>12, <1>13, TurnMoves
  <1>15. [Promise!Next]_Promise!promiseVars
    <2>1. \A n \in Messages : PromisedReply(n)' = PromisedReply(n)
      BY <1>1, <1>14 DEF PromisedReply, SameHands
    <2>2. heard = m \/ heard = newest
      BY DEF heard
    <2>3. QED
      BY <1>1, <2>1, <2>2, Hears, Stutters
  <1>16. QED
    BY <1>14, <1>15 DEF Kept

\* The message opens another chat, or is ignored: the event is over.
LEMMA NotHereKeeps ==
  ASSUME PiInv, NEW w \in Workers, OtherChat(w) \/ Ignore(w)
  PROVE  Kept
  <1>0. PICK m \in Messages : m = worker[w].msg
    BY DEF OtherChat, Ignore, PiInv, Turning, Opens
  <1> DEFINE over == IF on THEN "processed" ELSE "ignored"
  <1>1. /\ Opens(w) /\ (on => inbound[m].status = "none" /\ chat = "closed")
        /\ event' = [event EXCEPT ![m].status = over]
        /\ worker' = [worker EXCEPT ![w] = Idle]
        /\ UNCHANGED <<inbound, newest, chat, run, reply, given>>
    BY <1>0 DEF OtherChat, Ignore, Opens, Ends, convVars
  <1>2. worker'[w] = Idle /\ \A v \in Workers : v # w => worker'[v] = worker[v]
    BY <1>1, IdleRow, WorkerMoves DEF OneWorker
  <1>3. /\ event' \in [Messages -> EventRow] /\ event'[m].status = over /\ ~Over(m)
        /\ \A n \in Messages : n # m => event'[n] = event[n]
    BY <1>0, <1>1 DEF PiInv, Shapes, EventRow, Turning, Together
  <1>4. Turning'
    <2>1. \A v \in Workers : Opens(v)' => v # w /\ Opens(v) /\ worker'[v] = worker[v] /\ worker[v].msg # m
      BY <1>0, <1>1, <1>2, IdleRow DEF Opens, PiInv, Turning
    <2>2. \A v \in Workers : Thinks(v)' => Thinks(v) /\ worker'[v] = worker[v]
      BY <1>2, IdleRow DEF Thinks
    <2>3. \A v \in Workers : Opens(v)' =>
            worker'[v].msg \in Messages /\ event'[worker'[v].msg].status \in {"received", "queued"}
      BY <1>3, <2>1 DEF PiInv, Turning
    <2>4. \A u, v \in Workers : Opens(u)' /\ Opens(v)' /\ worker'[u].msg = worker'[v].msg => u = v
      BY <2>1 DEF PiInv, Turning
    <2>5. \A v \in Workers : worker'[v].at # "repeat"
      BY <1>2, IdleRow DEF PiInv, Turning
    <2>6. QED
      BY <1>1, <2>2, <2>3, <2>4, <2>5 DEF PiInv, Turning
  <1>5. Together'
    <2>1. event'[m].status \in {"processed", "ignored"} /\ (event'[m].status = "processed" => on)
      BY <1>3
    <2> HIDE DEF over
    <2>2. ASSUME NEW n \in Messages
          PROVE  /\ event'[n].status = "processed" => Over(n)' \/ (inbound'[n].status = "none" /\ chat' = "closed")
                 /\ Over(n)' => event'[n].status = "processed"
      <3>1. CASE n = m
        BY <1>1, <1>3, <2>1, <3>1 DEF Over
      <3>2. CASE n # m
        BY <1>1, <1>3, <3>2 DEF PiInv, Together, DoneTogether, Over
      <3>3. QED
        BY <3>1, <3>2
    <2>3. DoneTogether'
      BY <2>2 DEF DoneTogether, Over
    <2>4. QED
      BY <1>1, <1>3, <2>1, <2>3 DEF PiInv, Together, Over
  <1>6. ~Sends(w) /\ Idle.at \notin SendAt \cup {"picked"}
    BY <1>1, IdleRow DEF Opens, Sends, SendAt
  <1>7. PiInv' /\ SameHands
    BY <1>1, <1>3, <1>4, <1>5, <1>6, IdleRow, TurnMoves DEF PiInv, Shapes
  <1>8. QED
    BY <1>1, <1>7, QuietRefines DEF Kept, ChatMay

LEMMA ReadChatKeeps ==
  ASSUME PiInv, NEW w \in Workers, ReadChat(w)
  PROVE  Kept
  <1> DEFINE burst == BurstBefore(worker[w].msg)
             capped == NewerWaiting(worker[w].msg)
             row == [worker[w] EXCEPT !.at = "writing", !.capped = capped, !.burst = burst]
  <1>1. /\ Thinks(w) /\ worker[w].msg \in Messages /\ inbound[worker[w].msg].status # "none"
        /\ UNCHANGED <<event, inbound, newest, chat, run, reply, given>>
    BY DEF ReadChat, Proceeds, Thinks, PiInv, Turning, turnVars, convVars
  <1>2. worker' = [worker EXCEPT ![w].at = "writing", ![w].capped = capped, ![w].burst = burst]
    BY DEF ReadChat
  <1>3. burst \subseteq Messages /\ capped \in BOOLEAN
    BY DEF BurstBefore, NewerWaiting
  <1> HIDE DEF burst, capped
  <1>4. worker' = [worker EXCEPT ![w] = row] /\ worker[w] \in WorkerRow
    BY <1>2 DEF PiInv, Shapes
  <1>5. row \in WorkerRow /\ row.at = "writing" /\ row.msg = worker[w].msg
    BY <1>3, <1>4 DEF WorkerRow, TurnAt
  <1> HIDE DEF row
  <1>6. Turning' /\ Together'
    BY <1>1, <1>4, <1>5, TurningStays
  <1>7. ~Sends(w) /\ row.at \notin SendAt \cup {"picked"}
    BY <1>1, <1>5 DEF Thinks, Sends, SendAt
  <1>8. PiInv' /\ SameHands
    BY <1>1, <1>4, <1>5, <1>6, <1>7, TurnMoves DEF PiInv, Shapes
  <1>9. QED
    BY <1>1, <1>8, QuietRefines DEF Kept, ChatMay

LEMMA TurnDiesKeeps ==
  ASSUME PiInv, NEW w \in Workers, TurnDies(w)
  PROVE  Kept
  <1>1. /\ ~Sends(w) /\ worker' = [worker EXCEPT ![w] = Idle] /\ Idle.at \notin SendAt \cup {"picked"}
        /\ UNCHANGED <<event, inbound, newest, chat, run, reply, given>>
    BY IdleRow DEF TurnDies, Ends, convVars, Sends, SendAt, TurnAt
  <1>2. Turning' /\ Together'
    BY <1>1, IdleRow, TurningStays
  <1>3. PiInv' /\ SameHands
    BY <1>1, <1>2, IdleRow, TurnMoves DEF PiInv, Shapes
  <1>4. QED
    BY <1>1, <1>3, QuietRefines DEF Kept, ChatMay

\* Parked messages are settled, dropped, or run again with their event.
LEMMA OutageSweepKeeps ==
  ASSUME PiInv, NEW age \in {"early", "due", "late"}, OutageSweep(age)
  PROVE  Kept
  <1> DEFINE gone == chat # "ai" \/ age = "late"
             again == {m \in Messages : Replayable(m) /\ ~gone /\ age = "due"}
  <1>1. /\ UNCHANGED <<newest, chat, reply, worker, given>> /\ run' = run \ again
        /\ \A m \in again : EventFree(m)
        /\ event' = [m \in Messages |-> IF m \in again THEN RunAgain(m) ELSE event[m]]
    BY DEF OutageSweep, convVars
  <1>2. \A m \in Messages : event'[m] = IF m \in again THEN [status |-> "received", attempts |-> 0] ELSE event[m]
    BY <1>1 DEF RunAgain
  <1>3. \A m \in again : Parked(m) /\ ~Settled(m) /\ m \in Messages
    BY DEF Replayable
  <1>4. ASSUME NEW m \in Messages
        PROVE  /\ inbound'[m] \in InboundRow
               /\ m \in again => inbound'[m].status = "received" /\ inbound[m].status = "skipped"
               /\ m \notin again => inbound'[m].status = inbound[m].status
    <2>1. inbound'[m] = IF ~Parked(m) THEN inbound[m]
                        ELSE IF Settled(m) THEN [inbound[m] EXCEPT !.code = "answered"]
                        ELSE IF gone THEN [inbound[m] EXCEPT !.code = "dropped"]
                        ELSE IF m \in again THEN [status |-> "received", code |-> ""]
                        ELSE inbound[m]
      BY DEF OutageSweep
    <2>2. inbound[m] \in InboundRow
      BY DEF PiInv, Shapes
    <2> DEFINE fresh == [status |-> "received", code |-> ""]
    <2>3. fresh \in InboundRow /\ fresh.status = "received"
      BY DEF InboundRow, Codes
    <2>4. /\ [inbound[m] EXCEPT !.code = "answered"] \in InboundRow
          /\ [inbound[m] EXCEPT !.code = "answered"].status = inbound[m].status
          /\ [inbound[m] EXCEPT !.code = "dropped"] \in InboundRow
          /\ [inbound[m] EXCEPT !.code = "dropped"].status = inbound[m].status
      BY <2>2 DEF InboundRow, Codes
    <2>5. CASE m \in again
      <3>1. Parked(m) /\ ~Settled(m) /\ ~gone
        BY <1>3, <2>5
      <3>2. inbound'[m] = fresh
        BY <2>1, <2>5, <3>1
      <3> HIDE DEF fresh
      <3>3. inbound'[m].status = "received" /\ inbound'[m] \in InboundRow
        BY <2>3, <3>2
      <3>4. inbound[m].status = "skipped"
        BY <3>1 DEF Parked
      <3> HIDE DEF again
      <3>5. QED
        BY <2>5, <3>3, <3>4
    <2>6. CASE m \notin again
      BY <2>1, <2>2, <2>4, <2>6
    <2>7. QED
      BY <2>5, <2>6
  <1> HIDE DEF again
  <1>5. inbound' \in [Messages -> InboundRow]
    <2>1. inbound' = [m \in Messages |-> inbound'[m]]
      BY DEF OutageSweep
    <2>2. QED
      BY <1>4, <2>1
  <1>6. event' \in [Messages -> EventRow]
    <2>1. [status |-> "received", attempts |-> 0] \in EventRow
      BY DEF EventRow
    <2>2. QED
      BY <1>1, <1>2, <2>1 DEF PiInv, Shapes
  <1>7. Shapes'
    BY <1>1, <1>5, <1>6 DEF PiInv, Shapes
  <1>8. Handing' /\ SameHands
    BY <1>1 DEF PiInv, Handing, Picks, Sends, Calls, Fits, Blocked, SameHands, InHand, On
  <1>9. Turning'
    <2>1. \A m \in Messages : inbound[m].status # "none" => inbound'[m].status # "none"
      BY <1>4
    <2>2. \A m \in Messages : event[m].status \in {"received", "queued"} => event'[m].status \in {"received", "queued"}
      BY <1>2
    <2>3. QED
      BY <1>1, <2>1, <2>2 DEF PiInv, Turning, Opens, Thinks
  <1>10. Together'
    <2> SUFFICES ASSUME NEW m \in Messages
                 PROVE  /\ event'[m].status # "processed" => ~Over(m)'
                        /\ event'[m].status = "none" => inbound'[m].status = "none"
                        /\ m \in run' => Over(m)'
                        /\ event'[m].status = "processed" =>
                             Over(m)' \/ (inbound'[m].status = "none" /\ chat' = "closed")
      BY DEF Together, DoneTogether, Over
    <2>1. CASE m \in again
      BY <1>1, <1>2, <1>4, <2>1 DEF Over
    <2>2. CASE m \notin again
      BY <1>1, <1>2, <1>4, <2>2 DEF PiInv, Together, DoneTogether, Over
    <2>3. QED
      BY <2>1, <2>2
  <1>11. QED
    BY <1>1, <1>7, <1>8, <1>9, <1>10, QuietRefines DEF Kept, PiInv, ChatMay

----------------------------------------------------------------------------
(* Handing a reply over.                                                   *)

\* A worker that sends takes, checks or leaves the reply of m.
LEMMA SendMoves ==
  ASSUME PiInv, NEW w \in Workers, NEW row \in WorkerRow, worker' = [worker EXCEPT ![w] = row],
         worker[w].at \notin TurnAt, row.at \in {"idle", "picked", "claimed", "calling"},
         UNCHANGED <<event, inbound, run, newest>>, chat' \in {"ai", "human", "closed"},
         chat = "closed" => chat' = "closed",
         reply' \in [Messages -> ReplyRow], given' \in [Messages -> {0, 1}], Handing'
  PROVE  PiInv'
  <1>1. worker' \in [Workers -> WorkerRow] /\ worker'[w] = row /\ OneWorker(w)
    BY WorkerMoves
  <1>2. row.at \notin TurnAt
    BY DEF TurnAt
  <1>3. Turning' /\ Together'
    BY <1>1, <1>2, SendKeepsTurns DEF OneWorker
  <1>4. Shapes'
    BY <1>1 DEF PiInv, Shapes
  <1>5. QED
    BY <1>3, <1>4 DEF PiInv

\* A sender that is done: nobody else has its reply, and no call goes on if
\* the chat changed.
LEMMA HandsEmpty ==
  ASSUME PiInv, NEW w \in Workers, Sends(w), Ends(w), NEW m \in Messages, m = worker[w].msg,
         \A n \in Messages : n # m => reply'[n] = reply[n] /\ given'[n] = given[n],
         reply'[m].status \notin {"none", "queued"}, UNCHANGED newest, chat' = chat \/ Calls(w)
  PROVE  Handing' /\ ~InHand(m)' /\ \A n \in Messages : n # m => (InHand(n)' <=> InHand(n))
  <1>1. worker'[w] = Idle /\ \A v \in Workers : v # w => worker'[v] = worker[v]
    BY IdleRow, WorkerMoves DEF Ends, OneWorker
  <1>2. \A v \in Workers : Sends(v)' => v # w /\ Sends(v) /\ worker'[v] = worker[v] /\ worker[v].msg \in Messages
                                        /\ worker[v].msg # m
    BY <1>1, IdleRow DEF Sends, SendAt, PiInv, Handing
  <1>3. \A v \in Workers : Calls(v)' => v # w /\ Calls(v) /\ Sends(v)' /\ chat' = chat
    BY <1>1, IdleRow DEF Sends, Calls, SendAt, PiInv, Handing
  <1>4. \A v \in Workers : Sends(v)' =>
          /\ worker'[v].msg \in Messages
          /\ reply'[worker'[v].msg].status \in {"processing", "skipped"} /\ given'[worker'[v].msg] = 0
    BY <1>2 DEF PiInv, Handing
  <1>5. \A u, v \in Workers : Sends(u)' /\ Sends(v)' /\ worker'[u].msg = worker'[v].msg => u = v
    BY <1>2 DEF PiInv, Handing
  <1>6. \A u, v \in Workers : Calls(u)' /\ Calls(v)' => u = v
    BY <1>3 DEF PiInv, Handing
  <1>7. ASSUME NEW v \in Workers, Calls(v)' PROVE (Fits(worker[v].msg) /\ ~Blocked(worker[v].msg))'
    <2>1. /\ worker'[v] = worker[v] /\ chat' = chat /\ reply'[worker[v].msg] = reply[worker[v].msg]
          /\ Fits(worker[v].msg) /\ ~Blocked(worker[v].msg)
      BY <1>2, <1>3, <1>7 DEF PiInv, Handing
    <2>2. QED
      BY <2>1 DEF Fits, Blocked
  <1>8. \A n \in Messages : reply'[n].status \in {"none", "queued"} => given'[n] = 0
    BY DEF PiInv, Handing
  <1>9. \A v \in Workers : Picks(v)' => worker'[v].msg \in Messages /\ reply'[worker'[v].msg].status # "none"
    <2>1. \A v \in Workers : Picks(v)' => Picks(v) /\ worker'[v] = worker[v]
      BY <1>1, IdleRow DEF Picks
    <2>2. QED
      BY <2>1 DEF PiInv, Handing
  <1>10. ~InHand(m)' /\ \A n \in Messages : n # m => (InHand(n)' <=> InHand(n))
    BY <1>1, <1>2 DEF InHand, On, Sends
  <1>11. QED
    BY <1>4, <1>5, <1>6, <1>7, <1>8, <1>9, <1>10 DEF Handing

\* What the promise sees of a reply that is taken or called.
LEMMA Taken ==
  ASSUME PiInv, NEW w \in Workers, Sends(w)
  PROVE  /\ worker[w].msg \in Messages
         /\ reply[worker[w].msg].status \in {"processing", "skipped"} /\ given[worker[w].msg] = 0
         /\ PromisedReply(worker[w].msg) =
              [state |-> "ready", by |-> reply[worker[w].msg].by, fits |-> reply[worker[w].msg].fits]
  <1>1. /\ worker[w].msg \in Messages
        /\ reply[worker[w].msg].status \in {"processing", "skipped"} /\ given[worker[w].msg] = 0
        /\ InHand(worker[w].msg)
    BY DEF PiInv, Handing, InHand, On, Sends
  <1>2. QED
    BY <1>1, StateOf

\* What a row shows of the promise.
LEMMA Shown ==
  ASSUME NEW m \in Messages
  PROVE  /\ given'[m] = 1 => PromisedReply(m)' = [state |-> "given", by |-> reply'[m].by, fits |-> reply'[m].fits]
         /\ given'[m] = 0 /\ reply'[m].status # "none" =>
              PromisedReply(m)' =
                [state |-> IF reply'[m].status \in {"queued", "processing"} \/ InHand(m)' THEN "ready" ELSE "withdrawn",
                 by |-> reply'[m].by, fits |-> reply'[m].fits]
  <1>1. CASE given'[m] = 1
    BY <1>1 DEF PromisedReply
  <1>2. CASE given'[m] = 0
    BY <1>2 DEF PromisedReply
  <1>3. QED
    BY <1>1, <1>2

LEMMA ReplySet ==
  ASSUME PiInv, NEW m \in Messages, NEW status \in {"queued", "processing", "sent", "failed", "skipped"},
         reply' = [reply EXCEPT ![m].status = status]
  PROVE  /\ reply' \in [Messages -> ReplyRow] /\ reply'[m].status = status
         /\ reply'[m].by = reply[m].by /\ reply'[m].fits = reply[m].fits
         /\ \A n \in Messages : n # m => reply'[n] = reply[n]
  <1>1. reply \in [Messages -> ReplyRow] /\ reply[m] \in ReplyRow
    BY DEF PiInv, Shapes
  <1> DEFINE row == [reply[m] EXCEPT !.status = status]
  <1>2. row \in ReplyRow /\ row.status = status /\ row.by = reply[m].by /\ row.fits = reply[m].fits
    BY <1>1 DEF ReplyRow
  <1>3. reply' = [reply EXCEPT ![m] = row]
    OBVIOUS
  <1> HIDE DEF row
  <1>4. QED
    BY <1>1, <1>2, <1>3

LEMMA PickKeeps ==
  ASSUME PiInv, NEW w \in Workers, NEW m \in Messages, Pick(w, m)
  PROVE  Kept
  <1> DEFINE row == [Idle EXCEPT !.at = "picked", !.msg = m]
  <1>1. /\ worker[w] = Idle /\ reply[m].status = "queued" /\ worker' = [worker EXCEPT ![w] = row]
        /\ UNCHANGED <<event, inbound, run, newest, chat, reply, given>>
    BY DEF Pick, turnVars, convVars
  <1>2. row \in WorkerRow /\ row.at = "picked" /\ row.msg = m
    BY DEF Idle, WorkerRow
  <1> HIDE DEF row
  <1>3. worker'[w] = row /\ OneWorker(w) /\ ~Sends(w) /\ worker[w].at \notin TurnAt
    BY <1>1, <1>2, IdleRow, WorkerMoves DEF Sends, SendAt, TurnAt
  <1>4. ~Sends(w)' /\ SameHands
    BY <1>2, <1>3, HandsStay DEF Sends, SendAt
  <1>5. Handing'
    <2>1. \A v \in Workers : Sends(v)' => Sends(v) /\ worker'[v] = worker[v]
      BY <1>3, <1>4 DEF Sends, OneWorker
    <2>2. \A v \in Workers : Calls(v)' => Calls(v) /\ Sends(v) /\ worker'[v] = worker[v]
      BY <1>2, <1>3 DEF Calls, Sends, SendAt, OneWorker
    <2>3. \A v \in Workers : Picks(v)' => worker'[v].msg \in Messages /\ reply'[worker'[v].msg].status # "none"
      BY <1>1, <1>2, <1>3 DEF PiInv, Handing, Picks, OneWorker
    <2>4. QED
      BY <1>1, <2>1, <2>2, <2>3 DEF PiInv, Handing, Fits, Blocked
  <1>6. PiInv'
    BY <1>1, <1>2, <1>3, <1>5, SendMoves DEF PiInv, Shapes
  <1>7. QED
    BY <1>1, <1>4, <1>6, QuietRefines DEF Kept, ChatMay

\* What a sender has before it claims.
LEMMA Picked ==
  ASSUME PiInv, NEW w \in Workers, Picks(w)
  PROVE  /\ worker[w].msg \in Messages /\ reply[worker[w].msg].status # "none"
         /\ ~Sends(w) /\ worker[w].at \notin TurnAt
         /\ Ends(w) => worker'[w] = Idle /\ OneWorker(w) /\ ~Sends(w)' /\ ~Picks(w)'
  <1>1. worker[w].msg \in Messages /\ reply[worker[w].msg].status # "none" /\ ~Sends(w) /\ worker[w].at \notin TurnAt
    BY DEF PiInv, Handing, Picks, Sends, SendAt, TurnAt
  <1>2. ASSUME Ends(w) PROVE worker'[w] = Idle /\ OneWorker(w) /\ ~Sends(w)' /\ ~Picks(w)'
    <2>1. worker'[w] = Idle /\ OneWorker(w)
      BY <1>2, IdleRow, WorkerMoves DEF Ends
    <2>2. QED
      BY <2>1, IdleRow DEF Sends, SendAt, Picks
  <1>3. QED
    BY <1>1, <1>2

\* The reply was taken meanwhile.
LEMMA PickedEnds ==
  ASSUME PiInv, NEW w \in Workers, Picks(w), Ends(w),
         UNCHANGED <<event, inbound, run, newest, chat, reply, given>>
  PROVE  Kept
  <1>1. Handing' /\ SameHands
    BY Picked, TurnKeepsHands, HandsStay
  <1>2. PiInv'
    BY <1>1, Picked, IdleRow, SendMoves DEF Ends, PiInv, Shapes
  <1>3. QED
    BY <1>1, <1>2, QuietRefines DEF Kept, ChatMay

\* The reply is shown as skipped, also where another job has claimed it.
LEMMA PickedSkips ==
  ASSUME PiInv, NEW w \in Workers, Picks(w), Ends(w), NEW m \in Messages, m = worker[w].msg,
         reply' = [reply EXCEPT ![m].status = "skipped"],
         UNCHANGED <<event, inbound, run, newest, chat, given>>
  PROVE  Kept
  <1>1. /\ reply[m].status # "none" /\ ~Sends(w) /\ worker[w].at \notin TurnAt
        /\ OneWorker(w) /\ ~Sends(w)' /\ ~Picks(w)'
    BY Picked
  <1>2. /\ reply' \in [Messages -> ReplyRow] /\ reply'[m].status = "skipped"
        /\ reply'[m].by = reply[m].by /\ reply'[m].fits = reply[m].fits
        /\ \A n \in Messages : n # m => reply'[n] = reply[n]
    BY ReplySet
  <1>3. SameHands
    BY <1>1, HandsStay
  <1>4. Handing'
    <2>1. \A v \in Workers : Sends(v)' => Sends(v) /\ worker'[v] = worker[v] /\ worker[v].msg \in Messages
      BY <1>1 DEF Sends, OneWorker, PiInv, Handing
    <2>2. \A v \in Workers : Calls(v)' => Calls(v) /\ Sends(v)'
      BY <1>1 DEF Calls, Sends, SendAt, OneWorker
    <2>3. \A n \in Messages : reply'[n].fits = reply[n].fits /\ reply'[n].by = reply[n].by
      BY <1>2
    <2>4. \A v \in Workers : Calls(v)' => (Fits(worker[v].msg) /\ ~Blocked(worker[v].msg))'
      BY <2>1, <2>2, <2>3 DEF PiInv, Handing, Fits, Blocked
    <2>5. \A v \in Workers : Picks(v)' => worker'[v].msg \in Messages /\ reply'[worker'[v].msg].status # "none"
      BY <1>1, <1>2 DEF PiInv, Handing, Picks, OneWorker
    <2>6. \A v \in Workers : Sends(v)' =>
            /\ worker'[v].msg \in Messages
            /\ reply'[worker'[v].msg].status \in {"processing", "skipped"} /\ given'[worker'[v].msg] = 0
      BY <1>2, <2>1 DEF PiInv, Handing
    <2>7. \A u, v \in Workers : Sends(u)' /\ Sends(v)' /\ worker'[u].msg = worker'[v].msg => u = v
      BY <2>1 DEF PiInv, Handing
    <2>8. \A u, v \in Workers : Calls(u)' /\ Calls(v)' => u = v
      BY <2>2 DEF PiInv, Handing
    <2>9. \A n \in Messages : reply'[n].status \in {"none", "queued"} => given'[n] = 0
      BY <1>2 DEF PiInv, Handing
    <2>10. QED
      BY <2>4, <2>5, <2>6, <2>7, <2>8, <2>9 DEF Handing
  <1>5. PiInv'
    BY <1>1, <1>2, <1>4, IdleRow, SendMoves DEF Ends, PiInv, Shapes
  <1>6. \A n \in Messages : n # m => PromisedReply(n)' = PromisedReply(n)
    BY <1>2, <1>3 DEF PromisedReply, SameHands
  <1>7. given[m] \in {0, 1}
    BY DEF PiInv, Shapes
  <1>8. CASE PromisedReply(m)' = PromisedReply(m)
    <2>1. \A n \in Messages : PromisedReply(n)' = PromisedReply(n)
      BY <1>6, <1>8
    <2>2. QED
      BY <1>5, <2>1, Stutters DEF Kept
  <1>9. CASE given[m] = 0 /\ ~InHand(m) /\ reply[m].status \in {"queued", "processing"}
    <2>1. PromisedReply(m) = [state |-> "ready", by |-> reply[m].by, fits |-> reply[m].fits]
      BY <1>9, StateOf
    <2>2. PromisedReply(m)' = [state |-> "withdrawn", by |-> reply[m].by, fits |-> reply[m].fits]
      BY <1>2, <1>3, <1>9, Shown DEF SameHands
    <2>3. Promise!Next
      BY <1>6, <2>1, <2>2, Withdraws
    <2>4. QED
      BY <1>5, <2>3 DEF Kept
  <1>10. CASE given[m] = 1
    <2>1. PromisedReply(m)' = PromisedReply(m)
      BY <1>2, <1>10, StateOf, Shown
    <2>2. QED
      BY <1>8, <2>1
  <1>11. CASE given[m] = 0 /\ ~(~InHand(m) /\ reply[m].status \in {"queued", "processing"})
    <2>1. PromisedReply(m)' = PromisedReply(m)
      BY <1>1, <1>2, <1>3, <1>11, StateOf, Shown DEF SameHands
    <2>2. QED
      BY <1>8, <2>1
  <1>12. QED
    BY <1>7, <1>9, <1>10, <1>11

LEMMA ClaimKeeps ==
  ASSUME PiInv, NEW w \in Workers, SkipOff(w) \/ Claim(w)
  PROVE  Kept
  <1>1. Picks(w) /\ UNCHANGED <<event, inbound, run, newest, chat, given>>
    BY DEF SkipOff, Claim, Picks, turnVars, convVars
  <1>2. PICK m \in Messages : m = worker[w].msg
    BY <1>1, Picked
  <1>3. CASE SkipOff(w)
    BY <1>1, <1>2, <1>3, PickedSkips DEF SkipOff
  <1>4. CASE Claim(w) /\ reply[m].status # "queued"
    BY <1>1, <1>2, <1>4, PickedEnds DEF Claim
  <1>5. CASE Claim(w) /\ reply[m].status = "queued" /\ Blocked(m)
    <2>1. reply' = [reply EXCEPT ![m].status = "skipped"] /\ Ends(w)
      BY <1>2, <1>5 DEF Claim
    <2>2. QED
      BY <1>1, <1>2, <2>1, PickedSkips
  <1>6. CASE Claim(w) /\ reply[m].status = "queued" /\ ~Blocked(m)
    <2> DEFINE row == [worker[w] EXCEPT !.at = "claimed"]
    <2>1. /\ reply' = [reply EXCEPT ![m].status = "processing"] /\ worker' = [worker EXCEPT ![w] = row]
          /\ worker[w] \in WorkerRow /\ ~Locked
      BY <1>2, <1>6 DEF Claim, Goes, PiInv, Shapes
    <2>2. row \in WorkerRow /\ row.at = "claimed" /\ row.msg = m
      BY <1>2, <2>1 DEF WorkerRow, SendAt
    <2> HIDE DEF row
    <2>3. /\ reply' \in [Messages -> ReplyRow] /\ reply'[m].status = "processing"
          /\ reply'[m].by = reply[m].by /\ reply'[m].fits = reply[m].fits
          /\ \A n \in Messages : n # m => reply'[n] = reply[n]
      BY <2>1, ReplySet
    <2>4. worker'[w] = row /\ \A v \in Workers : v # w => worker'[v] = worker[v]
      BY <2>1, <2>2, WorkerMoves DEF OneWorker
    <2>5. given[m] = 0 /\ given' = given
          /\ PromisedReply(m) = [state |-> "ready", by |-> reply[m].by, fits |-> reply[m].fits]
      BY <1>1, <1>6, StateOf DEF PiInv, Handing
    <2>6. \A v \in Workers : Sends(v) => v # w /\ worker[v].msg # m /\ ~Calls(v)
      BY <1>1, <1>6, <2>1, Picked DEF PiInv, Handing, Locked, Calls
    <2>7. \A v \in Workers : v # w /\ Sends(v)' => Sends(v) /\ worker'[v] = worker[v] /\ worker[v].msg # m
      BY <2>4, <2>6 DEF Sends
    <2>8. Handing'
      <3>1. \A v \in Workers : ~Calls(v)'
        BY <2>2, <2>4, <2>6 DEF Calls, Sends, SendAt
      <3>2. \A v \in Workers : Sends(v)' =>
              /\ worker'[v].msg \in Messages
              /\ reply'[worker'[v].msg].status \in {"processing", "skipped"} /\ given'[worker'[v].msg] = 0
        BY <2>2, <2>3, <2>4, <2>5, <2>7 DEF PiInv, Handing
      <3>3. \A u, v \in Workers : Sends(u)' /\ Sends(v)' /\ worker'[u].msg = worker'[v].msg => u = v
        BY <2>2, <2>4, <2>7 DEF PiInv, Handing
      <3>4. \A n \in Messages : reply'[n].status \in {"none", "queued"} => given'[n] = 0
        BY <2>3, <2>5 DEF PiInv, Handing
      <3>5. \A v \in Workers : Picks(v)' => worker'[v].msg \in Messages /\ reply'[worker'[v].msg].status # "none"
        <4>1. \A v \in Workers : Picks(v)' => Picks(v) /\ worker'[v] = worker[v]
          BY <2>2, <2>4 DEF Picks
        <4>2. QED
          BY <2>3, <4>1 DEF PiInv, Handing
      <3>6. QED
        BY <3>1, <3>2, <3>3, <3>4, <3>5 DEF Handing
    <2>9. PiInv'
      BY <1>1, <2>1, <2>2, <2>3, <2>8, Picked, SendMoves DEF PiInv, Shapes
    <2>10. \A n \in Messages : n # m => (InHand(n)' <=> InHand(n))
      BY <1>1, <2>2, <2>4, Picked DEF InHand, On, Sends
    <2>11. PromisedReply(m)' = PromisedReply(m)
      BY <2>3, <2>5, Shown
    <2>12. \A n \in Messages : n # m => PromisedReply(n)' = PromisedReply(n)
      BY <2>3, <2>5, <2>10 DEF PromisedReply
    <2>13. \A n \in Messages : PromisedReply(n)' = PromisedReply(n)
      BY <2>11, <2>12
    <2>14. QED
      BY <1>1, <2>9, <2>13, Stutters DEF Kept
  <1>7. QED
    BY <1>3, <1>4, <1>5, <1>6

LEMMA RecheckKeeps ==
  ASSUME PiInv, NEW w \in Workers, Recheck(w)
  PROVE  Kept
  <1>1. /\ Sends(w) /\ ~Calls(w) /\ ~Locked /\ worker[w].at = "claimed" /\ worker[w].at \notin TurnAt
        /\ UNCHANGED <<event, inbound, run, newest, chat, given>>
    BY DEF Recheck, turnVars, convVars, Sends, Calls, SendAt, TurnAt
  <1>2. PICK m \in Messages : m = worker[w].msg
    BY <1>1, Taken
  <1>3. /\ reply[m].status \in {"processing", "skipped"} /\ given[m] = 0 /\ given' = given
        /\ PromisedReply(m) = [state |-> "ready", by |-> reply[m].by, fits |-> reply[m].fits]
    BY <1>1, <1>2, Taken
  <1>4. CASE Blocked(m) \/ ~Fits(m) \/ ~on
    <2>1. reply' = [reply EXCEPT ![m].status = "skipped"] /\ Ends(w)
      BY <1>2, <1>4 DEF Recheck
    <2>2. /\ reply' \in [Messages -> ReplyRow] /\ reply'[m].status = "skipped"
          /\ reply'[m].by = reply[m].by /\ reply'[m].fits = reply[m].fits
          /\ \A n \in Messages : n # m => reply'[n] = reply[n]
      BY <2>1, ReplySet
    <2>3. Handing' /\ ~InHand(m)' /\ \A n \in Messages : n # m => (InHand(n)' <=> InHand(n))
      BY <1>1, <1>2, <1>3, <2>1, <2>2, HandsEmpty
    <2>4. PiInv'
      BY <1>1, <2>1, <2>2, <2>3, IdleRow, SendMoves DEF Ends, PiInv, Shapes
    <2>5. given'[m] = 0
      BY <1>1, <1>3
    <2>6. PromisedReply(m)' = [state |-> "withdrawn", by |-> reply[m].by, fits |-> reply[m].fits]
      BY <2>2, <2>3, <2>5, Shown
    <2>7. \A n \in Messages : n # m => PromisedReply(n)' = PromisedReply(n)
      BY <1>1, <2>2, <2>3 DEF PromisedReply
    <2>8. Promise!Next
      BY <1>1, <1>3, <2>6, <2>7, Withdraws
    <2>9. QED
      BY <2>4, <2>8 DEF Kept
  <1>5. CASE ~Blocked(m) /\ Fits(m) /\ on
    <2> DEFINE row == [worker[w] EXCEPT !.at = "calling"]
    <2>1. UNCHANGED reply /\ worker' = [worker EXCEPT ![w] = row] /\ worker[w] \in WorkerRow
      BY <1>2, <1>5 DEF Recheck, Goes, PiInv, Shapes
    <2>2. row \in WorkerRow /\ row.at = "calling" /\ row.msg = m
      BY <1>2, <2>1 DEF WorkerRow, SendAt
    <2> HIDE DEF row
    <2>3. worker'[w] = row /\ \A v \in Workers : v # w => worker'[v] = worker[v]
      BY <2>1, <2>2, WorkerMoves DEF OneWorker
    <2>4. Handing'
      <3>1. \A v \in Workers : Calls(v)' => v = w
        BY <1>1, <2>3 DEF Calls, Locked
      <3>2. \A v \in Workers : Sends(v)' => Sends(v) /\ worker'[v].msg = worker[v].msg
        BY <1>1, <1>2, <2>2, <2>3 DEF Sends
      <3>3. Fits(m)' /\ ~Blocked(m)'
        BY <1>1, <1>5, <2>1 DEF Fits, Blocked
      <3>4. worker'[w].msg = m
        BY <2>2, <2>3
      <3>5. \A v \in Workers : Sends(v)' =>
              /\ worker'[v].msg \in Messages
              /\ reply'[worker'[v].msg].status \in {"processing", "skipped"} /\ given'[worker'[v].msg] = 0
        BY <1>1, <2>1, <3>2 DEF PiInv, Handing
      <3>6. \A u, v \in Workers : Sends(u)' /\ Sends(v)' /\ worker'[u].msg = worker'[v].msg => u = v
        BY <3>2 DEF PiInv, Handing
      <3>7. \A v \in Workers : Calls(v)' => (Fits(worker[v].msg) /\ ~Blocked(worker[v].msg))'
        BY <3>1, <3>3, <3>4 DEF Fits, Blocked
      <3>8. \A n \in Messages : reply'[n].status \in {"none", "queued"} => given'[n] = 0
        BY <1>1, <2>1 DEF PiInv, Handing
      <3>9. \A v \in Workers : Picks(v)' => worker'[v].msg \in Messages /\ reply'[worker'[v].msg].status # "none"
        <4>1. \A v \in Workers : Picks(v)' => Picks(v) /\ worker'[v] = worker[v]
          BY <2>2, <2>3 DEF Picks
        <4>2. QED
          BY <2>1, <4>1 DEF PiInv, Handing
      <3>10. QED
        BY <3>1, <3>5, <3>6, <3>7, <3>8, <3>9 DEF Handing
    <2>5. PiInv'
      BY <1>1, <2>1, <2>2, <2>4, SendMoves DEF PiInv, Shapes
    <2>6. SameHands
      BY <1>1, <1>2, <2>2, <2>3 DEF SameHands, InHand, On, Sends, SendAt
    <2>7. \A n \in Messages : PromisedReply(n)' = PromisedReply(n)
      BY <1>1, <2>1, <2>6 DEF PromisedReply, SameHands
    <2>8. QED
      BY <1>1, <2>5, <2>7, Stutters DEF Kept
  <1>6. QED
    BY <1>4, <1>5

\* A call ends, or its worker dies: got, if WhatsApp has the reply.
LEMMA CallEnds ==
  ASSUME PiInv, NEW w \in Workers, Sends(w), Ends(w), NEW m \in Messages, m = worker[w].msg,
         NEW got \in BOOLEAN, Given(w, got), got => Calls(w),
         NEW status \in {"processing", "skipped", "sent", "failed"}, status = "sent" => got,
         reply' \in [Messages -> ReplyRow], reply'[m].status = status,
         reply'[m].by = reply[m].by, reply'[m].fits = reply[m].fits,
         \A n \in Messages : n # m => reply'[n] = reply[n],
         UNCHANGED <<event, inbound, run, newest>>,
         chat' = chat \/ (Calls(w) /\ HandsOff /\ status = "failed")
  PROVE  Kept
  <1>1. /\ given[m] = 0
        /\ PromisedReply(m) = [state |-> "ready", by |-> reply[m].by, fits |-> reply[m].fits]
    BY Taken
  <1>2. given' \in [Messages -> {0, 1}] /\ given'[m] = (IF got THEN 1 ELSE 0)
        /\ \A n \in Messages : n # m => given'[n] = given[n]
    <2>1. given' = [given EXCEPT ![m] = @ + IF got THEN 1 ELSE 0] /\ given \in [Messages -> {0, 1}]
      BY DEF Given, PiInv, Shapes
    <2>2. given[m] + (IF got THEN 1 ELSE 0) = IF got THEN 1 ELSE 0
      BY <1>1
    <2>3. QED
      BY <2>1, <2>2
  <1>3. worker[w].at \notin TurnAt /\ chat \in {"ai", "human", "closed"} /\ reply[m].by \in {"ai", "system"}
    BY DEF Sends, SendAt, TurnAt, PiInv, Shapes, ReplyRow
  <1>4. chat' \in {"ai", "human", "closed"} /\ (chat = "closed" => chat' = "closed")
    BY <1>3 DEF HandsOff
  <1>5. Handing' /\ ~InHand(m)' /\ \A n \in Messages : n # m => (InHand(n)' <=> InHand(n))
    BY <1>2, HandsEmpty
  <1>6. PiInv'
    BY <1>2, <1>3, <1>4, <1>5, IdleRow, SendMoves DEF Ends
  <1>7. Calls(w) => newest \in reply[m].fits /\ (chat = "ai" \/ (chat = "human" /\ reply[m].by = "system"))
    BY <1>3 DEF PiInv, Handing, Fits, Blocked
  <1>8. chat' = chat \/ (chat = "ai" /\ chat' = "human")
    BY <1>3, <1>7 DEF HandsOff
  <1>9. \A n \in Messages : n # m => PromisedReply(n)' = PromisedReply(n)
    BY <1>2, <1>5 DEF PromisedReply
  <1>10. CASE got
    <2>1. PromisedReply(m)' = [state |-> "given", by |-> reply[m].by, fits |-> reply[m].fits]
      BY <1>2, <1>10, Shown
    <2>2. Promise!Next
      BY <1>1, <1>7, <1>8, <1>9, <1>10, <2>1, Gives
    <2>3. QED
      BY <1>6, <2>2 DEF Kept
  <1>11. CASE ~got /\ status \in {"failed", "skipped"}
    <2>1. PromisedReply(m)' = [state |-> "withdrawn", by |-> reply[m].by, fits |-> reply[m].fits]
      BY <1>2, <1>5, <1>11, Shown
    <2>2. Promise!Next
      BY <1>1, <1>8, <1>9, <2>1, Withdraws
    <2>3. QED
      BY <1>6, <2>2 DEF Kept
  <1>12. CASE ~got /\ status = "processing"
    <2>1. PromisedReply(m)' = PromisedReply(m)
      BY <1>1, <1>2, <1>12, Shown
    <2>2. \A n \in Messages : PromisedReply(n)' = PromisedReply(n)
      BY <1>9, <2>1
    <2>3. QED
      BY <1>6, <1>12, <2>2, Stutters DEF Kept
  <1>13. QED
    BY <1>10, <1>11, <1>12

LEMMA CallKeeps ==
  ASSUME PiInv, NEW w \in Workers, NEW got \in BOOLEAN, Sent(w) \/ Rejected(w, got) \/ SendDies(w, got)
  PROVE  Kept
  <1>1. Sends(w) /\ Ends(w) /\ UNCHANGED <<event, inbound, run, newest>>
    BY DEF Sent, Rejected, SendDies, Sends, SendAt, turnVars, convVars
  <1>2. PICK m \in Messages : m = worker[w].msg
    BY <1>1, Taken
  <1>3. CASE Sent(w)
    <2>1. Calls(w) /\ Given(w, TRUE) /\ reply' = [reply EXCEPT ![m].status = "sent"] /\ chat' = chat
      BY <1>2, <1>3 DEF Sent, Calls, convVars
    <2>2. QED
      BY <1>1, <1>2, <2>1, ReplySet, CallEnds
  <1>4. CASE Rejected(w, got)
    <2>1. Calls(w) /\ Given(w, got) /\ reply' = [reply EXCEPT ![m].status = "failed"] /\ HandsOff
      BY <1>2, <1>4 DEF Rejected, Calls
    <2>2. /\ reply' \in [Messages -> ReplyRow] /\ reply'[m].status = "failed"
          /\ reply'[m].by = reply[m].by /\ reply'[m].fits = reply[m].fits
          /\ \A n \in Messages : n # m => reply'[n] = reply[n]
      BY <2>1, ReplySet
    <2>3. QED
      BY <1>1, <1>2, <2>1, <2>2, CallEnds
  <1>5. CASE SendDies(w, got)
    <2>1. Given(w, got) /\ (got => Calls(w)) /\ reply' = reply /\ chat' = chat
      BY <1>5 DEF SendDies, Calls, convVars
    <2>2. reply \in [Messages -> ReplyRow] /\ reply[m].status \in {"processing", "skipped"}
      BY <1>1, <1>2, Taken DEF PiInv, Shapes
    <2>3. QED
      BY <1>1, <1>2, <2>1, <2>2, CallEnds
  <1>6. QED
    BY <1>3, <1>4, <1>5

LEMMA ExpireReplyKeeps ==
  ASSUME PiInv, NEW m \in Messages, ExpireReply(m)
  PROVE  Kept
  <1>1. /\ reply[m].status = "processing"
        /\ reply' = [reply EXCEPT ![m].status = "failed"]
        /\ UNCHANGED <<event, inbound, run, newest, worker, given>>
        /\ \A w \in Workers : worker[w].msg = m => ~Sends(w)
    BY DEF ExpireReply, Unconfirmed, turnVars, On, Sends, SendAt, TurnAt
  <1>2. /\ reply' \in [Messages -> ReplyRow] /\ reply'[m].status = "failed"
        /\ reply'[m].by = reply[m].by /\ reply'[m].fits = reply[m].fits
        /\ \A n \in Messages : n # m => reply'[n] = reply[n]
    BY <1>1, ReplySet
  <1>3. ChatMay /\ chat \in {"ai", "human", "closed"}
    BY HandsOffMay DEF ExpireReply, ToPerson, ChatMay, PiInv, Shapes
  <1>4. \A v \in Workers : Calls(v) => chat' = chat
    BY DEF ExpireReply, ToPerson, Locked, Calls
  <1>5. Handing' /\ SameHands /\ ~InHand(m)
    <2>1. \A v \in Workers : Sends(v) => worker[v].msg # m /\ worker[v].msg \in Messages
      BY <1>1 DEF PiInv, Handing
    <2>2. \A v \in Workers : Calls(v) => Sends(v)
      BY DEF Calls, Sends, SendAt
    <2>3. \A v \in Workers : Calls(v) => (Fits(worker[v].msg) /\ ~Blocked(worker[v].msg))'
      BY <1>1, <1>2, <1>4, <2>1, <2>2 DEF PiInv, Handing, Fits, Blocked
    <2>4. Handing'
      BY <1>1, <1>2, <2>1, <2>3 DEF PiInv, Handing, Picks, Sends, Calls
    <2>5. QED
      BY <1>1, <2>1, <2>4 DEF SameHands, InHand, On, Sends
  <1>6. Turning' /\ Together'
    BY <1>1, <1>3, SendKeepsTurns DEF ChatMay
  <1>7. Shapes'
    BY <1>1, <1>2, <1>3 DEF PiInv, Shapes, ChatMay
  <1>8. \A n \in Messages : n # m => PromisedReply(n)' = PromisedReply(n)
    BY <1>1, <1>2, <1>5 DEF PromisedReply, SameHands
  <1>9. chat' = chat \/ (chat = "ai" /\ chat' = "human")
    BY <1>3 DEF ExpireReply, ToPerson, HandsOff
  <1>10. CASE given[m] = 0
    <2>1. PromisedReply(m) = [state |-> "ready", by |-> reply[m].by, fits |-> reply[m].fits]
      BY <1>1, <1>10, StateOf
    <2>2. PromisedReply(m)' = [state |-> "withdrawn", by |-> reply[m].by, fits |-> reply[m].fits]
      BY <1>1, <1>2, <1>5, <1>10, Shown DEF SameHands
    <2>3. Promise!Next
      BY <1>1, <1>8, <1>9, <2>1, <2>2, Withdraws
    <2>4. QED
      BY <1>5, <1>6, <1>7, <2>3 DEF Kept, PiInv
  <1>11. CASE given[m] = 1
    <2>1. PromisedReply(m)' = PromisedReply(m)
      BY <1>1, <1>2, <1>11, StateOf, Shown
    <2>2. \A n \in Messages : PromisedReply(n)' = PromisedReply(n)
      BY <1>8, <2>1
    <2>3. chat' = chat \/ (chat # "closed" /\ chat' \in {"ai", "human", "closed"})
      BY <1>3 DEF ChatMay
    <2>4. [Promise!Next]_Promise!promiseVars
      BY <1>1, <2>2, <2>3, Stutters, HandsOver
    <2>5. QED
      BY <1>5, <1>6, <1>7, <2>4 DEF Kept, PiInv
  <1>12. QED
    BY <1>10, <1>11 DEF PiInv, Shapes

----------------------------------------------------------------------------
LEMMA StepKeeps == PiInv /\ [PiNext]_piVars => Kept
  <1> SUFFICES ASSUME PiInv, [PiNext]_piVars PROVE Kept
    OBVIOUS
  <1>1. ASSUME NEW w \in Workers, Turn(w) PROVE Kept
    <2>1. ASSUME ReadChat(w) PROVE Kept
      BY <2>1, ReadChatKeeps
    <2>2. ASSUME NEW by \in {"ai", "system"}, Answer(w, by) PROVE Kept
      BY <2>2, AnswerKeeps
    <2>3. QED
      BY <1>1, <2>1, <2>2, PersistKeeps, NotHereKeeps, LeaveKeeps, AsideKeeps, FinishKeeps DEF Turn
  <1>2. ASSUME NEW w \in Workers, Send(w) PROVE Kept
    BY <1>2, ClaimKeeps, RecheckKeeps, CallKeeps DEF Send
  <1>3. ASSUME NEW w \in Workers, NEW got \in BOOLEAN, SendDies(w, got) PROVE Kept
    BY <1>3, CallKeeps
  <1>4. ASSUME NEW w \in Workers, NEW m \in Messages, Open(w, m) \/ Pick(w, m) PROVE Kept
    BY <1>4, OpenKeeps, PickKeeps
  <1>5. ASSUME NEW m \in Messages, Receive(m) \/ ExpireTurn(m) \/ ExpireReply(m) PROVE Kept
    BY <1>5, ReceiptsKeep, ExpireReplyKeeps
  <1>6. CASE Staff
    BY <1>6, ChangeChatKeeps, ReceiptsKeep DEF Staff
  <1>7. CASE UNCHANGED piVars
    <2>1. event' \in [Messages -> EventRow] /\ ChatMay
      BY <1>7 DEF piVars, PiInv, Shapes, ChatMay
    <2>2. QED
      BY <1>7, <2>1, EventsKeep DEF piVars
  <1>8. QED
    BY <1>1, <1>2, <1>3, <1>4, <1>5, <1>6, <1>7, TurnDiesKeeps, OutageSweepKeeps DEF PiNext

(* The pipeline implements its promise: a reply is handed over once or     *)
(* withdrawn, only while it answers the newest message, and the            *)
(* assistant's own only while no person has the chat (send_pi_message),    *)
(* whatever dies, times out, is repeated, replayed or taken over.          *)
THEOREM KeepsPromise == PiSpec => PromiseKept
  <1>1. PiInit => PiInv /\ Promise!Init
    BY InitHolds
  <1>2. PiInv /\ [PiNext]_piVars => PiInv' /\ [Promise!Next]_Promise!promiseVars
    BY StepKeeps DEF Kept
  <1>3. QED
    BY <1>1, <1>2, PTL DEF PiSpec, PromiseKept, Promise!Spec

(* A message is answered or set aside exactly when its event is processed, *)
(* for any number of workers that run the event at once, whatever parks    *)
(* it, replays it or finds the connection off (process_pi_event,           *)
(* due_replays); only a message that opens another chat has an event that  *)
(* is processed here without it.                                           *)
THEOREM EndTogether == PiSpec => []DoneTogether
  <1>1. PiInit => PiInv
    BY InitHolds
  <1>2. PiInv /\ [PiNext]_piVars => PiInv'
    BY StepKeeps DEF Kept
  <1>3. PiInv => DoneTogether
    BY DEF PiInv, Together
  <1>4. QED
    BY <1>1, <1>2, <1>3, PTL DEF PiSpec
----------------------------------------------------------------------------
(* What the customer said is answered once.  A reply is given only while   *)
(* its message is the last one stored, in the order of the rows, so        *)
(* whoever answers a later message reads the chat after the reply was      *)
(* written, and the row of the reply keeps what it covers out of any later *)
(* burst.                                                                  *)

\* A worker opens an event with an attempt left, and alone: none is counted twice.
Attempts ==
  /\ \A m \in Messages : event[m].attempts \in 0..MaxAttempts
  /\ \A w \in Workers : Opens(w) => event[worker[w].msg].attempts < MaxAttempts

\* A message has one row, from the opening of its event on; the newest was stored.
Row == [kind : {"in", "out"}, of : Messages]
InRows(r) == \E i \in DOMAIN rows : rows[i] = r
OneRow(m) == \A i, j \in DOMAIN rows : rows[i] = In(m) /\ rows[j] = In(m) => i = j
Stored(m) == inbound[m].status # "none"
Opened(m) == \E w \in Workers : Opens(w) /\ worker[w].msg = m
Ordered ==
  /\ rows \in Seq(Row)
  /\ \A m \in Messages : OneRow(m) /\ (InRows(In(m)) <=> Stored(m) \/ Opened(m))
  /\ \A m \in Messages : Stored(m) => newest \in Messages
  /\ newest \in Messages => Stored(newest)

\* A reply stands after all it covers and covers nothing later than its
\* message, and it fits only while that is the last one stored.
Writes(w) == worker[w].at = "writing"
Covering ==
  /\ \A w \in Workers, m \in Messages : Writes(w) /\ worker[w].msg = m =>
       \A k \in worker[w].burst : Stored(k) /\ Precedes(In(k), In(m))
  /\ \A m \in Messages : reply[m].status # "none" =>
       /\ Stored(m)
       /\ \A k \in reply[m].covers :
            Stored(k) /\ Precedes(In(k), Out(m)) /\ (k = m \/ Precedes(In(k), In(m)))
  /\ \A m \in Messages :
       /\ \A n \in reply[m].fits : n \in Messages /\ Stored(n) /\ Stored(m)
       /\ newest \in reply[m].fits => ~Superseded(m)

\* Nothing that a given reply covers is in the hands of a later turn.
Apart ==
  \A m, n \in Messages : given[m] = 1 /\ Stored(n) /\ Precedes(In(m), In(n)) =>
    /\ \A w \in Workers : Writes(w) /\ worker[w].msg = n => worker[w].burst \cap reply[m].covers = {}
    /\ reply[n].status # "none" => reply[n].covers \cap reply[m].covers = {}

Bounds == run \subseteq Messages /\ on \in BOOLEAN /\ outages \in 0..MaxOutages /\ staff \in 0..MaxStaff
AnswerInv == PiInv /\ Attempts /\ Ordered /\ Covering /\ Apart /\ Bounds

----------------------------------------------------------------------------
(* The rows of the chat.                                                   *)

LEMMA RowsGrow ==
  ASSUME rows \in Seq(Row), NEW x \in Row, rows' = Append(rows, x)
  PROVE  /\ rows' \in Seq(Row)
         /\ \A r : InRows(r)' <=> InRows(r) \/ r = x
         /\ \A r, s : Precedes(r, s)' <=> Precedes(r, s) \/ (s = x /\ InRows(r))
         /\ \A m \in Messages : OneRow(m) /\ (x = In(m) => ~InRows(In(m))) => OneRow(m)'
  <1> DEFINE n == Len(rows)
  <1>1. /\ rows' \in Seq(Row) /\ n \in Nat /\ DOMAIN rows = 1..n /\ DOMAIN rows' = 1..(n + 1)
        /\ \A i \in 1..n : rows'[i] = rows[i]
        /\ rows'[n + 1] = x
    <2>1. rows' \in Seq(Row) /\ n \in Nat /\ DOMAIN rows = 1..n /\ Len(rows') = n + 1
      BY AppendProperties, LenProperties
    <2>2. QED
      BY <2>1, AppendProperties, LenProperties
  <1> HIDE DEF n
  <1>2. \A i : i \in 1..(n + 1) <=> i \in 1..n \/ i = n + 1
    BY <1>1
  <1>3. ASSUME NEW r PROVE InRows(r)' <=> InRows(r) \/ r = x
    BY <1>1, <1>2 DEF InRows
  <1>4. ASSUME NEW r, NEW s PROVE Precedes(r, s)' <=> Precedes(r, s) \/ (s = x /\ InRows(r))
    <2>1. CASE Precedes(r, s)
      <3>1. PICK i \in 1..n, j \in 1..n : i < j /\ rows[i] = r /\ rows[j] = s
        BY <1>1, <2>1 DEF Precedes
      <3>2. i \in DOMAIN rows' /\ j \in DOMAIN rows' /\ rows'[i] = r /\ rows'[j] = s
        BY <1>1, <1>2, <3>1
      <3>3. QED
        BY <2>1, <3>1, <3>2 DEF Precedes
    <2>2. CASE s = x /\ InRows(r)
      <3>1. PICK i \in 1..n : rows[i] = r
        BY <1>1, <2>2 DEF InRows
      <3>2. i \in DOMAIN rows' /\ n + 1 \in DOMAIN rows' /\ rows'[i] = r /\ rows'[n + 1] = s /\ i < n + 1
        BY <1>1, <1>2, <2>2, <3>1
      <3>3. QED
        BY <2>2, <3>2 DEF Precedes
    <2>3. ASSUME Precedes(r, s)' PROVE Precedes(r, s) \/ (s = x /\ InRows(r))
      <3>1. PICK i \in 1..(n + 1), j \in 1..(n + 1) : i < j /\ rows'[i] = r /\ rows'[j] = s
        BY <1>1, <2>3 DEF Precedes
      <3>2. i \in 1..n /\ rows[i] = r
        BY <1>1, <1>2, <3>1
      <3>3. CASE j = n + 1
        BY <1>1, <3>1, <3>2, <3>3 DEF InRows
      <3>4. CASE j \in 1..n
        BY <1>1, <3>1, <3>2, <3>4 DEF Precedes
      <3>5. QED
        BY <1>2, <3>1, <3>3, <3>4
    <2>4. QED
      BY <2>1, <2>2, <2>3
  <1>5. ASSUME NEW m \in Messages, OneRow(m), x = In(m) => ~InRows(In(m)) PROVE OneRow(m)'
    <2> SUFFICES ASSUME NEW i \in 1..(n + 1), NEW j \in 1..(n + 1), rows'[i] = In(m), rows'[j] = In(m)
                 PROVE  i = j
      BY <1>1 DEF OneRow
    <2>1. CASE i \in 1..n /\ j \in 1..n
      BY <1>1, <1>5, <2>1 DEF OneRow
    <2>2. CASE i = n + 1 \/ j = n + 1
      BY <1>1, <1>2, <1>5, <2>2 DEF InRows
    <2>3. QED
      BY <1>2, <2>1, <2>2
  <1>6. QED
    BY <1>1, <1>3, <1>4, <1>5

\* The one row of a message is taken back.
LEMMA RowsShrink ==
  ASSUME rows \in Seq(Row), NEW m \in Messages, OneRow(m), TakesBack(m)
  PROVE  /\ rows' \in Seq(Row)
         /\ ~InRows(In(m))'
         /\ \A r : r # In(m) => (InRows(r)' <=> InRows(r))
         /\ \A r, s : r # In(m) /\ s # In(m) => (Precedes(r, s)' <=> Precedes(r, s))
         /\ \A n \in Messages : OneRow(n) => OneRow(n)'
  <1>1. PICK k \in DOMAIN rows : rows[k] = In(m) /\ rows' = SubSeq(rows, 1, k - 1) \o SubSeq(rows, k + 1, Len(rows))
    BY DEF TakesBack, RemoveAt
  <1> DEFINE n == Len(rows)
             from(i) == IF i < k THEN i ELSE i + 1
             to(i) == IF i < k THEN i ELSE i - 1
  <1>2. n \in Nat /\ DOMAIN rows = 1..n /\ k \in 1..n /\ \A i \in 1..n : rows[i] \in Row
    BY <1>1, LenProperties, ElementOfSeq
  <1>3. /\ SubSeq(rows, 1, k - 1) \in Seq(Row) /\ Len(SubSeq(rows, 1, k - 1)) = k - 1
        /\ \A i \in 1..(k - 1) : SubSeq(rows, 1, k - 1)[i] = rows[i]
    BY <1>2, SubSeqProperties
  <1>4. /\ SubSeq(rows, k + 1, n) \in Seq(Row) /\ Len(SubSeq(rows, k + 1, n)) = n - k
        /\ \A i \in 1..(n - k) : SubSeq(rows, k + 1, n)[i] = rows[k + i]
    BY <1>2, SubSeqProperties
  <1> DEFINE front == SubSeq(rows, 1, k - 1)
             back == SubSeq(rows, k + 1, n)
  <1>5. /\ rows' \in Seq(Row) /\ Len(rows') = n - 1
        /\ \A i \in 1..(n - 1) : rows'[i] = IF i < k THEN front[i] ELSE back[i - (k - 1)]
    <2>1. rows' = front \o back
      BY <1>1
    <2>2. /\ front \in Seq(Row) /\ Len(front) = k - 1
          /\ back \in Seq(Row) /\ Len(back) = n - k
      BY <1>3, <1>4
    <2> HIDE DEF front, back, n
    <2>3. /\ rows' \in Seq(Row) /\ Len(rows') = (k - 1) + (n - k)
          /\ \A i \in 1..((k - 1) + (n - k)) : rows'[i] = IF i <= k - 1 THEN front[i] ELSE back[i - (k - 1)]
      BY <2>1, <2>2, ConcatProperties
    <2>4. QED
      BY <1>2, <2>3
  <1>6. DOMAIN rows' = 1..(n - 1) /\ \A i \in 1..(n - 1) : rows'[i] = rows[from(i)]
    <2>1. DOMAIN rows' = 1..(n - 1)
      BY <1>5, LenProperties
    <2>2. ASSUME NEW i \in 1..(n - 1) PROVE rows'[i] = rows[from(i)]
      <3>1. CASE i < k
        BY <1>2, <1>3, <1>5, <3>1
      <3>2. CASE i >= k
        <4>1. i - (k - 1) \in 1..(n - k) /\ k + (i - (k - 1)) = i + 1
          BY <1>2, <3>2
        <4>2. back[i - (k - 1)] = rows[i + 1]
          BY <1>4, <4>1
        <4>3. ~(i < k) /\ from(i) = i + 1
          BY <1>2, <3>2
        <4>4. rows'[i] = back[i - (k - 1)]
          BY <1>5, <4>3
        <4>5. QED
          BY <4>2, <4>3, <4>4
      <3>3. QED
        BY <1>2, <3>1, <3>2
    <2>3. QED
      BY <2>1, <2>2
  <1> HIDE DEF n, front, back
  <1>7. /\ \A i \in 1..(n - 1) : from(i) \in 1..n /\ from(i) # k /\ to(from(i)) = i
        /\ \A i \in 1..n : i # k => to(i) \in 1..(n - 1) /\ from(to(i)) = i
        /\ \A i, j \in 1..(n - 1) : from(i) < from(j) <=> i < j
    BY <1>2
  <1> HIDE DEF from, to
  <1>8. \A i \in 1..n : rows[i] = In(m) <=> i = k
    BY <1>1, <1>2 DEF OneRow
  <1>9. \A i \in 1..n : i # k => rows'[to(i)] = rows[i]
    BY <1>6, <1>7
  <1>10. ~InRows(In(m))'
    BY <1>6, <1>7, <1>8 DEF InRows
  <1>11. ASSUME NEW r, r # In(m) PROVE InRows(r)' <=> InRows(r)
    BY <1>2, <1>6, <1>7, <1>8, <1>9, <1>11 DEF InRows
  <1>12. ASSUME NEW r, NEW s, r # In(m), s # In(m) PROVE Precedes(r, s)' <=> Precedes(r, s)
    <2>1. ASSUME Precedes(r, s) PROVE Precedes(r, s)'
      <3>1. PICK i \in 1..n, j \in 1..n : i < j /\ rows[i] = r /\ rows[j] = s
        BY <1>2, <2>1 DEF Precedes
      <3>2. i # k /\ j # k
        BY <1>8, <1>12, <3>1
      <3>3. to(i) \in 1..(n - 1) /\ to(j) \in 1..(n - 1) /\ to(i) < to(j)
        BY <1>7, <3>1, <3>2
      <3>4. rows'[to(i)] = r /\ rows'[to(j)] = s
        BY <1>9, <3>1, <3>2
      <3>5. QED
        BY <1>6, <3>3, <3>4 DEF Precedes
    <2>2. ASSUME Precedes(r, s)' PROVE Precedes(r, s)
      <3>1. PICK i \in 1..(n - 1), j \in 1..(n - 1) : i < j /\ rows'[i] = r /\ rows'[j] = s
        BY <1>6, <2>2 DEF Precedes
      <3>2. from(i) \in 1..n /\ from(j) \in 1..n /\ from(i) < from(j) /\ rows[from(i)] = r /\ rows[from(j)] = s
        BY <1>6, <1>7, <3>1
      <3>3. QED
        BY <1>2, <3>2 DEF Precedes
    <2>3. QED
      BY <2>1, <2>2
  <1>13. ASSUME NEW l \in Messages, OneRow(l) PROVE OneRow(l)'
    <2> SUFFICES ASSUME NEW i \in 1..(n - 1), NEW j \in 1..(n - 1), rows'[i] = In(l), rows'[j] = In(l)
                 PROVE  i = j
      BY <1>6 DEF OneRow
    <2>1. from(i) = from(j)
      BY <1>2, <1>6, <1>7, <1>13 DEF OneRow
    <2>2. QED
      BY <1>7, <2>1
  <1>14. QED
    BY <1>5, <1>10, <1>11, <1>12, <1>13

\* Two messages with rows stand one before the other, and not both ways.
LEMMA RowsInOrder ==
  ASSUME rows \in Seq(Row), NEW m \in Messages, NEW n \in Messages, OneRow(m), OneRow(n)
  PROVE  /\ ~(Precedes(In(m), In(n)) /\ Precedes(In(n), In(m)))
         /\ InRows(In(m)) /\ InRows(In(n)) /\ m # n => Precedes(In(m), In(n)) \/ Precedes(In(n), In(m))
  <1>1. DOMAIN rows = 1..Len(rows) /\ Len(rows) \in Nat
    BY LenProperties
  <1>2. m # n => In(m) # In(n)
    BY DEF In
  <1>3. ~(Precedes(In(m), In(n)) /\ Precedes(In(n), In(m)))
    BY <1>1 DEF Precedes, OneRow
  <1>4. ASSUME InRows(In(m)), InRows(In(n)), m # n PROVE Precedes(In(m), In(n)) \/ Precedes(In(n), In(m))
    <2>1. PICK i \in 1..Len(rows), j \in 1..Len(rows) : rows[i] = In(m) /\ rows[j] = In(n)
      BY <1>1, <1>4 DEF InRows
    <2>2. i < j \/ j < i
      BY <1>1, <1>2, <1>4, <2>1
    <2>3. QED
      BY <1>1, <2>1, <2>2 DEF Precedes
  <1>5. QED
    BY <1>3, <1>4

----------------------------------------------------------------------------
(* Steps that leave the answers alone.                                     *)

LEMMA Kinds ==
  ASSUME NEW m \in Messages
  PROVE  /\ In(m) \in Row /\ Out(m) \in Row
         /\ \A n \in Messages : In(n) # Out(m) /\ (In(n) = In(m) => n = m)
  BY DEF In, Out, Row

\* What a step keeps of stored messages, drafts and replies.
Undisturbed ==
  /\ \A m \in Messages : Stored(m)' <=> Stored(m)
  /\ newest' = newest
  /\ \A w \in Workers : Writes(w)' =>
       Writes(w) /\ worker'[w].msg = worker[w].msg /\ worker'[w].burst = worker[w].burst
  /\ \A m \in Messages :
       /\ reply'[m].covers = reply[m].covers /\ reply'[m].fits = reply[m].fits
       /\ reply'[m].status = "none" <=> reply[m].status = "none"
  /\ \A k, n \in Messages : Stored(k) /\ Stored(n) => (Precedes(In(k), In(n))' <=> Precedes(In(k), In(n)))
  /\ \A k, n \in Messages : Stored(k) /\ Precedes(In(k), Out(n)) => Precedes(In(k), Out(n))'

\* A reply that is given fits: no turn is later.
GivesFitting == \A m \in Messages : given'[m] = given[m] \/ newest \in reply[m].fits

LEMMA AnswersStay ==
  ASSUME AnswerInv, Undisturbed, GivesFitting
  PROVE  Covering' /\ Apart'
  <1>1. \A w \in Workers : Writes(w) => worker[w].msg \in Messages /\ Stored(worker[w].msg)
    BY DEF AnswerInv, PiInv, Turning, Thinks, Writes, Stored
  <1>2. /\ \A w \in Workers : worker[w].burst \subseteq Messages
        /\ \A m \in Messages : reply[m].covers \subseteq Messages
    BY DEF AnswerInv, PiInv, Shapes, WorkerRow, ReplyRow
  <1>3. ASSUME NEW w \in Workers, NEW m \in Messages, Writes(w)', worker'[w].msg = m, NEW k \in worker'[w].burst
        PROVE  Stored(k)' /\ Precedes(In(k), In(m))'
    <2>1. Writes(w) /\ worker[w].msg = m /\ k \in worker[w].burst /\ k \in Messages /\ Stored(m)
      BY <1>1, <1>2, <1>3 DEF Undisturbed
    <2>2. Stored(k) /\ Precedes(In(k), In(m))
      BY <2>1 DEF AnswerInv, Covering
    <2>3. QED
      BY <2>1, <2>2 DEF Undisturbed
  <1>4. ASSUME NEW m \in Messages, reply'[m].status # "none"
        PROVE  /\ Stored(m)'
               /\ \A k \in reply'[m].covers :
                    Stored(k)' /\ Precedes(In(k), Out(m))' /\ (k = m \/ Precedes(In(k), In(m))')
    <2>1. reply[m].status # "none" /\ reply'[m].covers = reply[m].covers /\ reply[m].covers \subseteq Messages
      BY <1>2, <1>4 DEF Undisturbed
    <2>2. /\ Stored(m)
          /\ \A k \in reply[m].covers :
               Stored(k) /\ Precedes(In(k), Out(m)) /\ (k = m \/ Precedes(In(k), In(m)))
      BY <2>1 DEF AnswerInv, Covering
    <2>3. QED
      BY <2>1, <2>2 DEF Undisturbed
  <1>5. ASSUME NEW m \in Messages
        PROVE  /\ \A n \in reply'[m].fits : n \in Messages /\ Stored(n)' /\ Stored(m)'
               /\ newest' \in reply'[m].fits => ~Superseded(m)'
    <2>1. /\ \A n \in reply[m].fits : n \in Messages /\ Stored(n) /\ Stored(m)
          /\ newest \in reply[m].fits => ~Superseded(m)
      BY DEF AnswerInv, Covering
    <2>2. reply'[m].fits = reply[m].fits /\ newest' = newest
      BY DEF Undisturbed
    <2>3. ASSUME newest \in reply[m].fits, NEW n \in Messages, Stored(n)', Precedes(In(m), In(n))' PROVE FALSE
      <3>1. Stored(m) /\ Stored(n)
        BY <2>1, <2>3 DEF Undisturbed
      <3>2. Precedes(In(m), In(n))
        BY <2>3, <3>1 DEF Undisturbed
      <3>3. QED
        BY <2>1, <2>3, <3>1, <3>2 DEF Superseded, Stored
    <2>4. newest' \in reply'[m].fits => ~Superseded(m)'
      BY <2>2, <2>3 DEF Superseded, Stored
    <2>5. QED
      BY <2>1, <2>2, <2>4 DEF Undisturbed
  <1>6. Covering'
    BY <1>3, <1>4, <1>5 DEF Covering
  <1>7. ASSUME NEW m \in Messages, NEW n \in Messages, given'[m] = 1, Stored(n)', Precedes(In(m), In(n))'
        PROVE  /\ \A w \in Workers : Writes(w)' /\ worker'[w].msg = n => worker'[w].burst \cap reply'[m].covers = {}
               /\ reply'[n].status # "none" => reply'[n].covers \cap reply'[m].covers = {}
    <2>1. Stored(n)
      BY <1>7 DEF Undisturbed
    <2>2. CASE given[m] = 1
      <3>1. reply[m].status # "none"
        BY <2>2 DEF AnswerInv, PiInv, Handing
      <3>2. Stored(m)
        BY <3>1 DEF AnswerInv, Covering
      <3>3. Precedes(In(m), In(n))
        BY <1>7, <2>1, <3>2 DEF Undisturbed
      <3>4. /\ \A w \in Workers : Writes(w) /\ worker[w].msg = n => worker[w].burst \cap reply[m].covers = {}
            /\ reply[n].status # "none" => reply[n].covers \cap reply[m].covers = {}
        BY <2>1, <2>2, <3>3 DEF AnswerInv, Apart
      <3>5. QED
        BY <3>4 DEF Undisturbed
    <2>3. CASE newest \in reply[m].fits
      <3>1. newest \in Messages /\ Stored(m) /\ ~Superseded(m)
        BY <2>3 DEF AnswerInv, Covering
      <3>2. Precedes(In(m), In(n))
        BY <1>7, <2>1, <3>1 DEF Undisturbed
      <3>3. QED
        BY <2>1, <3>1, <3>2 DEF Superseded, Stored
    <2>4. QED
      BY <1>7, <2>2, <2>3 DEF GivesFitting
  <1>8. QED
    BY <1>6, <1>7 DEF Apart

\* What a step keeps of the rows when no message is stored, opened or taken back.
LEMMA OrderStays ==
  ASSUME AnswerInv, newest' = newest,
         rows' = rows \/ \E x \in Messages : rows' = Append(rows, Out(x)),
         \A m \in Messages : Stored(m)' <=> Stored(m),
         \A m \in Messages : Stored(m) \/ (Opened(m)' <=> Opened(m))
  PROVE  /\ Ordered'
         /\ \A k, n \in Messages : Precedes(In(k), In(n))' <=> Precedes(In(k), In(n))
         /\ \A k, n \in Messages : Precedes(In(k), Out(n)) => Precedes(In(k), Out(n))'
  <1>1. /\ rows' \in Seq(Row)
        /\ \A m \in Messages : OneRow(m)' /\ (InRows(In(m))' <=> InRows(In(m)))
        /\ \A k, n \in Messages : Precedes(In(k), In(n))' <=> Precedes(In(k), In(n))
        /\ \A k, n \in Messages : Precedes(In(k), Out(n)) => Precedes(In(k), Out(n))'
    <2>1. CASE rows' = rows
      BY <2>1 DEF AnswerInv, Ordered, OneRow, InRows, Precedes
    <2>2. ASSUME NEW x \in Messages, rows' = Append(rows, Out(x))
          PROVE  /\ rows' \in Seq(Row)
                 /\ \A m \in Messages : OneRow(m)' /\ (InRows(In(m))' <=> InRows(In(m)))
                 /\ \A k, n \in Messages : Precedes(In(k), In(n))' <=> Precedes(In(k), In(n))
                 /\ \A k, n \in Messages : Precedes(In(k), Out(n)) => Precedes(In(k), Out(n))'
      <3>1. /\ rows' \in Seq(Row)
            /\ \A r : InRows(r)' <=> InRows(r) \/ r = Out(x)
            /\ \A r, s : Precedes(r, s)' <=> Precedes(r, s) \/ (s = Out(x) /\ InRows(r))
            /\ \A m \in Messages : OneRow(m) /\ (Out(x) = In(m) => ~InRows(In(m))) => OneRow(m)'
        BY <2>2, Kinds, RowsGrow DEF AnswerInv, Ordered
      <3>2. \A m \in Messages : In(m) # Out(x) /\ OneRow(m)
        BY Kinds DEF AnswerInv, Ordered
      <3>3. QED
        BY <3>1, <3>2
    <2>3. QED
      BY <2>1, <2>2
  <1>2. \A m \in Messages : InRows(In(m))' <=> Stored(m)' \/ Opened(m)'
    BY <1>1 DEF AnswerInv, Ordered
  <1>3. Ordered'
    BY <1>1, <1>2 DEF AnswerInv, Ordered
  <1>4. QED
    BY <1>1, <1>3

SameReplies ==
  \A m \in Messages :
    /\ reply'[m].covers = reply[m].covers /\ reply'[m].fits = reply[m].fits
    /\ reply'[m].status = "none" <=> reply[m].status = "none"
SameStored == newest' = newest /\ \A m \in Messages : Stored(m)' <=> Stored(m)
MayNotify == rows' = rows \/ \E x \in Messages : rows' = Append(rows, Out(x))

\* Workers go on or are done with what they did.
LEMMA QuietAnswers ==
  ASSUME AnswerInv, SameStored, SameReplies, MayNotify, GivesFitting,
         \A v \in Workers :
           \/ worker'[v] = worker[v]
           \/ (Opens(v) => Stored(worker[v].msg)) /\ ~Writes(v)' /\ ~Opens(v)'
  PROVE  Ordered' /\ Covering' /\ Apart'
  <1>1. \A m \in Messages : Stored(m) \/ (Opened(m)' <=> Opened(m))
    BY DEF Opened, Opens
  <1>2. /\ Ordered'
        /\ \A k, n \in Messages : Precedes(In(k), In(n))' <=> Precedes(In(k), In(n))
        /\ \A k, n \in Messages : Precedes(In(k), Out(n)) => Precedes(In(k), Out(n))'
    BY <1>1, OrderStays DEF SameStored, MayNotify
  <1>3. \A w \in Workers : Writes(w)' =>
          Writes(w) /\ worker'[w].msg = worker[w].msg /\ worker'[w].burst = worker[w].burst
    BY DEF Writes
  <1>4. Undisturbed
    BY <1>2, <1>3 DEF Undisturbed, SameStored, SameReplies
  <1>5. QED
    BY <1>2, <1>4, AnswersStay

LEMMA AttemptsStay ==
  ASSUME AnswerInv,
         \A w \in Workers : Opens(w)' => Opens(w) /\ worker'[w].msg = worker[w].msg,
         \A m \in Messages :
           \/ event'[m].attempts = event[m].attempts
           \/ event'[m].attempts \in 0..MaxAttempts /\ \A w \in Workers : Opens(w)' => worker'[w].msg # m
  PROVE  Attempts'
  <1>1. \A w \in Workers : Opens(w) => worker[w].msg \in Messages
    BY DEF AnswerInv, PiInv, Turning
  <1>2. QED
    BY <1>1 DEF AnswerInv, Attempts

\* A turn that ends writes no reply and starts none.
LEMMA EndedQuietly ==
  ASSUME AnswerInv, NEW w \in Workers, Thinks(w), EventDone(worker[w].msg), Ends(w), UNCHANGED <<newest, reply, given>>,
         \A m \in Messages : Stored(m)' <=> Stored(m), MayNotify
  PROVE  Attempts' /\ Ordered' /\ Covering' /\ Apart'
  <1>1. worker'[w] = Idle /\ \A v \in Workers : v # w => worker'[v] = worker[v]
    BY IdleRow, WorkerMoves DEF AnswerInv, Ends, OneWorker
  <1>2. ~Opens(w) /\ ~Opens(w)' /\ ~Writes(w)'
    BY <1>1, IdleRow DEF Opens, Thinks, Writes
  <1>3. Ordered' /\ Covering' /\ Apart'
    BY <1>1, <1>2, QuietAnswers DEF SameStored, SameReplies, GivesFitting
  <1>4. \A m \in Messages : event'[m].attempts = event[m].attempts
    BY DEF EventDone, AnswerInv, PiInv, Shapes, EventRow
  <1>5. Attempts'
    BY <1>1, <1>2, <1>4, AttemptsStay DEF Opens
  <1>6. QED
    BY <1>3, <1>5

LEMMA StoredStays ==
  ASSUME AnswerInv, NEW w \in Workers, Thinks(w), NEW status \in {"skipped", "processed"}, NEW code,
         Closes(worker[w].msg, status, code)
  PROVE  EventDone(worker[w].msg) /\ \A m \in Messages : Stored(m)' <=> Stored(m)
  <1>1. Stored(worker[w].msg) /\ worker[w].msg \in Messages /\ inbound \in [Messages -> InboundRow]
    BY DEF AnswerInv, PiInv, Turning, Shapes, Stored
  <1>2. inbound' = [inbound EXCEPT ![worker[w].msg] = [status |-> status, code |-> code]]
    BY DEF Closes
  <1>3. \A m \in Messages : m # worker[w].msg => inbound'[m] = inbound[m]
    BY <1>1, <1>2
  <1>4. inbound'[worker[w].msg].status = status
    BY <1>1, <1>2
  <1>5. QED
    BY <1>1, <1>3, <1>4 DEF Closes, Stored

\* Whatever a turn does but begin, read and answer.
Ending(w) ==
  \/ Leave(w) \/ Coalesce(w) \/ Dismiss(w) \/ Limit(w)
  \/ RefuseDraft(w) \/ AlreadyRun(w) \/ Park(w) \/ HandOff(w)

LEMMA EndingAnswers ==
  ASSUME AnswerInv, NEW w \in Workers, Ending(w)
  PROVE  Attempts' /\ Ordered' /\ Covering' /\ Apart'
  <1>1. Thinks(w) /\ Ends(w) /\ worker[w].msg \in Messages /\ UNCHANGED <<newest, reply, given>>
    <2>1. worker[w].at # "repeat"
      BY DEF AnswerInv, PiInv, Turning
    <2>2. Thinks(w) /\ Ends(w) /\ UNCHANGED <<newest, reply, given>>
      BY <2>1 DEF Ending, Leave, Coalesce, Dismiss, Limit, Proceeds, SetAside, RefuseDraft, AlreadyRun, Park, HandOff,
                  Runs, Finishing, Thinks, convVars
    <2>3. QED
      BY <2>2 DEF AnswerInv, PiInv, Turning
  <1>2. MayNotify
    BY <1>1 DEF Ending, Leave, Coalesce, Dismiss, Limit, RefuseDraft, AlreadyRun, Park, HandOff, MayNotify, convVars
  <1>3. \/ \E status \in {"skipped", "processed"}, code \in Codes : Closes(worker[w].msg, status, code)
        \/ EventDone(worker[w].msg) /\ inbound' = inbound
    <2>1. {"", "burst", "dismissed", "limited", "loop", "outage"} \subseteq Codes
      BY DEF Codes
    <2>2. CASE Leave(w)
      BY <2>1, <2>2 DEF Leave
    <2>3. CASE Coalesce(w) \/ Dismiss(w) \/ Limit(w)
      BY <2>1, <2>3 DEF Coalesce, Dismiss, Limit, SetAside
    <2>4. CASE RefuseDraft(w)
      <3> DEFINE code == IF chat = "ai" /\ newest # worker[w].seen THEN "burst" ELSE ""
      <3>1. code \in Codes /\ Closes(worker[w].msg, "skipped", code)
        BY <2>1, <2>4 DEF RefuseDraft
      <3>2. QED
        BY <3>1
    <2>5. CASE AlreadyRun(w)
      BY <2>5 DEF AlreadyRun
    <2>6. CASE Park(w) \/ HandOff(w)
      BY <2>1, <2>6 DEF Park, HandOff
    <2>7. QED
      BY <2>2, <2>3, <2>4, <2>5, <2>6 DEF Ending
  <1>4. EventDone(worker[w].msg) /\ \A m \in Messages : Stored(m)' <=> Stored(m)
    <2>1. CASE inbound' = inbound /\ EventDone(worker[w].msg)
      BY <2>1 DEF Stored
    <2>2. ASSUME NEW status \in {"skipped", "processed"}, NEW code \in Codes, Closes(worker[w].msg, status, code)
          PROVE  EventDone(worker[w].msg) /\ \A m \in Messages : Stored(m)' <=> Stored(m)
      BY <1>1, <2>2, StoredStays
    <2>3. QED
      BY <1>3, <2>1, <2>2
  <1>5. QED
    BY <1>1, <1>2, <1>4, EndedQuietly

LEMMA EventAnswers ==
  ASSUME AnswerInv, NEW m \in Messages, Receive(m) \/ ExpireTurn(m) \/ ReplayEvent(m)
  PROVE  Attempts' /\ Ordered' /\ Covering' /\ Apart'
  <1>1. UNCHANGED <<inbound, rows, newest, reply, worker, given>>
    BY DEF Receive, ExpireTurn, ReplayEvent, StaffActs, convVars
  <1>2. Ordered' /\ Covering' /\ Apart'
    BY <1>1, QuietAnswers DEF SameStored, SameReplies, MayNotify, GivesFitting, Stored
  <1>3. event \in [Messages -> EventRow] /\ 0 \in 0..MaxAttempts
    BY PiAssumption DEF AnswerInv, PiInv, Shapes
  <1>4. \A n \in Messages :
           \/ event'[n].attempts = event[n].attempts
           \/ event'[n].attempts = 0 /\ n = m /\ EventFree(m)
    BY <1>3 DEF Receive, ExpireTurn, ReplayEvent, EventRow
  <1>5. Attempts'
    BY <1>1, <1>3, <1>4, AttemptsStay DEF Opens, EventFree, On
  <1>6. QED
    BY <1>2, <1>5

LEMMA ChatAnswers ==
  ASSUME AnswerInv, NEW to \in {"ai", "human", "closed"}, ChangeChat(to) \/ Switch
  PROVE  Attempts' /\ Ordered' /\ Covering' /\ Apart'
  <1>1. UNCHANGED <<event, inbound, rows, newest, reply, worker, given>>
    BY DEF ChangeChat, Switch, StaffActs
  <1>2. Ordered' /\ Covering' /\ Apart'
    BY <1>1, QuietAnswers DEF SameStored, SameReplies, MayNotify, GivesFitting, Stored
  <1>3. Attempts'
    BY <1>1, AttemptsStay DEF Opens
  <1>4. QED
    BY <1>2, <1>3

LEMMA SweepAnswers ==
  ASSUME AnswerInv, NEW age \in {"early", "due", "late"}, OutageSweep(age)
  PROVE  Attempts' /\ Ordered' /\ Covering' /\ Apart'
  <1> DEFINE gone == chat # "ai" \/ age = "late"
             again == {m \in Messages : Replayable(m) /\ ~gone /\ age = "due"}
  <1>1. /\ UNCHANGED <<rows, newest, reply, worker, given>> /\ \A m \in again : EventFree(m)
        /\ \A m \in Messages : event'[m] = IF m \in again THEN RunAgain(m) ELSE event[m]
    BY DEF OutageSweep, convVars
  <1>2. ASSUME NEW m \in Messages PROVE Stored(m)' <=> Stored(m)
    <2>1. inbound'[m] = IF ~Parked(m) THEN inbound[m]
                        ELSE IF Settled(m) THEN [inbound[m] EXCEPT !.code = "answered"]
                        ELSE IF gone THEN [inbound[m] EXCEPT !.code = "dropped"]
                        ELSE IF m \in again THEN [status |-> "received", code |-> ""]
                        ELSE inbound[m]
      BY DEF OutageSweep
    <2>2. inbound[m] \in InboundRow
      BY DEF AnswerInv, PiInv, Shapes
    <2>3. ~Parked(m) => inbound'[m] = inbound[m]
      BY <2>1
    <2>4. ASSUME Parked(m) PROVE inbound[m].status # "none" /\ inbound'[m].status # "none"
      <3>1. inbound[m].status = "skipped"
        BY <2>4 DEF Parked
      <3>2. \A code \in {"answered", "dropped"} : [inbound[m] EXCEPT !.code = code].status = "skipped"
        BY <2>2, <3>1 DEF InboundRow
      <3> DEFINE fresh == [status |-> "received", code |-> ""]
      <3>3. fresh.status = "received"
        OBVIOUS
      <3>4. CASE \E code \in {"answered", "dropped"} : inbound'[m] = [inbound[m] EXCEPT !.code = code]
        BY <3>1, <3>2, <3>4
      <3>5. CASE inbound'[m] = fresh
        <4> HIDE DEF fresh
        <4>1. QED
          BY <3>1, <3>3, <3>5
      <3>6. CASE inbound'[m] = inbound[m]
        BY <3>1, <3>6
      <3>7. QED
        BY <2>1, <2>4, <3>4, <3>5, <3>6
    <2>5. QED
      BY <2>3, <2>4 DEF Stored
  <1>3. Ordered' /\ Covering' /\ Apart'
    BY <1>1, <1>2, QuietAnswers DEF SameStored, SameReplies, MayNotify, GivesFitting
  <1>4. \A m \in again : event'[m].attempts = 0
    BY <1>1 DEF RunAgain
  <1>5. \A m \in Messages : m \notin again => event'[m] = event[m]
    BY <1>1
  <1>6. \A m \in again, w \in Workers : Opens(w)' => worker'[w].msg # m
    BY <1>1 DEF EventFree, On, Opens
  <1>7. \A w \in Workers : Opens(w)' => Opens(w) /\ worker'[w].msg = worker[w].msg
    BY <1>1 DEF Opens
  <1> HIDE DEF again
  <1>8. Attempts'
    BY <1>4, <1>5, <1>6, <1>7, PiAssumption, AttemptsStay
  <1>9. QED
    BY <1>3, <1>8

\* The steps of a sender.
Sending(w) ==
  \/ \E m \in Messages : Pick(w, m)
  \/ SkipOff(w) \/ Claim(w) \/ Recheck(w) \/ Sent(w) \/ \E got \in BOOLEAN : Rejected(w, got) \/ SendDies(w, got)

LEMMA SendingAnswers ==
  ASSUME AnswerInv, NEW w \in Workers, Sending(w)
  PROVE  Attempts' /\ Ordered' /\ Covering' /\ Apart'
  <1>1. UNCHANGED <<event, inbound, rows, newest>>
    BY DEF Sending, Pick, SkipOff, Claim, Recheck, Sent, Rejected, SendDies, turnVars, convVars
  <1>2. /\ \A v \in Workers : v # w => worker'[v] = worker[v]
        /\ \/ worker'[w] = worker[w]
           \/ ~Opens(w) /\ ~Opens(w)' /\ ~Writes(w)'
    <2>1. worker \in [Workers -> WorkerRow]
      BY DEF AnswerInv, PiInv, Shapes
    <2>2. ASSUME NEW m \in Messages, Pick(w, m)
          PROVE  /\ \A v \in Workers : v # w => worker'[v] = worker[v]
                 /\ worker'[w] = worker[w] \/ (~Opens(w) /\ ~Opens(w)' /\ ~Writes(w)')
      <3>1. worker[w] = Idle /\ worker' = [worker EXCEPT ![w] = [Idle EXCEPT !.at = "picked", !.msg = m]]
        BY <2>2 DEF Pick
      <3>2. [Idle EXCEPT !.at = "picked", !.msg = m].at = "picked"
        BY DEF Idle
      <3>3. QED
        BY <2>1, <3>1, <3>2, IdleRow DEF Opens, Writes
    <2>3. CASE SkipOff(w) \/ Claim(w) \/ Recheck(w)
      <3>1. /\ worker[w].at \in {"picked", "claimed"}
            /\ \/ worker' = [worker EXCEPT ![w] = Idle]
               \/ \E at \in {"claimed", "calling"} : worker' = [worker EXCEPT ![w].at = at]
        BY <2>3 DEF SkipOff, Claim, Recheck, Ends, Goes
      <3>2. QED
        BY <2>1, <3>1, IdleRow DEF Opens, Writes, WorkerRow
    <2>4. CASE Sent(w) \/ \E got \in BOOLEAN : Rejected(w, got) \/ SendDies(w, got)
      <3>1. worker[w].at \in {"claimed", "calling"} /\ worker' = [worker EXCEPT ![w] = Idle]
        BY <2>4 DEF Sent, Rejected, SendDies, SendAt, Ends
      <3>2. QED
        BY <2>1, <3>1, IdleRow DEF Opens, Writes
    <2>5. QED
      BY <2>2, <2>3, <2>4 DEF Sending
  <1>3. SameReplies
    <2>1. ASSUME NEW m \in Messages, NEW status \in {"queued", "processing", "sent", "failed", "skipped"},
                 reply[m].status # "none", reply' = [reply EXCEPT ![m].status = status]
          PROVE  SameReplies
      <3>1. reply \in [Messages -> ReplyRow]
        BY DEF AnswerInv, PiInv, Shapes
      <3>2. reply'[m] = [reply[m] EXCEPT !.status = status] /\ \A n \in Messages : n # m => reply'[n] = reply[n]
        BY <2>1, <3>1
      <3>3. reply'[m].covers = reply[m].covers /\ reply'[m].fits = reply[m].fits /\ reply'[m].status = status
        BY <3>1, <3>2 DEF ReplyRow
      <3>4. QED
        BY <2>1, <3>2, <3>3 DEF SameReplies
    <2>2. CASE reply' = reply
      BY <2>2 DEF SameReplies
    <2>3. Sends(w) \/ Picks(w) => worker[w].msg \in Messages /\ reply[worker[w].msg].status # "none"
      BY DEF AnswerInv, PiInv, Handing
    <2>4. CASE (\E m \in Messages : Pick(w, m)) \/ SkipOff(w) \/ Claim(w)
      BY <2>1, <2>2, <2>3, <2>4 DEF Pick, SkipOff, Claim, Picks
    <2>5. CASE Recheck(w)
      BY <2>1, <2>2, <2>3, <2>5 DEF Recheck, Sends, SendAt
    <2>6. CASE Sent(w) \/ \E got \in BOOLEAN : Rejected(w, got) \/ SendDies(w, got)
      BY <2>1, <2>2, <2>3, <2>6 DEF Sent, Rejected, SendDies, Sends, SendAt
    <2>7. QED
      BY <2>4, <2>5, <2>6 DEF Sending
  <1>4. GivesFitting
    <2>1. Calls(w) => newest \in reply[worker[w].msg].fits
      BY DEF AnswerInv, PiInv, Handing, Fits
    <2>2. ASSUME NEW got \in BOOLEAN, got => Calls(w), Given(w, got) PROVE GivesFitting
      <3>1. given \in [Messages -> {0, 1}]
        BY DEF AnswerInv, PiInv, Shapes
      <3>2. CASE got
        BY <2>1, <2>2, <3>1, <3>2 DEF Given, GivesFitting
      <3>3. CASE ~got
        <4>1. given' = [given EXCEPT ![worker[w].msg] = @ + 0]
          BY <2>2, <3>3 DEF Given
        <4>2. \A m \in Messages : given[m] + 0 = given[m]
          BY <3>1
        <4>3. QED
          BY <3>1, <4>1, <4>2 DEF GivesFitting
      <3>4. QED
        BY <3>2, <3>3
    <2>3. CASE given' = given
      BY <2>3 DEF GivesFitting
    <2>4. CASE Sent(w) \/ \E got \in BOOLEAN : Rejected(w, got) \/ SendDies(w, got)
      BY <2>2, <2>4 DEF Sent, Rejected, SendDies, Calls
    <2>5. QED
      BY <2>3, <2>4 DEF Sending, Pick, SkipOff, Claim, Recheck
  <1>5. Ordered' /\ Covering' /\ Apart'
    BY <1>1, <1>2, <1>3, <1>4, QuietAnswers DEF SameStored, MayNotify, Stored
  <1>6. \A v \in Workers : Opens(v)' => Opens(v) /\ worker'[v].msg = worker[v].msg
    BY <1>2 DEF Opens
  <1>7. Attempts'
    BY <1>1, <1>6, AttemptsStay
  <1>8. QED
    BY <1>5, <1>7

----------------------------------------------------------------------------
(* The steps that open, store, read and answer.                            *)

\* A first transaction is rolled back: its message was nowhere else.
LEMMA TakenBackAnswers ==
  ASSUME AnswerInv, NEW w \in Workers, NEW m \in Messages, Opens(w), m = worker[w].msg, ~Stored(m),
         TakesBack(m), Ends(w), UNCHANGED <<inbound, newest, reply, given>>
  PROVE  Ordered' /\ Covering' /\ Apart'
  <1>1. worker'[w] = Idle /\ \A v \in Workers : v # w => worker'[v] = worker[v]
    BY IdleRow, WorkerMoves DEF AnswerInv, Ends, OneWorker
  <1>2. ~Opens(w)' /\ ~Writes(w)'
    BY <1>1, IdleRow DEF Opens, Writes
  <1>3. /\ rows' \in Seq(Row)
        /\ ~InRows(In(m))'
        /\ \A r : r # In(m) => (InRows(r)' <=> InRows(r))
        /\ \A r, s : r # In(m) /\ s # In(m) => (Precedes(r, s)' <=> Precedes(r, s))
        /\ \A n \in Messages : OneRow(n)'
    BY RowsShrink DEF AnswerInv, Ordered
  <1>4. \A k \in Messages : (k # m => In(k) # In(m)) /\ Out(k) # In(m) /\ (Stored(k) => k # m) /\ (Stored(k)' <=> Stored(k))
    BY Kinds DEF Stored
  <1>5. \A n \in Messages : n # m => (Opened(n)' <=> Opened(n))
    BY <1>1, <1>2 DEF Opened, Opens
  <1>6. ~Opened(m)'
    BY <1>1, <1>2 DEF Opened, Opens, AnswerInv, PiInv, Turning
  <1>7. \A n \in Messages : InRows(In(n))' <=> Stored(n)' \/ Opened(n)'
    BY <1>3, <1>4, <1>5, <1>6 DEF AnswerInv, Ordered
  <1>8. Ordered'
    BY <1>3, <1>4, <1>7 DEF AnswerInv, Ordered
  <1>9. /\ \A k, n \in Messages : Stored(k) /\ Stored(n) => (Precedes(In(k), In(n))' <=> Precedes(In(k), In(n)))
        /\ \A k, n \in Messages : Stored(k) /\ Precedes(In(k), Out(n)) => Precedes(In(k), Out(n))'
    BY <1>3, <1>4
  <1>10. Undisturbed /\ GivesFitting
    BY <1>1, <1>2, <1>4, <1>9 DEF Undisturbed, GivesFitting, Writes
  <1>11. QED
    BY <1>8, <1>10, AnswersStay

LEMMA RollbackAnswers ==
  ASSUME AnswerInv, NEW w \in Workers, OtherChat(w) \/ Ignore(w) \/ TurnDies(w)
  PROVE  Attempts' /\ Ordered' /\ Covering' /\ Apart'
  <1>1. Ends(w) /\ UNCHANGED <<inbound, newest, reply, given>>
    BY DEF OtherChat, Ignore, TurnDies, convVars
  <1>2. worker'[w] = Idle /\ \A v \in Workers : v # w => worker'[v] = worker[v]
    BY <1>1, IdleRow, WorkerMoves DEF AnswerInv, Ends, OneWorker
  <1>3. ~Opens(w)' /\ ~Writes(w)'
    BY <1>2, IdleRow DEF Opens, Writes
  <1>4. Attempts'
    <2>1. \A m \in Messages : event'[m].attempts = event[m].attempts
      BY DEF OtherChat, Ignore, TurnDies, AnswerInv, PiInv, Shapes, EventRow
    <2>2. QED
      BY <1>2, <1>3, <2>1, AttemptsStay DEF Opens
  <1>5. CASE Opens(w) /\ ~Stored(worker[w].msg)
    <2>1. PICK m \in Messages : m = worker[w].msg
      BY <1>5 DEF AnswerInv, PiInv, Turning
    <2>2. TakesBack(m)
      BY <1>5, <2>1 DEF OtherChat, Ignore, TurnDies, Opens, Stored
    <2>3. QED
      BY <1>1, <1>4, <1>5, <2>1, <2>2, TakenBackAnswers
  <1>6. CASE ~(Opens(w) /\ ~Stored(worker[w].msg))
    <2>1. rows' = rows
      BY <1>6 DEF OtherChat, Ignore, TurnDies, Opens, Stored
    <2>2. QED
      BY <1>1, <1>2, <1>3, <1>4, <1>6, <2>1, QuietAnswers DEF SameStored, SameReplies, MayNotify, GivesFitting, Stored
  <1>7. QED
    BY <1>5, <1>6

LEMMA OpenAnswers ==
  ASSUME AnswerInv, NEW w \in Workers, NEW m \in Messages, Open(w, m)
  PROVE  Attempts' /\ Ordered' /\ Covering' /\ Apart'
  <1> DEFINE row == [Idle EXCEPT !.at = "opening", !.msg = m]
  <1>1. /\ worker' = [worker EXCEPT ![w] = row] /\ worker[w] = Idle /\ Due(m) /\ EventFree(m)
        /\ rows' = (IF Stored(m) THEN rows ELSE Append(rows, In(m)))
        /\ UNCHANGED <<event, inbound, newest, reply, given>>
    BY DEF Open, convVars, Stored
  <1>2. row.at = "opening" /\ row.msg = m
    BY DEF Idle
  <1> HIDE DEF row
  <1>3. worker'[w] = row /\ \A v \in Workers : v # w => worker'[v] = worker[v]
    BY <1>1 DEF AnswerInv, PiInv, Shapes
  <1>4. Opens(w)' /\ ~Opens(w) /\ ~Writes(w)' /\ worker'[w].msg = m
    BY <1>1, <1>2, <1>3, IdleRow DEF Opens, Writes
  <1>5. ~Opened(m)
    BY <1>1 DEF EventFree, On, Opened, Opens
  <1>6. \A n \in Messages : Opened(n)' <=> Opened(n) \/ n = m
    BY <1>3, <1>4 DEF Opened, Opens
  <1>7. Attempts'
    BY <1>1, <1>3, <1>4 DEF AnswerInv, Attempts, Due, Opens
  <1>8. /\ Ordered'
        /\ \A k, n \in Messages : Stored(k) /\ Stored(n) => (Precedes(In(k), In(n))' <=> Precedes(In(k), In(n)))
        /\ \A k, n \in Messages : Stored(k) /\ Precedes(In(k), Out(n)) => Precedes(In(k), Out(n))'
    <2>1. CASE Stored(m)
      BY <1>1, <1>6, <2>1, OrderStays DEF Stored
    <2>2. CASE ~Stored(m)
      <3>1. /\ rows' \in Seq(Row)
            /\ \A r : InRows(r)' <=> InRows(r) \/ r = In(m)
            /\ \A r, s : Precedes(r, s)' <=> Precedes(r, s) \/ (s = In(m) /\ InRows(r))
            /\ \A n \in Messages : OneRow(n) /\ (In(m) = In(n) => ~InRows(In(n))) => OneRow(n)'
        BY <1>1, <2>2, Kinds, RowsGrow DEF AnswerInv, Ordered
      <3>2. ~InRows(In(m))
        BY <1>5, <2>2 DEF AnswerInv, Ordered
      <3>3. \A n \in Messages : Out(n) # In(m) /\ (In(n) = In(m) => n = m) /\ (Stored(n)' <=> Stored(n))
        BY <1>1, Kinds DEF Stored
      <3>4. \A n \in Messages : OneRow(n)'
        BY <3>1, <3>2, <3>3 DEF AnswerInv, Ordered
      <3>5. \A n \in Messages : InRows(In(n))' <=> Stored(n)' \/ Opened(n)'
        BY <1>6, <3>1, <3>3 DEF AnswerInv, Ordered
      <3>6. Ordered'
        BY <1>1, <3>1, <3>3, <3>4, <3>5 DEF AnswerInv, Ordered
      <3>7. QED
        BY <2>2, <3>1, <3>3, <3>6
    <2>3. QED
      BY <2>1, <2>2
  <1>9. Undisturbed /\ GivesFitting
    BY <1>1, <1>3, <1>4, <1>8 DEF Undisturbed, GivesFitting, Writes, Stored
  <1>10. QED
    BY <1>7, <1>8, <1>9, AnswersStay

LEMMA PersistAnswers ==
  ASSUME AnswerInv, NEW w \in Workers, Persist(w)
  PROVE  Attempts' /\ Ordered' /\ Covering' /\ Apart'
  <1>0. PICK m \in Messages : m = worker[w].msg
    BY DEF Persist, AnswerInv, PiInv, Turning, Opens
  <1>1. /\ Opens(w) /\ event' = [event EXCEPT ![m] = [status |-> "queued", attempts |-> @.attempts + 1]]
        /\ inbound' = (IF Stored(m) THEN inbound ELSE [inbound EXCEPT ![m].status = "received"])
        /\ newest' = (IF Stored(m) THEN newest ELSE m)
        /\ UNCHANGED <<rows, reply, given>>
    BY <1>0 DEF Persist, Opens, Stored
  <1>2. /\ worker'[w].at \in {"repeat", "thinking", "refused"}
        /\ \A v \in Workers : v # w => worker'[v] = worker[v]
    <2> DEFINE at == IF inbound[m].status # "none" /\ inbound[m].status # "received" THEN "repeat"
                     ELSE IF chat = "ai" THEN "thinking" ELSE "refused"
    <2>1. worker' = [worker EXCEPT ![w].at = at, ![w].seen = IF inbound[m].status = "none" THEN m ELSE newest]
      BY <1>0 DEF Persist
    <2>2. at \in {"repeat", "thinking", "refused"}
      OBVIOUS
    <2> HIDE DEF at
    <2>3. worker \in [Workers -> WorkerRow]
      BY DEF AnswerInv, PiInv, Shapes
    <2>4. QED
      BY <2>1, <2>2, <2>3 DEF WorkerRow
  <1>3. ~Opens(w)' /\ ~Writes(w)' /\ ~Writes(w)
    BY <1>1, <1>2 DEF Opens, Writes
  <1>4. Attempts'
    <2>1. event[m].attempts \in 0..MaxAttempts /\ event[m].attempts < MaxAttempts
      BY <1>0, <1>1 DEF AnswerInv, Attempts
    <2>2. event'[m].attempts = event[m].attempts + 1 /\ \A n \in Messages : n # m => event'[n] = event[n]
      BY <1>1 DEF AnswerInv, PiInv, Shapes
    <2>3. event'[m].attempts \in 0..MaxAttempts
      BY <2>1, <2>2, PiAssumption
    <2>4. \A v \in Workers : Opens(v)' => v # w /\ Opens(v) /\ worker'[v].msg = worker[v].msg /\ worker'[v].msg # m
      BY <1>0, <1>1, <1>2, <1>3 DEF Opens, AnswerInv, PiInv, Turning
    <2>5. QED
      BY <2>2, <2>3, <2>4, AttemptsStay
  <1>5. CASE Stored(m)
    BY <1>0, <1>1, <1>2, <1>3, <1>4, <1>5, QuietAnswers DEF SameStored, SameReplies, MayNotify, GivesFitting, Stored
  <1>6. CASE ~Stored(m)
    <2>1. \A n \in Messages : Stored(n)' <=> Stored(n) \/ n = m
      BY <1>1, <1>6 DEF AnswerInv, PiInv, Shapes, InboundRow, Stored
    <2>2. /\ rows' = rows /\ newest' = m /\ reply' = reply /\ given' = given
          /\ \A r, s : Precedes(r, s)' <=> Precedes(r, s)
      BY <1>1, <1>6 DEF Precedes
    <2>3. Ordered'
      <3>1. \A n \in Messages : n # m => (Opened(n)' <=> Opened(n))
        BY <1>0, <1>2, <1>3 DEF Opened, Opens
      <3>2. Opened(m)
        BY <1>0, <1>1 DEF Opened
      <3>3. \A n \in Messages : OneRow(n)' /\ (InRows(In(n))' <=> InRows(In(n)))
        BY <2>2 DEF AnswerInv, Ordered, OneRow, InRows
      <3>4. \A n \in Messages : InRows(In(n))' <=> Stored(n)' \/ Opened(n)'
        BY <2>1, <3>1, <3>2, <3>3 DEF AnswerInv, Ordered
      <3>5. QED
        BY <2>1, <2>2, <3>3, <3>4 DEF AnswerInv, Ordered
    <2>4. \A v \in Workers : Writes(v)' => Writes(v) /\ worker'[v] = worker[v] /\ worker[v].msg # m
      BY <1>2, <1>3, <1>6 DEF Writes, AnswerInv, PiInv, Turning, Thinks, Stored
    <2>5. reply[m].status = "none" /\ \A n \in Messages : m \notin reply[n].fits
      BY <1>6 DEF AnswerInv, Covering
    <2>6. \A n \in Messages, v \in Workers : reply[n].covers \subseteq Messages /\ worker[v].burst \subseteq Messages
      BY DEF AnswerInv, PiInv, Shapes, ReplyRow, WorkerRow
    <2>7. ASSUME NEW v \in Workers, NEW n \in Messages, Writes(v)', worker'[v].msg = n, NEW k \in worker'[v].burst
          PROVE  Stored(k)' /\ Precedes(In(k), In(n))'
      <3>1. Writes(v) /\ worker[v].msg = n /\ k \in worker[v].burst /\ k \in Messages
        BY <2>4, <2>6, <2>7
      <3>2. Stored(k) /\ Precedes(In(k), In(n))
        BY <3>1 DEF AnswerInv, Covering
      <3>3. QED
        BY <2>1, <2>2, <3>1, <3>2
    <2>8. ASSUME NEW n \in Messages, reply'[n].status # "none"
          PROVE  /\ Stored(n)'
                 /\ \A k \in reply'[n].covers :
                      Stored(k)' /\ Precedes(In(k), Out(n))' /\ (k = n \/ Precedes(In(k), In(n))')
      <3>1. /\ Stored(n)
            /\ \A k \in reply[n].covers : Stored(k) /\ Precedes(In(k), Out(n)) /\ (k = n \/ Precedes(In(k), In(n)))
        BY <2>2, <2>8 DEF AnswerInv, Covering
      <3>2. QED
        BY <2>1, <2>2, <2>6, <3>1
    <2>9. ASSUME NEW n \in Messages
          PROVE  /\ \A k \in reply'[n].fits : k \in Messages /\ Stored(k)' /\ Stored(n)'
                 /\ newest' \notin reply'[n].fits
      BY <2>1, <2>2, <2>5 DEF AnswerInv, Covering
    <2>10. Covering'
      BY <2>7, <2>8, <2>9 DEF Covering
    <2>11. ASSUME NEW a \in Messages, NEW n \in Messages, given'[a] = 1, Stored(n)', Precedes(In(a), In(n))'
           PROVE  /\ \A v \in Workers : Writes(v)' /\ worker'[v].msg = n => worker'[v].burst \cap reply'[a].covers = {}
                  /\ reply'[n].status # "none" => reply'[n].covers \cap reply'[a].covers = {}
      <3>1. CASE n = m
        BY <2>2, <2>4, <2>5, <3>1
      <3>2. CASE n # m
        BY <2>1, <2>2, <2>4, <2>11, <3>2 DEF AnswerInv, Apart
      <3>3. QED
        BY <3>1, <3>2
    <2>12. Apart'
      BY <2>11 DEF Apart
    <2>13. QED
      BY <1>4, <2>3, <2>10, <2>12
  <1>7. QED
    BY <1>5, <1>6

\* What a turn reads has no reply after it: no reply that was given covers it.
LEMMA ReadAnswers ==
  ASSUME AnswerInv, NEW w \in Workers, ReadChat(w)
  PROVE  Attempts' /\ Ordered' /\ Covering' /\ Apart'
  <1>1. /\ Thinks(w) /\ worker[w].at = "thinking" /\ UNCHANGED <<event, inbound, rows, newest, reply, given>>
    BY DEF ReadChat, Proceeds, Thinks, turnVars, convVars
  <1>2. PICK m \in Messages : m = worker[w].msg
    BY <1>1 DEF AnswerInv, PiInv, Turning
  <1>3. Stored(m)
    BY <1>1, <1>2 DEF AnswerInv, PiInv, Turning, Stored
  <1>4. /\ worker'[w].at = "writing" /\ worker'[w].msg = m /\ worker'[w].burst = BurstBefore(m)
        /\ \A v \in Workers : v # w => worker'[v] = worker[v]
    <2> DEFINE burst == BurstBefore(m)
               capped == NewerWaiting(m)
    <2>1. worker' = [worker EXCEPT ![w].at = "writing", ![w].capped = capped, ![w].burst = burst]
      BY <1>2 DEF ReadChat
    <2>2. worker \in [Workers -> WorkerRow]
      BY DEF AnswerInv, PiInv, Shapes
    <2> HIDE DEF burst, capped
    <2>3. worker'[w].at = "writing" /\ worker'[w].msg = worker[w].msg /\ worker'[w].burst = burst
          /\ \A v \in Workers : v # w => worker'[v] = worker[v]
      BY <2>1, <2>2 DEF WorkerRow
    <2>4. QED
      BY <1>2, <2>3 DEF burst
  <1>5. \A k \in BurstBefore(m) :
          /\ k \in Messages /\ Stored(k) /\ Precedes(In(k), In(m))
          /\ \A n \in Messages : ~Precedes(In(k), Out(n))
    BY DEF BurstBefore, Stored
  <1>6. \A v \in Workers : (Opens(v)' <=> Opens(v)) /\ (Opens(v) => worker'[v] = worker[v])
    BY <1>1, <1>4 DEF Opens
  <1>7. Attempts'
    BY <1>1, <1>6, AttemptsStay
  <1>8. \A n \in Messages : (Opened(n)' <=> Opened(n)) /\ (Stored(n)' <=> Stored(n))
    BY <1>1, <1>6 DEF Opened, Stored
  <1>9. /\ Ordered'
        /\ \A r, s : Precedes(r, s)' <=> Precedes(r, s)
    BY <1>1, <1>8, OrderStays DEF Precedes
  <1>10. \A n \in Messages, v \in Workers : reply[n].covers \subseteq Messages /\ worker[v].burst \subseteq Messages
    BY DEF AnswerInv, PiInv, Shapes, ReplyRow, WorkerRow
  <1>11. ASSUME NEW v \in Workers, NEW n \in Messages, Writes(v)', worker'[v].msg = n, NEW k \in worker'[v].burst
         PROVE  Stored(k)' /\ Precedes(In(k), In(n))'
    <2>1. CASE v = w
      BY <1>4, <1>5, <1>8, <1>9, <1>11, <2>1
    <2>2. CASE v # w
      <3>1. Writes(v) /\ worker[v].msg = n /\ k \in worker[v].burst /\ k \in Messages
        BY <1>4, <1>10, <1>11, <2>2 DEF Writes
      <3>2. Stored(k) /\ Precedes(In(k), In(n))
        BY <3>1 DEF AnswerInv, Covering
      <3>3. QED
        BY <1>8, <1>9, <3>1, <3>2
    <2>3. QED
      BY <2>1, <2>2
  <1>12. ASSUME NEW n \in Messages, reply'[n].status # "none"
         PROVE  /\ Stored(n)'
                /\ \A k \in reply'[n].covers :
                     Stored(k)' /\ Precedes(In(k), Out(n))' /\ (k = n \/ Precedes(In(k), In(n))')
    <2>1. /\ Stored(n)
          /\ \A k \in reply[n].covers : Stored(k) /\ Precedes(In(k), Out(n)) /\ (k = n \/ Precedes(In(k), In(n)))
      BY <1>1, <1>12 DEF AnswerInv, Covering
    <2>2. QED
      BY <1>1, <1>8, <1>9, <1>10, <2>1
  <1>13. ASSUME NEW n \in Messages
         PROVE  /\ \A k \in reply'[n].fits : k \in Messages /\ Stored(k)' /\ Stored(n)'
                /\ newest' \in reply'[n].fits => ~Superseded(n)'
    <2>1. Superseded(n)' <=> Superseded(n)
      BY <1>1, <1>9 DEF Superseded
    <2>2. QED
      BY <1>1, <1>8, <2>1 DEF AnswerInv, Covering
  <1>14. Covering'
    BY <1>11, <1>12, <1>13 DEF Covering
  <1>15. ASSUME NEW a \in Messages, NEW n \in Messages, given'[a] = 1, Stored(n)', Precedes(In(a), In(n))'
         PROVE  /\ \A v \in Workers : Writes(v)' /\ worker'[v].msg = n => worker'[v].burst \cap reply'[a].covers = {}
                /\ reply'[n].status # "none" => reply'[n].covers \cap reply'[a].covers = {}
    <2>1. /\ given[a] = 1 /\ Stored(n) /\ Precedes(In(a), In(n))
          /\ \A v \in Workers : Writes(v) /\ worker[v].msg = n => worker[v].burst \cap reply[a].covers = {}
          /\ reply[n].status # "none" => reply[n].covers \cap reply[a].covers = {}
      BY <1>1, <1>8, <1>9, <1>15 DEF AnswerInv, Apart
    <2>2. BurstBefore(m) \cap reply[a].covers = {}
      <3>1. reply[a].status # "none"
        BY <2>1 DEF AnswerInv, PiInv, Handing
      <3>2. \A k \in reply[a].covers : Precedes(In(k), Out(a))
        BY <3>1 DEF AnswerInv, Covering
      <3>3. QED
        BY <1>5, <3>2
    <2>3. ASSUME NEW v \in Workers, Writes(v)', worker'[v].msg = n PROVE worker'[v].burst \cap reply'[a].covers = {}
      <3>1. CASE v = w
        BY <1>1, <1>4, <2>2, <3>1
      <3>2. CASE v # w
        BY <1>1, <1>4, <2>1, <2>3, <3>2 DEF Writes
      <3>3. QED
        BY <3>1, <3>2
    <2>4. QED
      BY <1>1, <2>1, <2>3
  <1>16. Apart'
    BY <1>15 DEF Apart
  <1>17. QED
    BY <1>7, <1>9, <1>14, <1>16

\* A new reply covers what its turn read, which no given reply covers.
LEMMA DraftAnswers ==
  ASSUME AnswerInv, NEW w \in Workers, NEW m \in Messages, Writes(w), m = worker[w].msg, Ends(w),
         SameStored, given' = given, reply[m].status = "none", rows' = Append(rows, Out(m)),
         NEW row \in ReplyRow, reply' = [reply EXCEPT ![m] = row],
         row.covers = {m} \cup worker[w].burst, row.fits = IF Superseded(m) THEN {} ELSE {newest}
  PROVE  Ordered' /\ Covering' /\ Apart'
  <1>1. worker'[w] = Idle /\ \A v \in Workers : v # w => worker'[v] = worker[v]
    BY IdleRow, WorkerMoves DEF AnswerInv, Ends, OneWorker
  <1>2. ~Writes(w)' /\ \A v \in Workers : Opens(v)' <=> Opens(v)
    BY <1>1, IdleRow DEF Opens, Writes
  <1>3. reply'[m] = row /\ \A n \in Messages : n # m => reply'[n] = reply[n]
    BY DEF AnswerInv, PiInv, Shapes
  <1>4. \A n \in Messages, v \in Workers : reply[n].covers \subseteq Messages /\ worker[v].burst \subseteq Messages
    BY DEF AnswerInv, PiInv, Shapes, ReplyRow, WorkerRow
  <1>5. Stored(m) /\ newest \in Messages /\ Stored(newest) /\ \A n \in Messages : Stored(n)' <=> Stored(n)
    BY DEF SameStored, AnswerInv, Ordered, PiInv, Turning, Thinks, Writes, Stored
  <1>6. \A n \in Messages : Opened(n)' <=> Opened(n)
    BY <1>1, <1>2 DEF Opened, Opens, Writes
  <1>7. /\ Ordered'
        /\ \A k, n \in Messages : Precedes(In(k), In(n))' <=> Precedes(In(k), In(n))
        /\ \A k, n \in Messages : Precedes(In(k), Out(n)) => Precedes(In(k), Out(n))'
    BY <1>5, <1>6, OrderStays DEF SameStored
  <1>8. \A k \in Messages : Stored(k) => Precedes(In(k), Out(m))'
    BY Kinds, RowsGrow DEF AnswerInv, Ordered
  <1>9. \A v \in Workers : Writes(v)' => Writes(v) /\ worker'[v] = worker[v]
    BY <1>1, <1>2 DEF Writes
  <1>10. \A k \in worker[w].burst : k \in Messages /\ Stored(k) /\ Precedes(In(k), In(m))
    BY <1>4 DEF AnswerInv, Covering
  <1>11. ASSUME NEW v \in Workers, NEW n \in Messages, Writes(v)', worker'[v].msg = n, NEW k \in worker'[v].burst
         PROVE  Stored(k)' /\ Precedes(In(k), In(n))'
    <2>1. Writes(v) /\ worker[v].msg = n /\ k \in worker[v].burst /\ k \in Messages
      BY <1>4, <1>9, <1>11
    <2>2. Stored(k) /\ Precedes(In(k), In(n))
      BY <2>1 DEF AnswerInv, Covering
    <2>3. QED
      BY <1>5, <1>7, <2>1, <2>2
  <1>12. ASSUME NEW n \in Messages, reply'[n].status # "none"
         PROVE  /\ Stored(n)'
                /\ \A k \in reply'[n].covers :
                     Stored(k)' /\ Precedes(In(k), Out(n))' /\ (k = n \/ Precedes(In(k), In(n))')
    <2>1. CASE n = m
      BY <1>3, <1>5, <1>7, <1>8, <1>10, <2>1
    <2>2. CASE n # m
      <3>1. /\ Stored(n) /\ reply'[n].covers = reply[n].covers
            /\ \A k \in reply[n].covers : Stored(k) /\ Precedes(In(k), Out(n)) /\ (k = n \/ Precedes(In(k), In(n)))
        BY <1>3, <1>12, <2>2 DEF AnswerInv, Covering
      <3>2. QED
        BY <1>4, <1>5, <1>7, <3>1
    <2>3. QED
      BY <2>1, <2>2
  <1>13. ASSUME NEW n \in Messages
         PROVE  /\ \A k \in reply'[n].fits : k \in Messages /\ Stored(k)' /\ Stored(n)'
                /\ newest' \in reply'[n].fits => ~Superseded(n)'
    <2>1. newest' = newest /\ (Superseded(n)' <=> Superseded(n))
      BY <1>5, <1>7 DEF Superseded, SameStored, Stored
    <2>2. CASE n = m
      BY <1>3, <1>5, <2>1, <2>2
    <2>3. CASE n # m
      BY <1>3, <1>5, <2>1, <2>3 DEF AnswerInv, Covering
    <2>4. QED
      BY <2>2, <2>3
  <1>14. Covering'
    BY <1>11, <1>12, <1>13 DEF Covering
  <1>15. ASSUME NEW a \in Messages, NEW n \in Messages, given'[a] = 1, Stored(n)', Precedes(In(a), In(n))'
         PROVE  /\ \A v \in Workers : Writes(v)' /\ worker'[v].msg = n => worker'[v].burst \cap reply'[a].covers = {}
                /\ reply'[n].status # "none" => reply'[n].covers \cap reply'[a].covers = {}
    <2>1. /\ given[a] = 1 /\ Stored(n) /\ Precedes(In(a), In(n)) /\ reply[a].status # "none"
          /\ \A v \in Workers : Writes(v) /\ worker[v].msg = n => worker[v].burst \cap reply[a].covers = {}
          /\ reply[n].status # "none" => reply[n].covers \cap reply[a].covers = {}
      BY <1>5, <1>7, <1>15 DEF AnswerInv, Apart, PiInv, Handing
    <2>2. a # m /\ reply'[a] = reply[a]
      BY <1>3, <2>1
    <2>3. CASE n = m
      <3>1. m \notin reply[a].covers
        <4>1. m \in reply[a].covers => Precedes(In(m), In(a))
          BY <2>1, <2>2 DEF AnswerInv, Covering
        <4>2. ~(Precedes(In(a), In(m)) /\ Precedes(In(m), In(a)))
          BY RowsInOrder DEF AnswerInv, Ordered
        <4>3. QED
          BY <2>1, <2>3, <4>1, <4>2
      <3>2. worker[w].burst \cap reply[a].covers = {}
        BY <2>1, <2>3
      <3>3. QED
        BY <1>3, <1>9, <2>1, <2>2, <2>3, <3>1, <3>2
    <2>4. CASE n # m
      BY <1>3, <1>9, <2>1, <2>2, <2>4
    <2>5. QED
      BY <2>3, <2>4
  <1>16. Apart'
    BY <1>15 DEF Apart
  <1>17. QED
    BY <1>7, <1>14, <1>16

LEMMA AnswerAnswers ==
  ASSUME AnswerInv, NEW w \in Workers, NEW by \in {"ai", "system"}, Answer(w, by)
  PROVE  Attempts' /\ Ordered' /\ Covering' /\ Apart'
  <1>0. PICK m \in Messages : m = worker[w].msg
    BY DEF Answer, Runs, Finishing, Thinks, AnswerInv, PiInv, Turning
  <1>1. /\ Thinks(w) /\ Writes(w) /\ Ends(w) /\ newest' = newest /\ given' = given
        /\ Closes(m, "processed", "")
    BY <1>0 DEF Answer, Runs, Finishing, Thinks, Writes
  <1>2. EventDone(m) /\ SameStored
    BY <1>0, <1>1, StoredStays DEF SameStored
  <1>3. CASE reply[m].status # "none"
    <2>1. UNCHANGED <<reply, rows>>
      BY <1>0, <1>3 DEF Answer
    <2>2. QED
      BY <1>0, <1>1, <1>2, <2>1, EndedQuietly DEF SameStored, MayNotify
  <1>4. CASE reply[m].status = "none"
    <2> DEFINE row == Draft(w, by)
    <2>1. /\ row \in ReplyRow /\ row.covers = {m} \cup worker[w].burst
          /\ row.fits = IF Superseded(m) THEN {} ELSE {newest}
      <3>1. worker[w].burst \subseteq Messages /\ newest \in Messages \cup {NoMessage}
        BY DEF AnswerInv, PiInv, Shapes, WorkerRow
      <3>2. QED
        BY <1>0, <3>1 DEF Draft, ReplyRow
    <2>2. reply' = [reply EXCEPT ![m] = row] /\ rows' = Append(rows, Out(m))
      BY <1>0, <1>4 DEF Answer
    <2> HIDE DEF row
    <2>3. Ordered' /\ Covering' /\ Apart'
      BY <1>0, <1>1, <1>2, <1>4, <2>1, <2>2, DraftAnswers
    <2>4. worker'[w] = Idle /\ \A v \in Workers : v # w => worker'[v] = worker[v]
      BY <1>1, IdleRow, WorkerMoves DEF AnswerInv, Ends, OneWorker
    <2>5. \A n \in Messages : event'[n].attempts = event[n].attempts
      BY <1>2 DEF EventDone, AnswerInv, PiInv, Shapes, EventRow
    <2>6. Attempts'
      BY <2>4, <2>5, IdleRow, AttemptsStay DEF Opens
    <2>7. QED
      BY <2>3, <2>6
  <1>5. QED
    BY <1>3, <1>4

----------------------------------------------------------------------------
LEMMA BoundsKept == AnswerInv /\ [PiNext]_piVars => Bounds'
  <1> SUFFICES ASSUME AnswerInv, [PiNext]_piVars PROVE Bounds'
    OBVIOUS
  <1>1. outages \in 0..MaxOutages /\ staff \in 0..MaxStaff /\ MaxOutages \in Nat /\ MaxStaff \in Nat
    BY PiAssumption DEF AnswerInv, Bounds
  <1>2. outages' = outages \/ (outages < MaxOutages /\ outages' = outages + 1)
    <2>1. ASSUME NEW w \in Workers, Turn(w)
          PROVE  outages' = outages \/ (outages < MaxOutages /\ outages' = outages + 1)
      BY <2>1 DEF Turn, Persist, OtherChat, Ignore, Leave, Coalesce, Dismiss, Limit, SetAside, ReadChat,
                  RefuseDraft, AlreadyRun, Park, HandOff, Answer
    <2>2. ASSUME NEW w \in Workers, TurnDies(w) \/ Send(w) \/ \E got \in BOOLEAN : SendDies(w, got)
          PROVE  outages' = outages
      BY <2>2 DEF TurnDies, Send, SkipOff, Claim, Recheck, Sent, Rejected, SendDies
    <2>3. ASSUME NEW w \in Workers, NEW m \in Messages, Open(w, m) \/ Pick(w, m)
          PROVE  outages' = outages
      BY <2>3 DEF Open, Pick
    <2>4. ASSUME NEW m \in Messages, Receive(m) \/ ExpireTurn(m) \/ ExpireReply(m)
          PROVE  outages' = outages
      BY <2>4 DEF Receive, ExpireTurn, ExpireReply
    <2>5. CASE (\E age \in {"early", "due", "late"} : OutageSweep(age)) \/ Staff
      BY <2>5 DEF OutageSweep, Staff, ChangeChat, ReplayEvent, Switch, StaffActs
    <2>6. CASE UNCHANGED piVars
      BY <2>6 DEF piVars
    <2>7. QED
      BY <2>1, <2>2, <2>3, <2>4, <2>5, <2>6 DEF PiNext
  <1>3. staff' = staff \/ (staff < MaxStaff /\ staff' = staff + 1)
    BY DEF PiNext, Turn, Send, Staff, Receive, ExpireTurn, ExpireReply, TurnDies, SendDies, Open, Pick, SkipOff, Claim, OutageSweep,
           Persist, OtherChat, Ignore, Leave, Coalesce, Dismiss, Limit, SetAside, ReadChat, RefuseDraft, AlreadyRun, Park, HandOff,
           Runs, Answer, Recheck, Sent, Rejected, ChangeChat, ReplayEvent, Switch, StaffActs, piVars
  <1>4. run' \subseteq run \/ \E w \in Workers : Runs(w)
    BY DEF PiNext, Turn, Send, Staff, Receive, ExpireTurn, ExpireReply, TurnDies, SendDies, Open, Pick, SkipOff, Claim, OutageSweep,
           Persist, OtherChat, Ignore, Leave, Coalesce, Dismiss, Limit, SetAside, ReadChat, RefuseDraft, AlreadyRun, Park, HandOff,
           Answer, Recheck, Sent, Rejected, ChangeChat, ReplayEvent, Switch, StaffActs, piVars, turnVars
  <1>5. ASSUME NEW w \in Workers, Runs(w) PROVE run' \subseteq run \cup Messages
    <2>1. worker[w].msg \in Messages /\ run' = run \cup {worker[w].msg}
      BY <1>5 DEF Runs, Finishing, Thinks, AnswerInv, PiInv, Turning
    <2>2. QED
      BY <2>1
  <1>6. run' \subseteq Messages
    BY <1>4, <1>5 DEF AnswerInv, Bounds
  <1>7. on' = on \/ on' = ~on
    BY DEF PiNext, Turn, Send, Staff, Receive, ExpireTurn, ExpireReply, TurnDies, SendDies, Open, Pick, SkipOff, Claim,
           OutageSweep, Persist, OtherChat, Ignore, Leave, Coalesce, Dismiss, Limit, SetAside, ReadChat, RefuseDraft,
           AlreadyRun, Park, HandOff, Runs, Answer, Recheck, Sent, Rejected, ChangeChat, ReplayEvent, Switch, StaffActs,
           piVars
  <1>8. on' \in BOOLEAN
    BY <1>7, Zenon DEF AnswerInv, Bounds
  <1>9. outages' \in 0..MaxOutages /\ staff' \in 0..MaxStaff
    BY <1>1, <1>2, <1>3
  <1>10. QED
    BY <1>6, <1>8, <1>9 DEF Bounds

LEMMA AnswerInvStarts == PiInit => AnswerInv
  <1> SUFFICES ASSUME PiInit PROVE AnswerInv
    OBVIOUS
  <1>1. PiInv
    BY InitHolds
  <1>2. /\ \A m \in Messages : event[m] = [status |-> "none", attempts |-> 0] /\ ~Stored(m) /\ given[m] = 0
        /\ \A m \in Messages : reply[m].status = "none" /\ reply[m].fits = {}
        /\ \A w \in Workers : worker[w].at = "idle"
        /\ newest = NoMessage /\ rows = <<>>
    BY DEF PiInit, Stored, NoReply, Idle
  <1>3. Attempts
    BY <1>2, PiAssumption DEF Attempts, Opens
  <1>4. Ordered
    BY <1>2, PiAssumption DEF Ordered, OneRow, InRows, Opened, Opens
  <1>5. Covering
    BY <1>2 DEF Covering, Writes
  <1>6. Apart
    BY <1>2 DEF Apart
  <1>7. Bounds
    <2>1. run = {} /\ on = TRUE /\ outages = 0 /\ staff = 0
      BY DEF PiInit
    <2>2. QED
      BY <2>1, PiAssumption DEF Bounds
  <1>8. QED
    BY <1>1, <1>3, <1>4, <1>5, <1>6, <1>7 DEF AnswerInv

LEMMA AnswerInvKept == AnswerInv /\ [PiNext]_piVars => AnswerInv'
  <1> SUFFICES ASSUME AnswerInv, [PiNext]_piVars PROVE AnswerInv'
    OBVIOUS
  <1> DEFINE Answers == Attempts' /\ Ordered' /\ Covering' /\ Apart'
  <1>1. PiInv'
    BY StepKeeps DEF Kept, AnswerInv
  <1>2. ASSUME NEW w \in Workers, Turn(w) PROVE Answers
    <2>1. ASSUME ReadChat(w) PROVE Answers
      BY <2>1, ReadAnswers
    <2>2. ASSUME NEW by \in {"ai", "system"}, Answer(w, by) PROVE Answers
      BY <2>2, AnswerAnswers
    <2>3. QED
      BY <1>2, <2>1, <2>2, PersistAnswers, RollbackAnswers, EndingAnswers DEF Turn, Ending
  <1>3. ASSUME NEW w \in Workers, Send(w) PROVE Answers
    BY <1>3, SendingAnswers DEF Send, Sending
  <1>4. ASSUME NEW w \in Workers, NEW got \in BOOLEAN, SendDies(w, got) PROVE Answers
    BY <1>4, SendingAnswers DEF Sending
  <1>5. ASSUME NEW w \in Workers, NEW m \in Messages, Open(w, m) \/ Pick(w, m) PROVE Answers
    BY <1>5, OpenAnswers, SendingAnswers DEF Sending
  <1>6. ASSUME NEW m \in Messages, Receive(m) \/ ExpireTurn(m) PROVE Answers
    BY <1>6, EventAnswers
  <1>7. ASSUME NEW m \in Messages, ExpireReply(m) PROVE Answers
    <2>1. UNCHANGED <<event, inbound, rows, newest, worker, given>> /\ reply' = Unconfirmed(m) /\ reply[m].status = "processing"
      BY <1>7 DEF ExpireReply, turnVars
    <2>2. SameReplies
      BY <2>1 DEF SameReplies, Unconfirmed, AnswerInv, PiInv, Shapes, ReplyRow
    <2>3. Ordered' /\ Covering' /\ Apart'
      BY <2>1, <2>2, QuietAnswers DEF SameStored, MayNotify, GivesFitting, Stored
    <2>4. Attempts'
      BY <2>1, AttemptsStay DEF Opens
    <2>5. QED
      BY <2>3, <2>4
  <1>8. ASSUME Staff PROVE Answers
    BY <1>8, ChatAnswers, EventAnswers DEF Staff
  <1>9. ASSUME UNCHANGED piVars PROVE Answers
    <2>1. UNCHANGED <<event, inbound, rows, newest, reply, worker, given>>
      BY <1>9 DEF piVars
    <2>2. Ordered' /\ Covering' /\ Apart'
      BY <2>1, QuietAnswers DEF SameStored, SameReplies, MayNotify, GivesFitting, Stored
    <2>3. Attempts'
      BY <2>1, AttemptsStay DEF Opens
    <2>4. QED
      BY <2>2, <2>3
  <1>10. Answers
    BY <1>2, <1>3, <1>4, <1>5, <1>6, <1>7, <1>8, <1>9, RollbackAnswers, SweepAnswers DEF PiNext
  <1>11. QED
    BY <1>1, <1>10, BoundsKept DEF AnswerInv

\* Replies that cover the same message are not both given.
LEMMA AnswersApart == AnswerInv => AnsweredOnce
  <1> SUFFICES ASSUME AnswerInv, NEW m \in Messages, NEW n \in Messages, given[m] > 0, given[n] > 0, m # n
               PROVE  reply[m].covers \cap reply[n].covers = {}
    BY DEF AnsweredOnce
  <1>1. given[m] = 1 /\ given[n] = 1
    BY DEF AnswerInv, PiInv, Shapes
  <1>2. reply[m].status # "none" /\ reply[n].status # "none"
    BY <1>1 DEF AnswerInv, PiInv, Handing
  <1>3. Stored(m) /\ Stored(n)
    BY <1>2 DEF AnswerInv, Covering
  <1>4. Precedes(In(m), In(n)) \/ Precedes(In(n), In(m))
    BY <1>3, RowsInOrder DEF AnswerInv, Ordered
  <1>5. QED
    BY <1>1, <1>2, <1>3, <1>4 DEF AnswerInv, Apart

LEMMA AnswerTypes == AnswerInv => PiTypeOK
  <1> SUFFICES ASSUME AnswerInv PROVE PiTypeOK
    OBVIOUS
  <1>1. event \in [Messages -> [status : {"none", "received", "queued", "processed", "failed", "ignored"},
                                attempts : 0..MaxAttempts]]
    <2>1. event \in [Messages -> EventRow] /\ \A m \in Messages : event[m].attempts \in 0..MaxAttempts
      BY DEF AnswerInv, Attempts, PiInv, Shapes
    <2>2. \A m \in Messages : event[m] \in [status : {"none", "received", "queued", "processed", "failed", "ignored"},
                                           attempts : 0..MaxAttempts]
      BY <2>1 DEF EventRow
    <2>3. QED
      BY <2>1, <2>2
  <1>2. inbound \in [Messages -> [status : {"none", "received", "skipped", "processed"},
                                  code : {"", "burst", "dismissed", "limited", "loop", "outage",
                                          "answered", "dropped"}]]
    BY DEF AnswerInv, PiInv, Shapes, InboundRow, Codes
  <1>3. reply \in [Messages -> [status : {"none", "queued", "processing", "sent", "failed", "skipped"},
                                by : {"ai", "system"}, fits : SUBSET Messages, covers : SUBSET Messages]]
    BY DEF AnswerInv, Covering, PiInv, Shapes, ReplyRow
  <1>4. worker \in [Workers -> [at : {"idle", "picked"} \cup TurnAt \cup SendAt,
                                msg : Messages \cup {NoMessage}, seen : Messages \cup {NoMessage},
                                burst : SUBSET Messages, capped : BOOLEAN]]
    BY DEF AnswerInv, PiInv, Shapes, WorkerRow
  <1>5. rows \in Seq([kind : {"in", "out"}, of : Messages])
    BY DEF AnswerInv, Ordered, Row
  <1>6. given \in [Messages -> Nat]
    BY DEF AnswerInv, PiInv, Shapes
  <1>7. newest \in Messages \cup {NoMessage} /\ chat \in {"ai", "human", "closed"}
    BY DEF AnswerInv, PiInv, Shapes
  <1>8. run \subseteq Messages /\ on \in BOOLEAN /\ outages \in 0..MaxOutages /\ staff \in 0..MaxStaff
    BY DEF AnswerInv, Bounds
  <1>9. QED
    BY <1>1, <1>2, <1>3, <1>4, <1>5, <1>6, <1>7, <1>8 DEF PiTypeOK

(* Every row of the chat and every process has a value of its kind, and an *)
(* event is not tried more often than allowed, though it is counted by     *)
(* whichever job opens it (process_event, sweep_pi, replay_event).         *)
THEOREM ChatTypes == PiSpec => []PiTypeOK
  <1>1. PiInit => AnswerInv
    BY AnswerInvStarts
  <1>2. AnswerInv /\ [PiNext]_piVars => AnswerInv'
    BY AnswerInvKept
  <1>3. AnswerInv => PiTypeOK
    BY AnswerTypes
  <1>4. QED
    BY <1>1, <1>2, <1>3, PTL DEF PiSpec

(* Two replies that reached WhatsApp never cover the same message, for any *)
(* messages, workers, outages and acts of staff: what was set aside or     *)
(* parked is answered once (burst_messages, outage.sweep).                 *)
THEOREM OnceAnswered == PiSpec => []AnsweredOnce
  <1>1. PiInit => AnswerInv
    BY AnswerInvStarts
  <1>2. AnswerInv /\ [PiNext]_piVars => AnswerInv'
    BY AnswerInvKept
  <1>3. AnswerInv => AnsweredOnce
    BY AnswersApart
  <1>4. QED
    BY <1>1, <1>2, <1>3, PTL DEF PiSpec

----------------------------------------------------------------------------
(* What reaches the customer is never late: when WhatsApp gets a reply it  *)
(* is the first time, no message stored since stands behind the one it     *)
(* answers (the recheck of send_pi_message), and the assistant's own words *)
(* do not come once a person has the chat.                                 *)
InTime(m) ==
  /\ given[m] = 0 /\ given'[m] = 1
  /\ ~Superseded(m)
  /\ chat = "ai" \/ (chat = "human" /\ reply[m].by = "system")
GivenInTime == [][\A m \in Messages : given'[m] # given[m] => InTime(m)]_piVars

LEMMA CallGives ==
  ASSUME AnswerInv, NEW w \in Workers, NEW got \in BOOLEAN, got => Calls(w), Given(w, got),
         NEW m \in Messages, given'[m] # given[m]
  PROVE  InTime(m)
  <1>1. given \in [Messages -> {0, 1}] /\ chat \in {"ai", "human", "closed"}
        /\ reply[m] \in ReplyRow
    BY DEF AnswerInv, PiInv, Shapes
  <1>2. got /\ worker[w].msg = m
    <2>1. CASE ~got
      <3>1. given' = [given EXCEPT ![worker[w].msg] = @ + 0]
        BY <2>1 DEF Given
      <3>2. \A n \in Messages : given[n] + 0 = given[n]
        BY <1>1
      <3>3. QED
        BY <1>1, <3>1, <3>2
    <2>2. CASE got /\ worker[w].msg # m
      BY <1>1, <2>2 DEF Given
    <2>3. QED
      BY <2>1, <2>2
  <1>3. Calls(w) /\ Sends(w)
    BY <1>2 DEF Calls, Sends, SendAt
  <1>4. given[m] = 0 /\ newest \in reply[m].fits /\ ~Blocked(m)
    BY <1>2, <1>3 DEF AnswerInv, PiInv, Handing, Fits
  <1>5. given'[m] = 1
    BY <1>1, <1>2, <1>4 DEF Given
  <1>6. ~Superseded(m)
    BY <1>4 DEF AnswerInv, Covering
  <1>7. chat = "ai" \/ (chat = "human" /\ reply[m].by = "system")
    BY <1>1, <1>4 DEF Blocked, ReplyRow
  <1>8. QED
    BY <1>4, <1>5, <1>6, <1>7 DEF InTime

LEMMA NothingElseGives ==
  ASSUME [PiNext]_piVars
  PROVE  \/ given' = given
         \/ \E w \in Workers, got \in BOOLEAN : (got => Calls(w)) /\ Given(w, got)
  <1>1. ASSUME NEW w \in Workers, Turn(w) PROVE given' = given
    BY <1>1 DEF Turn, Persist, OtherChat, Ignore, Leave, Coalesce, Dismiss, Limit, SetAside, ReadChat, RefuseDraft,
                AlreadyRun, Park, HandOff, Answer, Runs
  <1>2. ASSUME NEW w \in Workers, Send(w)
        PROVE  given' = given \/ \E got \in BOOLEAN : (got => Calls(w)) /\ Given(w, got)
    <2>1. CASE SkipOff(w) \/ Claim(w) \/ Recheck(w)
      BY <2>1 DEF SkipOff, Claim, Recheck
    <2>2. CASE Sent(w)
      BY <2>2 DEF Sent, Calls
    <2>3. ASSUME NEW got \in BOOLEAN, Rejected(w, got) PROVE (got => Calls(w)) /\ Given(w, got)
      BY <2>3 DEF Rejected, Calls
    <2>4. QED
      BY <1>2, <2>1, <2>2, <2>3 DEF Send
  <1>3. ASSUME NEW w \in Workers, NEW got \in BOOLEAN, SendDies(w, got)
        PROVE  (got => Calls(w)) /\ Given(w, got)
    BY <1>3 DEF SendDies, Calls
  <1>4. ASSUME NEW w \in Workers, TurnDies(w) \/ \E m \in Messages : Open(w, m) \/ Pick(w, m)
        PROVE  given' = given
    BY <1>4 DEF TurnDies, Open, Pick
  <1>5. ASSUME NEW m \in Messages, Receive(m) \/ ExpireTurn(m) \/ ExpireReply(m) PROVE given' = given
    BY <1>5 DEF Receive, ExpireTurn, ExpireReply
  <1>6. CASE (\E age \in {"early", "due", "late"} : OutageSweep(age)) \/ Staff
    BY <1>6 DEF OutageSweep, Staff, ChangeChat, ReplayEvent, Switch, StaffActs
  <1>7. CASE UNCHANGED piVars
    BY <1>7 DEF piVars
  <1>8. QED
    BY <1>1, <1>2, <1>3, <1>4, <1>5, <1>6, <1>7 DEF PiNext

THEOREM NeverLate == PiSpec => GivenInTime
  <1>1. PiInit => AnswerInv
    BY AnswerInvStarts
  <1>2. AnswerInv /\ [PiNext]_piVars => AnswerInv'
    BY AnswerInvKept
  <1>3. AnswerInv /\ [PiNext]_piVars => [\A m \in Messages : given'[m] # given[m] => InTime(m)]_piVars
    BY NothingElseGives, CallGives
  <1>4. QED
    BY <1>1, <1>2, <1>3, PTL DEF PiSpec, GivenInTime
=============================================================================
