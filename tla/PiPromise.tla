----------------------------- MODULE PiPromise -----------------------------
(***************************************************************************)
(* What the assistant promises the customer of a chat, whatever happens to *)
(* its workers: a reply that was prepared is handed to WhatsApp once or    *)
(* withdrawn; it is handed over only while it answers the newest message,  *)
(* and, unless it says that a person takes over, only while no person has  *)
(* the chat.  PiTurns implements it (runtime.py, outage.py, service.py).   *)
(***************************************************************************)
CONSTANTS
  Messages,   \* what the customer writes
  NoMessage   \* before the first

VARIABLES
  newest,     \* the customer's newest message
  chat,       \* who has the chat: ai, human, or closed
  reply       \* reply[m]: the reply prepared for m and what became of it

promiseVars == <<newest, chat, reply>>

NoReply == [state |-> "none", by |-> "ai", fits |-> {}]

Init ==
  /\ newest = NoMessage
  /\ chat = "ai"
  /\ reply = [m \in Messages |-> NoReply]

Hear(m) ==
  /\ newest' = m
  /\ UNCHANGED <<chat, reply>>

\* by: the assistant, or the system where the reply announces a person.
Prepare(m, by, fits) ==
  /\ chat = "ai"
  /\ reply[m].state = "none"
  /\ fits \subseteq {newest}
  /\ reply' = [reply EXCEPT ![m] = [state |-> "ready", by |-> by, fits |-> fits]]
  /\ chat' = IF by = "system" THEN "human" ELSE chat
  /\ UNCHANGED newest

\* A delivery that could not be confirmed brings a person in.
PersonMayStep == (chat' = chat) \/ (chat = "ai" /\ chat' = "human")

Give(m) ==
  /\ reply[m].state = "ready"
  /\ newest \in reply[m].fits
  /\ \/ chat = "ai"
     \/ chat = "human" /\ reply[m].by = "system"
  /\ reply' = [reply EXCEPT ![m].state = "given"]
  /\ PersonMayStep
  /\ UNCHANGED newest

Withdraw(m) ==
  /\ reply[m].state = "ready"
  /\ reply' = [reply EXCEPT ![m].state = "withdrawn"]
  /\ PersonMayStep
  /\ UNCHANGED newest

HandOver ==
  /\ chat # "closed"
  /\ chat' \in {"ai", "human", "closed"}
  /\ UNCHANGED <<newest, reply>>

Next ==
  \/ \E m \in Messages :
       \/ Hear(m) \/ Give(m) \/ Withdraw(m)
       \/ \E by \in {"ai", "system"}, fits \in SUBSET {newest} : Prepare(m, by, fits)
  \/ HandOver

Spec == Init /\ [][Next]_promiseVars
=============================================================================
