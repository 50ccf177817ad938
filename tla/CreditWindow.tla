---------------------------- MODULE CreditWindow ----------------------------
(***************************************************************************)
(* One direction of a relayed session under its credit window              *)
(* (relay/src/lib/flow.ts): the sender that seals and sends while it has   *)
(* allowance, the rendezvous that forwards a frame or ends the session     *)
(* (rendezvous.ts), and the receiver that returns credit as it consumes.   *)
(* The receiver is the daemon's link, which holds back the credit of the   *)
(* requests still waiting for a slot (link.ts); the client's end           *)
(* (pwa/src/lib/relay-session.ts) is the same with nothing waiting.        *)
(*                                                                         *)
(* Frames and credits travel in order and are never lost while the session *)
(* lives, so frames in flight are counted.  A grant is the difference of   *)
(* two totals: `grants` holds the totals the receiver has credited, and    *)
(* two cursors say how far the rendezvous and the sender have read.  The   *)
(* one fault is a reset of the rendezvous that loses window writes it had  *)
(* not confirmed (worker.ts, applyStep).                                   *)
(***************************************************************************)
EXTENDS Integers, Sequences

CONSTANTS
  W,           \* CREDIT_WINDOW_FRAMES
  MaxRunning,  \* MAX_CONCURRENT_REQUESTS
  MaxFrames,   \* bound: frames the sender ever has to send
  MaxResets    \* bound: resets of the rendezvous

ASSUME WindowAssumption ==
  /\ W \in Nat \ {0} /\ MaxRunning \in Nat \ {0}
  /\ MaxFrames \in Nat /\ MaxResets \in Nat

VARIABLES
  waiting,   \* records queued at the sender
  sealing,   \* is the head of that queue captured by a seal?
  run,       \* is a run of #flush queued on the outbox?
  send,      \* the sender's window
  toRelay,   \* frames in flight from the sender to the rendezvous
  relay,     \* the rendezvous's copy of the window
  saved,     \* the copy whose write is confirmed
  toRecv,    \* frames in flight from the rendezvous to the receiver
  recv,      \* the receiver's count
  running,   \* requests being answered
  backlog,   \* requests waiting for a slot
  grants,    \* the totals credited so far, the first of them 0
  passed,    \* grants the rendezvous has forwarded (an index of `grants`)
  arrived,   \* grants the sender has applied (an index of `grants`)
  ended,     \* was the session ended as a flow violation (4430)?
  asked,     \* frames the sender was ever given
  resets     \* resets so far

sender   == <<waiting, sealing, run, send, asked>>
carrier  == <<relay, saved, resets>>
receiver == <<recv, running, backlog, grants>>
vars == <<sender, carrier, receiver, toRelay, toRecv, passed, arrived, ended>>

-----------------------------------------------------------------------------
(* flow.ts *)

NewSendWindow == [sent |-> 0, allowed |-> W]
\* Mutant: a frame more than the allowance.
MaySend_OneMore(w) == w.sent <= w.allowed
MaySend(w) == w.sent < w.allowed
RecordSent(w) == [w EXCEPT !.sent = @ + 1]
\* Mutant: the ceiling forgets the frame the grant answers.
GrantCredit_LowCeiling(w, n) ==
  LET ceiling == w.sent + W - 1 IN
  [w EXCEPT !.allowed = IF @ + n <= ceiling THEN @ + n ELSE ceiling]
GrantCredit(w, n) ==
  LET ceiling == w.sent + W IN
  [w EXCEPT !.allowed = IF @ + n <= ceiling THEN @ + n ELSE ceiling]

\* The credit owed for c frames consumed and g credited, or 0 to stay quiet.
\* Mutant: a receiver that waits for more than a window stalls its sender.
CreditToReturn_Late(c, g) == IF c - g > W THEN c - g ELSE 0
CreditToReturn(c, g) == IF c - g >= W \div 2 THEN c - g ELSE 0

-----------------------------------------------------------------------------
(* The receiver *)

\* #returnCredit, once c frames are consumed and b requests wait.
\* Mutant: a request that waits gives its credit back all the same.
ReturnCredit_Whole(c, b) ==
  LET owed == CreditToReturn(c, recv.credited) IN
  /\ recv' = [consumed |-> c, credited |-> recv.credited + owed]
  /\ grants' = IF owed = 0 THEN grants
               ELSE Append(grants, recv.credited + owed)
ReturnCredit(c, b) ==
  LET owed == CreditToReturn(c - b, recv.credited) IN
  /\ recv' = [consumed |-> c, credited |-> recv.credited + owed]
  /\ grants' = IF owed = 0 THEN grants
               ELSE Append(grants, recv.credited + owed)

\* #dispatch of a whole request: beside the ones running, or behind them.
Dispatch ==
  \/ /\ running < MaxRunning
     /\ running' = running + 1
     /\ UNCHANGED <<backlog, ended>>
  \/ /\ running >= MaxRunning /\ backlog > W
     /\ ended' = TRUE
     /\ UNCHANGED <<running, backlog>>
  \/ /\ running >= MaxRunning /\ backlog <= W
     /\ backlog' = backlog + 1
     /\ UNCHANGED <<running, ended>>

\* A frame is opened and consumed; it may complete a request.
Consume ==
  /\ ~ended /\ toRecv > 0
  /\ toRecv' = toRecv - 1
  /\ ReturnCredit(recv.consumed + 1, backlog)
  /\ Dispatch \/ UNCHANGED <<running, backlog, ended>>
  /\ UNCHANGED <<sender, carrier, toRelay, passed, arrived>>

\* A request is answered; the slot goes to the one that has waited longest.
Finish ==
  /\ ~ended /\ running > 0
  /\ \/ /\ backlog = 0
        /\ running' = running - 1
        /\ UNCHANGED <<backlog, recv, grants>>
     \/ /\ backlog > 0
        /\ backlog' = backlog - 1
        /\ ReturnCredit(recv.consumed, backlog - 1)
        /\ UNCHANGED running
  /\ UNCHANGED <<sender, carrier, toRelay, toRecv, passed, arrived, ended>>

-----------------------------------------------------------------------------
(* The rendezvous *)

\* forward, for a frame.
PassFrame ==
  /\ ~ended /\ toRelay > 0
  /\ \/ /\ MaySend(relay)
        /\ relay' = RecordSent(relay)
        /\ toRelay' = toRelay - 1 /\ toRecv' = toRecv + 1
        /\ UNCHANGED ended
     \/ /\ ~MaySend(relay)
        /\ ended' = TRUE
        /\ UNCHANGED <<relay, toRelay, toRecv>>
  /\ UNCHANGED <<sender, receiver, saved, resets, passed, arrived>>

Grant(i) == grants[i + 1] - grants[i]

\* forward, for a credit: one that would change nothing ends the session.
PassCredit ==
  /\ ~ended /\ passed < Len(grants)
  /\ LET granted == GrantCredit(relay, Grant(passed)) IN
     \/ /\ granted.allowed # relay.allowed
        /\ relay' = granted
        /\ passed' = passed + 1
        /\ UNCHANGED ended
     \/ /\ granted.allowed = relay.allowed
        /\ ended' = TRUE
        /\ UNCHANGED <<relay, passed>>
  /\ UNCHANGED <<sender, receiver, saved, resets, toRelay, toRecv, arrived>>

\* The write of the window is confirmed; it is left unconfirmed until then.
Confirm ==
  /\ saved' = relay
  /\ UNCHANGED <<sender, receiver, relay, resets>>
  /\ UNCHANGED <<toRelay, toRecv, passed, arrived, ended>>

\* A reset: the object comes back with the window it had confirmed.
Reset ==
  /\ ~ended /\ resets < MaxResets
  /\ relay' = saved
  /\ resets' = resets + 1
  /\ UNCHANGED <<sender, receiver, saved>>
  /\ UNCHANGED <<toRelay, toRecv, passed, arrived, ended>>

-----------------------------------------------------------------------------
(* The sender *)

\* A record is queued, and a run of #flush behind it.
Queue ==
  /\ ~ended /\ asked < MaxFrames
  /\ asked' = asked + 1 /\ waiting' = waiting + 1 /\ run' = TRUE
  /\ UNCHANGED <<sealing, send, carrier, receiver>>
  /\ UNCHANGED <<toRelay, toRecv, passed, arrived, ended>>

\* The loop of #flush takes its head, or the run is over.
Seal ==
  /\ ~ended /\ run /\ ~sealing
  /\ IF waiting > 0 /\ MaySend(send)
     THEN sealing' = TRUE /\ UNCHANGED run
     ELSE run' = FALSE /\ UNCHANGED sealing
  /\ UNCHANGED <<waiting, send, asked, carrier, receiver>>
  /\ UNCHANGED <<toRelay, toRecv, passed, arrived, ended>>

\* The sealed frame leaves, however the window moved meanwhile.
Emit ==
  /\ ~ended /\ sealing
  /\ sealing' = FALSE /\ waiting' = waiting - 1
  /\ send' = RecordSent(send)
  /\ toRelay' = toRelay + 1
  /\ UNCHANGED <<run, asked, carrier, receiver, toRecv, passed, arrived, ended>>

OnCredit ==
  /\ ~ended /\ arrived < passed
  /\ LET granted == GrantCredit(send, Grant(arrived)) IN
     \/ /\ granted.allowed # send.allowed
        /\ send' = granted
        /\ arrived' = arrived + 1
        /\ run' = TRUE
        /\ UNCHANGED ended
     \/ /\ granted.allowed = send.allowed
        /\ ended' = TRUE
        /\ UNCHANGED <<send, arrived, run>>
  /\ UNCHANGED <<waiting, sealing, asked, carrier, receiver>>
  /\ UNCHANGED <<toRelay, toRecv, passed>>

-----------------------------------------------------------------------------
Init ==
  /\ waiting = 0 /\ sealing = FALSE /\ run = FALSE /\ asked = 0
  /\ send = NewSendWindow /\ relay = NewSendWindow /\ saved = NewSendWindow
  /\ recv = [consumed |-> 0, credited |-> 0]
  /\ toRelay = 0 /\ toRecv = 0 /\ running = 0 /\ backlog = 0
  /\ grants = <<0>> /\ passed = 1 /\ arrived = 1
  /\ ended = FALSE /\ resets = 0

Next ==
  \/ Queue \/ Seal \/ Emit \/ OnCredit
  \/ PassFrame \/ PassCredit \/ Confirm \/ Reset
  \/ Consume \/ Finish

Spec == Init /\ [][Next]_vars

\* Frames on a live socket arrive, the outbox runs what is chained on it, and
\* a request is answered in the end.  Confirmations and resets are owed to
\* nobody.
FairSpec ==
  /\ Spec
  /\ WF_vars(Seal) /\ WF_vars(Emit) /\ WF_vars(OnCredit)
  /\ WF_vars(PassFrame) /\ WF_vars(PassCredit)
  /\ WF_vars(Consume) /\ WF_vars(Finish)

-----------------------------------------------------------------------------
(* What the window promises *)

Window == [sent : Nat, allowed : Nat]

\* The type of the state: counts stay naturals, cursors inside the grants.
TypeOK ==
  /\ waiting \in Nat /\ asked \in Nat /\ resets \in Nat
  /\ toRelay \in Nat /\ toRecv \in Nat /\ backlog \in Nat
  /\ sealing \in BOOLEAN /\ run \in BOOLEAN /\ ended \in BOOLEAN
  /\ send \in Window /\ relay \in Window /\ saved \in Window
  /\ recv \in [consumed : Nat, credited : Nat]
  /\ running \in 0..MaxRunning
  /\ grants \in Seq(Nat) /\ grants # <<>>
  /\ passed \in 1..Len(grants) /\ arrived \in 1..passed
  /\ sealing => waiting > 0

\* Two ends that keep the protocol are never ended for breaking it: while the
\* rendezvous forgets nothing, its copy of the window refuses no frame the
\* sender's own allows and no grant the receiver's own owes, and the daemon's
\* backlog never overflows (link.ts:1299, rendezvous.ts:564-570).
HonestEndsAgree == resets = 0 => ~ended

\* What was sent and not begun never exceeds a window and one record, however
\* often the rendezvous forgets: the bound #dispatch states (link.ts:1284).
HeldBounded == toRelay + toRecv + backlog <= W + 1

\* No request waits beside a free slot.
NoIdleSlot == backlog > 0 => running = MaxRunning

\* The clamp swallows no credit of an honest receiver: what the sender may
\* send, and the grants on their way to it, are exactly what was credited.
NoCreditLost ==
  /\ send.allowed = W + grants[arrived]
  /\ recv.credited = grants[Len(grants)]

\* Nothing sent waits for ever: while the session lives, every record queued
\* leaves, is consumed and, if it is a request, is begun.
Drained == waiting = 0 /\ toRelay = 0 /\ toRecv = 0 /\ backlog = 0
NothingStalls == []<>(ended \/ Drained)
=============================================================================
