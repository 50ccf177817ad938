--------------------------- MODULE QueueDeliverer ---------------------------
(***************************************************************************)
(* The one owner of WHEN and IN WHAT ORDER a session's queued messages are *)
(* typed (queue/deliverer.ts), over the durable queue of SessionQueue and  *)
(* the tracked send path as the deliverer uses it (send-path-delivery.ts). *)
(*                                                                         *)
(* A look holds the session's queue lock from its first read to its last   *)
(* write, so a sender's operation happens between looks; everything else - *)
(* the clock, the pane, the send tracker, a crash - may happen between any *)
(* two awaits of a look. Every await that something may slip into is a     *)
(* step of its own.                                                        *)
(***************************************************************************)
EXTENDS SessionQueue

CONSTANTS
  BoxStates,     (* what the session's pane may show                          *)
  Refusals,      (* why the send path may refuse a hand-over before any key   *)
  NotReady,      (* the same, of a pane that never came to a prompt           *)
  Verdicts,      (* the fates a row may come to while this run lasts          *)
  Interactive,   (* the session is the owner's own chat                       *)
  TargetMoves,   (* what else may change about the session, see TargetChanges *)
  LookMs,        (* lookMs, in ticks: the poll while something is open        *)
  ReadWatch,     (* readWatchMs: how long a delivered message is polled for   *)
  RecheckMs,     (* recheckMs: how long "accepted" may sit before it is asked *)
  PerLook,       (* perLook: hand-overs in one look                           *)
  ClockSteps,    (* may the wall clock be set back a tick                     *)
  LookTakesTime, (* may the clock pass a tick between a plan and its schedule *)
  MaxCrashes,    (* bound: how often the daemon dies                          *)
  MaxRowLosses,  (* bound: how often the ledger comes to lack a row           *)
  MaxFaults,     (* bound: how often a read or an append inside a look throws *)
  MaxLosses,     (* bound: how often a pane loses text that was typed in it   *)
  MaxRetries,    (* bound: how often a person types a timed-out send again    *)
  MaxCancels     (* bound: how often a person takes a send back               *)

ASSUME DelivererConstants ==
  /\ BoxStates \subseteq {"free", "draft", "own", "dialog", "parked", "question",
                          "launching", "unreadable"}
  /\ "free" \in BoxStates
  /\ Refusals \subseteq {"launching", "dialog", "draft", "unreadable"}
  /\ NotReady \subseteq {"busy", "dialog", "stopped"}
  /\ Verdicts \subseteq {"queued", "delivered", "unaccounted", "timed_out"}
  /\ Interactive \in BOOLEAN
  /\ TargetMoves \subseteq {"stop", "start", "turn", "park"}
  /\ LookMs \in Nat \ {0}
  /\ ReadWatch \in Nat
  /\ RecheckMs \in Nat \ {0}
  /\ PerLook \in Nat \ {0}
  /\ LookTakesTime \in BOOLEAN /\ ClockSteps \in BOOLEAN
  /\ MaxCrashes \in Nat /\ MaxRowLosses \in Nat /\ MaxFaults \in Nat
  /\ MaxLosses \in Nat /\ MaxRetries \in Nat /\ MaxCancels \in Nat

VARIABLES
  fate,        (* the send ledger: where the record of each send id stands    *)
  carried,     (* the text each ledger record holds, as `text` says           *)
  box,         (* what the session's pane shows                               *)
  target,      (* what policy.ts reads of the session                         *)
  turnBeganAt, (* when the receiver's current or last turn began              *)
  up,          (* the daemon is running                                       *)
  stopped,     (* the deliverer was told to stop                              *)
  open,        (* the session is one a state change makes it look at          *)
  timer,       (* when the session's one scheduled look is due, or NoTime     *)
  pending,     (* a look waits for the queue lock                             *)
  owed,        (* a message was enqueued and enqueued() is not called yet     *)
  promptless,  (* when a hand-over last found no prompt, and why              *)
  tracked,     (* the send tracker has a look coming at the ledger            *)
  pc,          (* where the running look is                                   *)
  todo,        (* the messages its current loop has left                      *)
  seen,        (* the one being settled, and the fate just read of it         *)
  stalled,     (* a hand-over has sat "accepted" too long                     *)
  text,        (* the delivery: the revision read of each member, else 0      *)
  sendId,      (* and the id it goes under                                    *)
  handed,      (* hand-overs in this look                                     *)
  more,        (* the last of them lets another follow                        *)
  outcome,     (* what the send path answered                                 *)
  refusedFor,  (* and why, when it refused                                    *)
  copies,      (* ghost: how many copies of a message's text the agent has    *)
  typedRev,    (* ghost: the revision whose text was typed, 0 for none        *)
  crashes, rowLosses, faults, losses, retries, cancels

ledgerVars == << fate, carried >>
paneVars   == << box, target, turnBeganAt, now >>
wakeVars   == << up, stopped, open, timer, pending, owed >>
lookVars   == << pc, todo, seen, stalled, text, sendId, handed, more, outcome,
                 refusedFor >>
ghostVars  == << copies, typedRev >>
boundVars  == << crashes, rowLosses, faults, losses, retries, cancels >>
vars == << queueVars, ledgerVars, paneVars, wakeVars, lookVars, ghostVars,
           boundVars, promptless, tracked >>

-----------------------------------------------------------------------------
(* The fates under which no key was ever typed. *)
NeverTyped == {"none", "withdrawn"}

Live(s) == fate[s] \notin NeverTyped

LockFree == pc = "idle"

Min2(a, b) == IF a < b THEN a ELSE b

Nothing == [m \in Msg |-> 0]

(* The messages of a delivery, or of a ledger record. *)
MembersOf(t) == {m \in Msg : t[m] # 0}
Members == MembersOf(text)

Unread == [of |-> NoMsg, fate |-> "none"]

Prompted == [at |-> NoTime, why |-> "none"]

(* What a look holds in memory, at rest. *)
LookOver ==
  /\ pc' = "idle" /\ todo' = {} /\ seen' = Unread /\ stalled' = FALSE
  /\ text' = Nothing /\ sendId' = NoMsg /\ handed' = 0 /\ more' = FALSE
  /\ outcome' = "none" /\ refusedFor' = "none"

Goto(step) ==
  /\ pc' = step
  /\ UNCHANGED << todo, seen, stalled, text, sendId, handed, more, outcome, refusedFor >>

-----------------------------------------------------------------------------
(* A sender's operations, each under the queue lock.                         *)

(* A daemon's message to the owner's own chat takes the direct path. *)
Request(m) ==
  /\ up /\ LockFree /\ ~BoardOnly(m, target)
  /\ Enqueue(m)
  /\ owed' = TRUE
  /\ UNCHANGED << ledgerVars, paneVars, up, stopped, open, timer, pending,
                  lookVars, ghostVars, boundVars, promptless, tracked >>

EditText(m) ==
  /\ up /\ LockFree
  /\ Edit(m)
  /\ UNCHANGED << ledgerVars, paneVars, wakeVars, lookVars, ghostVars,
                  boundVars, promptless, tracked >>

(* Mutant: a message taken back without waiting for the look that reads it. *)
TakeBack_NoLock(m) ==
  /\ up
  /\ Cancel(m)
  /\ UNCHANGED << ledgerVars, paneVars, wakeVars, lookVars, ghostVars,
                  boundVars, promptless, tracked >>

TakeBack(m) ==
  /\ up /\ LockFree
  /\ Cancel(m)
  /\ UNCHANGED << ledgerVars, paneVars, wakeVars, lookVars, ghostVars,
                  boundVars, promptless, tracked >>

-----------------------------------------------------------------------------
(* What makes the deliverer look. A look asked for waits for the queue lock, *)
(* and is not taken back when the deliverer is told to stop.                 *)

(* enqueued(): the route calls it once enqueue() has answered. *)
Enqueued ==
  /\ up /\ owed
  /\ owed' = FALSE /\ open' = TRUE
  /\ pending' = (pending \/ ~stopped)
  /\ UNCHANGED << queueVars, ledgerVars, paneVars, up, stopped, timer, lookVars,
                  ghostVars, boundVars, promptless, tracked >>

(* changed(): the session's state document was written. *)
Changed ==
  /\ up /\ open /\ ~stopped
  /\ pending' = TRUE
  /\ UNCHANGED << queueVars, ledgerVars, paneVars, up, stopped, open, timer, owed,
                  lookVars, ghostVars, boundVars, promptless, tracked >>

TimerFires ==
  /\ up /\ ~stopped
  /\ timer # NoTime /\ now >= timer
  /\ timer' = NoTime /\ pending' = TRUE
  /\ UNCHANGED << queueVars, ledgerVars, paneVars, up, stopped, open, owed, lookVars,
                  ghostVars, boundVars, promptless, tracked >>

-----------------------------------------------------------------------------
(* One look: settle what was handed over, then hand over what may go.        *)

Begin ==
  /\ up /\ pending /\ LockFree
  /\ pending' = FALSE
  /\ pc' = "settle"
  /\ todo' = {m \in Msg : state[m] \in HandedOver}
  /\ UNCHANGED << queueVars, ledgerVars, paneVars, up, stopped, open, timer, owed, seen,
                  stalled, text, sendId, handed, more, outcome, refusedFor, ghostVars,
                  boundVars, promptless, tracked >>

(* settle() takes the messages in acceptance order. *)
Oldest(S) == {m \in S : \A n \in S : position[m] <= position[n]}

(* A message's fate is read, and only then is the message moved. *)
ReadFate ==
  /\ up /\ pc = "settle"
  /\ \E m \in Oldest(todo) : seen' = [of |-> m, fate |-> fate[SendIdOf(m)]]
  /\ pc' = "move"
  /\ UNCHANGED << queueVars, ledgerVars, paneVars, wakeVars, todo, stalled, text, sendId,
                  handed, more, outcome, refusedFor, ghostVars, boundVars, promptless,
                  tracked >>

SettleOne(m) ==
  LET to == MovesFrom(state[m], seen.fate) IN
  /\ up /\ pc = "move" /\ m = seen.of
  /\ state' = [state EXCEPT ![m] = to]
  /\ stateAt' = [stateAt EXCEPT ![m] = IF to = state[m] THEN @ ELSE Since(to)]
  /\ deliveredAs' = [deliveredAs EXCEPT ![m] = IF to = "queued" THEN NoMsg ELSE @]
  /\ stalled' = (stalled \/ /\ state[m] = "typing" /\ seen.fate = "accepted"
                            /\ now - stateAt[m] >= RecheckMs \/ now = Horizon)
  /\ pc' = "settle" /\ todo' = todo \ {m} /\ seen' = Unread
  /\ UNCHANGED << waitReason, enqueuedAt, holdUntil, position, revision, ledgerVars,
                  paneVars, wakeVars, text, sendId, handed, more, outcome, refusedFor,
                  ghostVars, boundVars, promptless, tracked >>

(* Mutant: a hand-over nothing else watches is left to wait. *)
SettleDone_NoRecheck ==
  /\ up /\ pc = "settle" /\ todo = {}
  /\ pc' = "plan" /\ stalled' = FALSE
  /\ UNCHANGED << queueVars, ledgerVars, paneVars, wakeVars, todo, seen, text, sendId,
                  handed, more, outcome, refusedFor, ghostVars, boundVars, promptless,
                  tracked >>

(* recheck(): a hand-over that has sat "accepted" too long is put to the tracker. *)
SettleDone ==
  /\ up /\ pc = "settle" /\ todo = {}
  /\ tracked' = (tracked \/ (stalled /\ ~stopped))
  /\ pc' = "plan" /\ stalled' = FALSE
  /\ UNCHANGED << queueVars, ledgerVars, paneVars, wakeVars, todo, seen, text, sendId,
                  handed, more, outcome, refusedFor, ghostVars, boundVars, promptless >>

(* Holding answers that no other hand-over follows in this look. *)
HoldBack(S, reason) ==
  /\ Wait(S, reason)
  /\ pc' = "schedule" /\ more' = FALSE
  /\ text' = Nothing /\ sendId' = NoMsg
  /\ UNCHANGED << todo, seen, stalled, handed, outcome, refusedFor >>

(* A session whose last hand-over found no prompt, while none has shown since. *)
AwaitingPrompt(prompt) ==
  /\ promptless.at # NoTime
  /\ ~prompt /\ ~target.stopped
  /\ now - promptless.at < RecheckMs /\ now < Horizon

(* Either the reason nothing may be typed now is written down, or the members
   of t are to be marked. *)
Commit(t, reason) ==
  \E prompt \in BOOLEAN :
    LET why == IF reason = "none" /\ AwaitingPrompt(prompt) THEN promptless.why
               ELSE reason
    IN /\ promptless' = IF reason = "none" /\ ~AwaitingPrompt(prompt) THEN Prompted
                        ELSE promptless
       /\ IF why # "none" THEN HoldBack(Deliverable(target), why)
          ELSE /\ Wait(Deliverable(target), "none")
               /\ pc' = "mark" /\ todo' = MembersOf(t) /\ text' = t
               /\ \E first \in FirstOf(MembersOf(t)) : sendId' = first
               /\ UNCHANGED << seen, stalled, handed, more, outcome, refusedFor >>

(* handOverNext(), up to the first key: the pane is read, then the clock. *)
Plan ==
  LET S == PlanMembers(target)
      t == [m \in Msg |-> IF m \in S THEN revision[m] ELSE 0]
      why == WaitReasonOf(box, target)
  IN
  /\ up /\ pc = "plan"
  /\ \/ /\ box = "unreadable"
        /\ HoldBack(Msg, "unreadable")
        /\ UNCHANGED promptless
     \/ /\ box # "unreadable" /\ S = {}
        /\ IF \E m \in Msg : state[m] = "typing" THEN HoldBack({}, "none")
           ELSE HoldBack(Deliverable(target), HoldReason(target))
        /\ UNCHANGED promptless
     \/ /\ box # "unreadable" /\ S # {} /\ why = "draft"
        /\ pc' = "draft" /\ text' = t
        /\ UNCHANGED << queueVars, todo, seen, stalled, sendId, handed, more, outcome,
                        refusedFor, promptless >>
     \/ /\ box # "unreadable" /\ S # {} /\ why # "draft"
        /\ Commit(t, why)
  /\ UNCHANGED << ledgerVars, paneVars, wakeVars, ghostVars, boundVars, tracked >>

(* clearOwnDraft(): one Enter for a send of the daemon's own left in the box,
   and then the pane is read again; the plan is not made again. *)
ClearDraft ==
  /\ up /\ pc = "draft"
  /\ \/ /\ box = "own" /\ box' = "free"
        /\ Commit(text, WaitReasonOf("free", target))
     \/ /\ box # "unreadable"
        /\ HoldBack(Deliverable(target), "draft")
        /\ UNCHANGED << box, promptless >>
     \/ /\ box = "unreadable"
        /\ HoldBack(Msg, "unreadable")
        /\ UNCHANGED << box, promptless >>
  /\ UNCHANGED << ledgerVars, target, turnBeganAt, now, wakeVars, ghostVars,
                  boundVars, tracked >>

(* Every member is "typing" under the delivery's id before anything is handed
   over, one appended line each. *)
MarkTyping ==
  /\ up /\ pc = "mark"
  /\ \E m \in FirstOf(todo) :
       /\ Move({m}, "typing", IF Members = {sendId} THEN NoMsg ELSE sendId)
       /\ todo' = todo \ {m}
       /\ pc' = IF todo = {m} THEN "hand" ELSE "mark"
  /\ UNCHANGED << ledgerVars, paneVars, wakeVars, seen, stalled, text, sendId, handed,
                  more, outcome, refusedFor, ghostVars, boundVars, promptless, tracked >>

-----------------------------------------------------------------------------
(* The hand-over, as the send path answers it. External to the deliverer:    *)
(* the ledger row is written before the first key, a refusal before any key  *)
(* leaves no live row, and an id the ledger already holds types nothing.     *)

Answered(what, why) ==
  /\ pc' = "outcome" /\ todo' = Members
  /\ outcome' = what /\ refusedFor' = why
  /\ UNCHANGED << seen, stalled, text, sendId, handed, more >>

(* What the send path says of a pane it typed nothing into. *)
Refused ==
  \/ \E why \in Refusals : Answered("refused", why) /\ promptless' = Prompted
  \/ \E why \in NotReady : /\ Answered("refused", why)
                           /\ promptless' = [at |-> now, why |-> why]

(* A refusal that never reached the ledger. *)
HandRefused ==
  /\ up /\ pc = "hand"
  /\ Refused
  /\ UNCHANGED << queueVars, ledgerVars, paneVars, wakeVars, ghostVars, boundVars,
                  tracked >>

(* A plain refusal: nothing was typed and waiting will not change that. *)
HandFailed ==
  /\ up /\ pc = "hand"
  /\ Answered("failed", "none")
  /\ promptless' = Prompted
  /\ UNCHANGED << queueVars, ledgerVars, paneVars, wakeVars, ghostVars, boundVars,
                  tracked >>

(* accept(): the row is on disk. An id already held answers from its row. A
   session that is not running is revived with this message as its turn. *)
HandAccept ==
  /\ up /\ pc = "hand"
  /\ IF Live(sendId)
     THEN /\ Answered("unproven", "none")
          /\ promptless' = Prompted
          /\ UNCHANGED << ledgerVars, target >>
     ELSE /\ fate' = [fate EXCEPT ![sendId] = "accepted"]
          /\ carried' = [carried EXCEPT ![sendId] = text]
          /\ target' = [target EXCEPT !.stopped = FALSE]
          /\ Goto("type")
          /\ UNCHANGED promptless
  /\ UNCHANGED << queueVars, box, turnBeganAt, now, wakeVars, ghostVars, boundVars,
                  tracked >>

(* The keys of a delivery go to the pane. *)
Typed(t) ==
  /\ copies' = [m \in Msg |-> IF t[m] # 0 THEN copies[m] + 1 ELSE copies[m]]
  /\ typedRev' = [m \in Msg |-> IF t[m] # 0 THEN t[m] ELSE typedRev[m]]

(* The keys went, and the pane proved it, or nothing did yet. *)
KeysGo ==
  /\ up /\ pc = "type"
  /\ Typed(text)
  /\ tracked' = TRUE /\ promptless' = Prompted
  /\ \/ /\ Answered("landed", "none")
        /\ \E f \in {"accepted"} \cup (Verdicts \cap {"queued"}) : fate' = [fate EXCEPT ![sendId] = f]
     \/ /\ Answered("unproven", "none")
        /\ \E f \in {"accepted"} \cup (Verdicts \cap {"unaccounted"}) : fate' = [fate EXCEPT ![sendId] = f]
  /\ UNCHANGED << queueVars, carried, paneVars, wakeVars, boundVars >>

(* The send path threw after the row was written: the keys may have gone, and
   the tracker may not have been told. *)
KeysThrow ==
  /\ up /\ pc = "type"
  /\ Typed(text) \/ UNCHANGED ghostVars
  /\ \E told \in BOOLEAN : tracked' = (tracked \/ told)
  /\ promptless' = Prompted
  /\ Answered("failed", "none")
  /\ UNCHANGED << queueVars, ledgerVars, paneVars, wakeVars, boundVars >>

(* The pane refused before any key: the row is withdrawn. *)
PaneRefuses ==
  /\ up /\ pc = "type"
  /\ fate' = [fate EXCEPT ![sendId] = "withdrawn"]
  /\ Refused
  /\ UNCHANGED << queueVars, carried, paneVars, wakeVars, ghostVars, boundVars,
                  tracked >>

(* A person's message the screen refused is kept open, for the tracker to type. *)
KeptUntyped ==
  /\ up /\ pc = "type" /\ \A m \in Members : SenderOf[m] = "human"
  /\ Answered("unproven", "none")
  /\ tracked' = TRUE /\ promptless' = Prompted
  /\ UNCHANGED << queueVars, ledgerVars, paneVars, wakeVars, ghostVars, boundVars >>

-----------------------------------------------------------------------------
(* What the answer does to the members, one appended line each.              *)

OutcomeState ==
  CASE outcome = "landed"  -> "delivered"
    [] outcome = "refused" -> "queued"
    [] outcome = "failed"  -> "failed"

(* An answer that moves nothing: unproven, or a throw whose row the ledger has. *)
LeftTyping == outcome = "unproven" \/ (outcome = "failed" /\ fate[sendId] # "none")

Conclude ==
  /\ up /\ pc = "outcome" /\ todo = Members /\ LeftTyping
  /\ pc' = "schedule" /\ more' = FALSE /\ todo' = {} /\ text' = Nothing
  /\ sendId' = NoMsg /\ outcome' = "none" /\ refusedFor' = "none"
  /\ UNCHANGED << queueVars, ledgerVars, paneVars, wakeVars, seen, stalled, handed,
                  ghostVars, boundVars, promptless, tracked >>

ConcludeOne ==
  /\ up /\ pc = "outcome" /\ ~LeftTyping
  /\ \E m \in FirstOf(todo) : Move({m}, OutcomeState, NoMsg) /\ todo' = todo \ {m}
  /\ UNCHANGED << ledgerVars, paneVars, wakeVars, pc, seen, stalled, text, sendId, handed,
                  more, outcome, refusedFor, ghostVars, boundVars, promptless, tracked >>

(* A refusal is written on everything that waits; after a landing or a failure
   the next message may go. *)
ConcludeLast ==
  /\ up /\ pc = "outcome" /\ todo = {}
  /\ IF outcome = "refused" THEN Wait(Deliverable(target), refusedFor)
     ELSE UNCHANGED queueVars
  /\ LET again == outcome # "refused" /\ handed + 1 < PerLook IN
     /\ pc' = IF again THEN "plan" ELSE "schedule"
     /\ handed' = IF again THEN handed + 1 ELSE handed
     /\ more' = (outcome # "refused")
  /\ text' = Nothing /\ sendId' = NoMsg /\ outcome' = "none" /\ refusedFor' = "none"
  /\ UNCHANGED << ledgerVars, paneVars, wakeVars, todo, seen, stalled, ghostVars,
                  boundVars, promptless, tracked >>

-----------------------------------------------------------------------------
(* The end of a look: when the next one is.                                  *)

(* Mutant: a message waiting for a reason is not looked at again. *)
Unsettled_ForgetsWaiting(m) ==
  \/ state[m] = "typing"
  \/ state[m] \in {"delivered", "unconfirmed"} /\ now - stateAt[m] < ReadWatch

Unsettled(m) ==
  \/ state[m] = "typing"
  \/ state[m] = "queued" /\ waitReason[m] # "none"
  \/ state[m] \in {"delivered", "unconfirmed"} /\ now - stateAt[m] < ReadWatch

(* Mutant: only an FYI's hold wakes the session. *)
HoldEnds_FyiOnly ==
  {holdUntil[m] : m \in {n \in Msg : /\ state[n] = "queued" /\ StoredLabel(n) = "fyi"
                                     /\ holdUntil[n] > now}}

(* The holds that still have time to run. *)
HoldEnds ==
  {holdUntil[m] : m \in {n \in Msg : /\ state[n] = "queued" /\ SenderOf[n] = "agent"
                                     /\ holdUntil[n] > now}}

Schedule ==
  LET polls == more \/ \E m \in Msg : Unsettled(m)
      due == HoldEnds \cup (IF polls THEN {Min2(now + LookMs, Horizon)} ELSE {})
  IN
  /\ up /\ pc = "schedule"
  /\ IF due = {} THEN open' = FALSE /\ UNCHANGED timer
     ELSE /\ open' = TRUE
          /\ \E t \in due : timer' = t /\ \A u \in due : t <= u
  /\ LookOver
  /\ UNCHANGED << queueVars, ledgerVars, paneVars, up, stopped, pending, owed,
                  ghostVars, boundVars, promptless, tracked >>

(* A read or an append inside a look throws: the look is over, and whoever
   asked for it swallows the error. *)
LookThrows ==
  /\ up /\ pc \in {"settle", "move", "plan", "mark", "outcome", "schedule"}
  /\ faults < MaxFaults
  /\ faults' = faults + 1
  /\ LookOver
  /\ UNCHANGED << queueVars, ledgerVars, paneVars, wakeVars, ghostVars, crashes,
                  rowLosses, losses, retries, cancels, promptless, tracked >>

-----------------------------------------------------------------------------
(* The daemon's life.                                                        *)

(* stop(): no look is asked for again; one already asked for still runs. *)
Stop ==
  /\ up /\ ~stopped /\ crashes < MaxCrashes
  /\ stopped' = TRUE /\ timer' = NoTime
  /\ UNCHANGED << queueVars, ledgerVars, paneVars, up, open, pending, owed, lookVars,
                  ghostVars, boundVars, promptless, tracked >>

MemoryLost ==
  /\ up' = FALSE /\ stopped' = FALSE /\ open' = FALSE /\ timer' = NoTime
  /\ pending' = FALSE /\ owed' = FALSE
  /\ promptless' = Prompted /\ tracked' = FALSE
  /\ LookOver

(* The process ends, told to or not: what was in memory is gone. *)
Crash ==
  /\ up /\ crashes < MaxCrashes
  /\ crashes' = crashes + 1
  /\ MemoryLost
  /\ UNCHANGED << queueVars, ledgerVars, paneVars, ghostVars, rowLosses, faults, losses,
                  retries, cancels >>

(* The host goes down with ledger rows it has not written back: the queue's
   lines were flushed before they were answered, the ledger's were not. *)
HostCrash ==
  /\ up /\ rowLosses < MaxRowLosses
  /\ rowLosses' = rowLosses + 1
  /\ MemoryLost
  /\ \E lost \in SUBSET Msg :
       fate' = [s \in Msg |-> IF s \in lost THEN "none" ELSE fate[s]]
  /\ UNCHANGED << queueVars, carried, paneVars, ghostVars, crashes, faults, losses,
                  retries, cancels >>

(* arm(): every session is looked at once, by the deliverer and the tracker. *)
Boot ==
  /\ ~up
  /\ up' = TRUE /\ pending' = TRUE /\ tracked' = TRUE
  /\ UNCHANGED << queueVars, ledgerVars, paneVars, stopped, open, timer, owed,
                  lookVars, ghostVars, boundVars, promptless >>

-----------------------------------------------------------------------------
(* External: the send tracker and a person acting on the ledger, and the     *)
(* session itself.                                                           *)

(* What a proof of a send's text, or of its absence, finds. It is the truth
   here: a copy that turns up after its absence was proven is not modelled. *)
HasText(s) == \E m \in MembersOf(carried[s]) : copies[m] > 0

(* The send path's own lock: no verdict while the hand-over of s still runs. *)
HandingOver(s) == pc = "type" /\ sendId = s

(* A torn line has no newline, so the row appended next runs into it and is not
   read again (see AppendLog): a send's only row, or the last word on one. *)
RowLost(s) ==
  /\ up /\ fate[s] # "none" /\ ~HandingOver(s)
  /\ rowLosses < MaxRowLosses
  /\ rowLosses' = rowLosses + 1
  /\ \E f \in {"none", "accepted"} \ {fate[s]} : fate' = [fate EXCEPT ![s] = f]
  /\ UNCHANGED << queueVars, carried, paneVars, wakeVars, lookVars, ghostVars, crashes,
                  faults, losses, retries, cancels, promptless, tracked >>

(* A tracker look settles a row: only a proof of the text moves it forward,
   only a proof of its absence times it out. *)
TrackerSettles(s) ==
  /\ up /\ tracked /\ ~HandingOver(s)
  /\ \E f \in Verdicts :
       /\ fate' = [fate EXCEPT ![s] = f]
       /\ \/ f = "queued" /\ fate[s] = "accepted" /\ HasText(s)
          \/ /\ f = "delivered" /\ HasText(s)
             /\ fate[s] \in {"accepted", "queued", "unaccounted", "cancelled"}
          \/ f = "unaccounted" /\ fate[s] \in {"accepted", "queued"}
          \/ f = "timed_out" /\ fate[s] \in {"accepted", "queued"} /\ ~HasText(s)
  /\ UNCHANGED << queueVars, carried, paneVars, wakeVars, lookVars, ghostVars,
                  boundVars, promptless, tracked >>

TypedAgain(s) ==
  /\ fate' = [fate EXCEPT ![s] = "accepted"]
  /\ Typed(carried[s])
  /\ UNCHANGED << queueVars, carried, paneVars, wakeVars, lookVars, promptless >>

(* The tracker types an open send again, under its own id, once it is proven
   absent. *)
Retype(s) ==
  /\ up /\ tracked /\ ~HandingOver(s)
  /\ fate[s] \in {"accepted", "queued"} /\ ~HasText(s)
  /\ TypedAgain(s)
  /\ UNCHANGED << boundVars, tracked >>

(* Mutant: a send nobody can account for is typed again as one that timed out. *)
RetrySend_InDoubt(s) ==
  /\ up /\ ~HandingOver(s) /\ retries < MaxRetries
  /\ fate[s] \in {"timed_out", "unaccounted"}
  /\ TypedAgain(s)
  /\ tracked' = TRUE /\ retries' = retries + 1
  /\ UNCHANGED << crashes, rowLosses, faults, losses, cancels >>

(* A person asks for one that timed out to be typed again. One forced on a send
   nobody can account for accepts a second copy, and is left out. *)
RetrySend(s) ==
  /\ up /\ ~HandingOver(s) /\ retries < MaxRetries
  /\ fate[s] = "timed_out" /\ ~HasText(s)
  /\ TypedAgain(s)
  /\ tracked' = TRUE /\ retries' = retries + 1
  /\ UNCHANGED << crashes, rowLosses, faults, losses, cancels >>

(* A person takes a send back that is not proven delivered. The copy it erases
   from the composer, when there is one, is a TextLost after it. *)
OwnerCancelsSend(s) ==
  /\ up /\ ~HandingOver(s) /\ cancels < MaxCancels
  /\ fate[s] \in {"accepted", "queued", "unaccounted", "timed_out"}
  /\ fate' = [fate EXCEPT ![s] = "cancelled"]
  /\ cancels' = cancels + 1
  /\ UNCHANGED << queueVars, carried, paneVars, wakeVars, lookVars, ghostVars,
                  crashes, rowLosses, faults, losses, retries, promptless, tracked >>

(* A pane dies, or a harness takes a prompt back, before it is read. *)
TextLost(s) ==
  /\ losses < MaxLosses /\ HasText(s) /\ fate[s] # "delivered"
  /\ losses' = losses + 1
  /\ copies' = [m \in Msg |-> IF carried[s][m] # 0 THEN 0 ELSE copies[m]]
  /\ UNCHANGED << queueVars, ledgerVars, paneVars, wakeVars, lookVars, typedRev,
                  crashes, rowLosses, faults, retries, cancels, promptless, tracked >>

(* The deliverer reads the pane only in these two steps, so a change at any
   other moment is a change just before one of them. *)
BoxChanges ==
  /\ pc \in {"plan", "draft"}
  /\ box' \in BoxStates \ {box}
  /\ UNCHANGED << queueVars, ledgerVars, target, turnBeganAt, now, wakeVars, lookVars,
                  ghostVars, boundVars, promptless, tracked >>

TargetChanges ==
  /\ \/ /\ "stop" \in TargetMoves /\ ~target.stopped
        /\ target' = [target EXCEPT !.stopped = TRUE] /\ UNCHANGED turnBeganAt
     \/ /\ "start" \in TargetMoves /\ target.stopped
        /\ target' = [target EXCEPT !.stopped = FALSE] /\ UNCHANGED turnBeganAt
     \/ /\ "turn" \in TargetMoves /\ target.turnEndedAt # NoTime
        /\ target' = [target EXCEPT !.turnEndedAt = NoTime] /\ turnBeganAt' = now
     \/ /\ "turn" \in TargetMoves /\ target.turnEndedAt = NoTime
        /\ target' = [target EXCEPT !.turnEndedAt = now] /\ UNCHANGED turnBeganAt
     \/ /\ "park" \in TargetMoves
        /\ \E m \in Msg : /\ SenderOf[m] = "agent" /\ target.answeredBy # {m}
                          /\ target' = [target EXCEPT !.answeredBy = {m}]
        /\ UNCHANGED turnBeganAt
  /\ UNCHANGED << queueVars, ledgerVars, box, now, wakeVars, lookVars, ghostVars,
                  boundVars, promptless, tracked >>

ClockIs(t) ==
  /\ pc = "schedule" => LookTakesTime
  /\ now' = t
  /\ UNCHANGED << queueVars, ledgerVars, box, target, turnBeganAt, wakeVars, lookVars,
                  ghostVars, boundVars, promptless, tracked >>

Tick == now < Horizon /\ ClockIs(now + 1)

(* The host corrects its clock; no operation of the queue expects it. *)
TickBack == ClockSteps /\ now > 0 /\ ClockIs(now - 1)

-----------------------------------------------------------------------------
Init ==
  /\ QueueInit
  /\ fate = [m \in Msg |-> "none"]
  /\ carried = [m \in Msg |-> Nothing]
  /\ box = "free"
  /\ target = [interactive |-> Interactive, stopped |-> FALSE, turnEndedAt |-> NoTime,
               answeredBy |-> {}]
  /\ turnBeganAt = 0
  /\ up = TRUE /\ stopped = FALSE /\ open = FALSE /\ timer = NoTime
  /\ pending = FALSE /\ owed = FALSE /\ promptless = Prompted /\ tracked = FALSE
  /\ pc = "idle" /\ todo = {} /\ seen = Unread /\ stalled = FALSE /\ text = Nothing
  /\ sendId = NoMsg /\ handed = 0 /\ more = FALSE
  /\ outcome = "none" /\ refusedFor = "none"
  /\ copies = Nothing /\ typedRev = Nothing
  /\ crashes = 0 /\ rowLosses = 0 /\ faults = 0 /\ losses = 0 /\ retries = 0
  /\ cancels = 0

SenderStep == \E m \in Msg : Request(m) \/ EditText(m) \/ TakeBack(m)

WakeStep == Enqueued \/ Changed \/ TimerFires

LookStep ==
  \/ Begin \/ ReadFate \/ (\E m \in Msg : SettleOne(m)) \/ SettleDone
  \/ Plan \/ ClearDraft \/ MarkTyping
  \/ HandRefused \/ HandFailed \/ HandAccept
  \/ KeysGo \/ KeysThrow \/ PaneRefuses \/ KeptUntyped
  \/ Conclude \/ ConcludeOne \/ ConcludeLast \/ Schedule

SendStep == \E s \in Msg : TrackerSettles(s) \/ Retype(s) \/ RetrySend(s)

WorldStep ==
  \/ \E s \in Msg : OwnerCancelsSend(s) \/ TextLost(s) \/ RowLost(s)
  \/ BoxChanges \/ TargetChanges \/ Tick \/ TickBack

DaemonStep == Stop \/ Crash \/ HostCrash \/ Boot \/ LookThrows

Next == SenderStep \/ WakeStep \/ LookStep \/ SendStep \/ WorldStep \/ DaemonStep

Spec == Init /\ [][Next]_vars
=============================================================================
