------------------------ MODULE QueueDelivererProps ------------------------
(***************************************************************************)
(* What the queue and its deliverer promise.                               *)
(***************************************************************************)
EXTENDS QueueDeliverer

(* The types of the variables, in the parts a step changes together. *)
LedgerTypeOK == fate \in [Msg -> Fates] /\ carried \in [Msg -> [Msg -> Nat]]

PaneTypeOK ==
  /\ box \in BoxStates
  /\ target \in [interactive : BOOLEAN, stopped : BOOLEAN,
                 turnEndedAt : Time \cup {NoTime}, answeredBy : SUBSET Msg]
  /\ turnBeganAt \in Time

WakeTypeOK ==
  /\ up \in BOOLEAN /\ stopped \in BOOLEAN /\ open \in BOOLEAN
  /\ timer \in Time \cup {NoTime}
  /\ pending \in BOOLEAN /\ owed \in BOOLEAN /\ tracked \in BOOLEAN
  /\ promptless \in [at : Time \cup {NoTime}, why : WaitReasons]

LookTypeOK ==
  /\ pc \in {"idle", "settle", "move", "plan", "draft", "mark", "hand", "type",
             "outcome", "schedule"}
  /\ todo \subseteq Msg
  /\ seen \in [of : Msg \cup {NoMsg}, fate : Fates] /\ stalled \in BOOLEAN
  /\ text \in [Msg -> Nat]
  /\ sendId \in Msg \cup {NoMsg}
  /\ handed \in Nat /\ more \in BOOLEAN
  /\ outcome \in {"none", "landed", "unproven", "refused", "failed"}
  /\ refusedFor \in WaitReasons

GhostTypeOK ==
  /\ copies \in [Msg -> Nat] /\ typedRev \in [Msg -> Nat]
  /\ crashes \in Nat /\ rowLosses \in Nat /\ faults \in Nat /\ losses \in Nat
  /\ retries \in Nat /\ cancels \in Nat

(* Every variable has its type: states and wait reasons are those of
   protocol/session-queue.ts, fates those of the send ledger. *)
TypeOK ==
  /\ QueueTypeOK /\ LedgerTypeOK /\ PaneTypeOK
  /\ WakeTypeOK /\ LookTypeOK /\ GhostTypeOK

-----------------------------------------------------------------------------
(* Safety of the text itself.                                                *)

(* No message is ever in front of the agent twice, whatever crashes, throws,
   is lost, typed again or settled in between ("nothing is ever typed twice
   on a guess"). *)
AtMostOneCopy == \A m \in Msg : copies[m] <= 1

(* A message shown as waiting, which its sender may still change or take back,
   was never typed: movesFrom sends one back to the queue only from a ledger
   that proves no key went. *)
WaitingWasNeverTyped == \A m \in Msg : state[m] = "queued" => typedRev[m] = 0

(* A message its sender took back is never typed, and what the agent was given
   of a message is the text of the last edit the queue answered. *)
SenderWasTold ==
  \A m \in Msg : /\ state[m] = "cancelled" => typedRev[m] = 0
                 /\ typedRev[m] # 0 => typedRev[m] = revision[m]

(* Every message "typing" belongs to one and the same delivery. *)
OneDelivery ==
  \A m, n \in Msg :
    state[m] = "typing" /\ state[n] = "typing" => SendIdOf(m) = SendIdOf(n)

(* "failed" is final, so it is said only of a message the agent does not have,
   or whose send a person cancelled: a fate that cannot tell is "unconfirmed". *)
FailedIsAbsent ==
  [][ \A m \in Msg :
        state[m] # "failed" /\ state'[m] = "failed" =>
          copies[m] = 0 \/ seen.fate = "cancelled" ]_vars

-----------------------------------------------------------------------------
(* Why they hold: the strengthening the proofs are made with.                *)

(* The row of s is live and was written for m. *)
Carries(s, m) == Live(s) /\ carried[s][m] # 0

(* A live row carries a message as it reads, under the id the message names,
   and only one that left the queue. *)
RowsMatch ==
  \A s, m \in Msg : Carries(s, m) =>
    /\ state[m] \notin {"absent", "queued", "cancelled"}
    /\ SendIdOf(m) = s
    /\ carried[s][m] = revision[m]

(* What the agent has, it has from a live row. *)
TypedHasRow ==
  \A m \in Msg :
    /\ copies[m] \in {0, 1}
    /\ copies[m] # 0 => typedRev[m] # 0
    /\ typedRev[m] # 0 => Carries(SendIdOf(m), m) /\ typedRev[m] = revision[m]

(* Nothing of m was typed, and no live row will have it typed. *)
Untouched(m) == typedRev[m] = 0 /\ \A s \in Msg : ~Carries(s, m)

InDelivery(m) == state[m] = "typing" /\ SendIdOf(m) = sendId

(* What a look knows of the delivery it holds, step by step. *)
LookKnows ==
  /\ pc \in {"draft", "mark"} => \A m \in Members : text[m] = revision[m]
  /\ pc = "draft" => \A m \in Members : state[m] = "queued"
  /\ pc = "draft" => \A m \in Msg : state[m] # "typing"
  /\ pc = "mark" =>
       /\ sendId \in Members /\ todo \subseteq Members
       /\ \A m \in todo : state[m] = "queued"
       /\ \A m \in Members \ todo : InDelivery(m) /\ Untouched(m)
       /\ \A m \in Msg : state[m] = "typing" => m \in Members \ todo
  /\ pc = "hand" =>
       /\ sendId \in Members
       /\ \A m \in Members : InDelivery(m) /\ Untouched(m) /\ text[m] = revision[m]
  /\ pc = "type" =>
       /\ sendId \in Members /\ Live(sendId) /\ carried[sendId] = text
       /\ \A m \in Members : InDelivery(m) /\ typedRev[m] = 0 /\ text[m] = revision[m]
  /\ pc = "outcome" =>
       /\ outcome # "none"
       /\ \A m \in todo : InDelivery(m)
       /\ outcome = "refused" => \A m \in todo : Untouched(m)

(* A fate read as "nothing was typed" stays so until the message is moved. *)
SeenHolds ==
  pc = "move" /\ seen.fate \in NeverTyped =>
    seen.of \in Msg /\ ~Live(SendIdOf(seen.of))

(* The inductive invariant, of the steps in which the ledger loses no row. *)
Inductive == RowsMatch /\ TypedHasRow /\ OneDelivery /\ LookKnows /\ SeenHolds

-----------------------------------------------------------------------------
(* Order.                                                                    *)

RowWritten == pc = "hand" /\ pc' = "type"

AheadOf(a, b) ==
  LET kinds == << "human", "agent", "daemon" >>
      rank(m) == CHOOSE k \in 1 .. 3 : kinds[k] = SenderOf[m]
  IN  rank(a) < rank(b) \/ (rank(a) = rank(b) /\ position[a] < position[b])

(* When a delivery reaches the ledger, no person's message is left waiting
   behind another sender's, and none of a kind behind a later one of its kind,
   whatever moved while the look ran. *)
OrderKept ==
  [][ RowWritten =>
        \A m \in Members, w \in Msg :
          state[w] = "queued" /\ (SenderOf[w] = "human" \/ SenderOf[w] = SenderOf[m])
            => ~AheadOf(w, m) ]_vars

MayBePassed(w) ==
  \/ holdUntil[w] # NoTime /\ now < holdUntil[w]
  \/ target.stopped /\ LabelOf[w] = "fyi"

(* The daemon's message may pass a ferret's that is still held to be combined,
   never one whose hold is over, unless the session is stopped and only FYIs
   are held back from reviving it. *)
HeldOnlyIsPassed ==
  [][ pc = "plan" /\ (\E m \in Msg : text'[m] # 0 /\ SenderOf[m] = "daemon") =>
        \A w \in Msg : state[w] = "queued" /\ SenderOf[w] = "agent" => MayBePassed(w) ]_vars

-----------------------------------------------------------------------------
(* Waking up.                                                                *)

(* What an idle session still has to do without anybody asking. *)
HasWork ==
  \E m \in Msg :
    \/ state[m] = "typing"
    \/ state[m] = "queued" /\ ~BoardOnly(m, target)

(* A session at rest with a message to deliver or to settle has a look coming:
   no interleaving of requests, looks and timers loses the last wake-up. *)
WakeUpComing ==
  up /\ ~stopped /\ pc = "idle" /\ HasWork => pending \/ owed \/ timer # NoTime

-----------------------------------------------------------------------------
(* What the docs say and the code does not do. Each is violated by its run.   *)

(* "It looks at a session ... at the moment the earliest HOLD ends": an idle
   session has a look coming for every message it holds. Not so when the hold
   ends between the plan's reading of the clock and the schedule's. *)
HoldIsWatched ==
  \A m \in Msg :
    /\ up /\ ~stopped /\ pc = "idle"
    /\ state[m] = "queued" /\ holdUntil[m] # NoTime
    => pending \/ owed \/ timer # NoTime

-----------------------------------------------------------------------------
(* Liveness.                                                                 *)

(* The daemon runs what it has begun, its timers fire, the clock goes on, a
   process that was told to stop ends and is started again, and the tracker
   looks at what it was given. *)
Fair ==
  /\ WF_vars(LookStep) /\ WF_vars(Begin) /\ WF_vars(Enqueued) /\ WF_vars(TimerFires)
  /\ SF_vars(Tick) /\ WF_vars(Boot) /\ WF_vars(stopped /\ Crash)
  /\ \A s \in Msg : WF_vars(TrackerSettles(s))

(* The pane's side of a hand-over: one tried again and again is one day not
   refused. *)
PaneTakesIt == SF_vars(HandAccept) /\ SF_vars(KeysGo)

FairSpec == Spec /\ Fair /\ PaneTakesIt

(* No hand-over stays in flight for ever: a row nobody proves is put to the
   tracker again, so nothing behind it is held for good. *)
HandOverSettles == \A m \in Msg : state[m] = "typing" ~> state[m] # "typing"

Underway == {"queued", "typing"}

(* Every message reaches the agent, is given up or is taken back in the end,
   when the session's input box is one day free for good. *)
EveryMessageGoes ==
  <>[](box = "free") =>
     \A m \in Msg : state[m] \in Underway ~> state[m] \notin Underway

-----------------------------------------------------------------------------
(* The queue and its deliverer keep the promise of MessageDelivery.          *)

PhaseName(s) ==
  CASE s = "absent" -> "absent"
    [] s = "queued" -> "waiting"
    [] s = "typing" -> "handing"
    [] s = "cancelled" -> "recalled"
    [] OTHER -> "settled"

PhaseOf == [m \in Msg |-> PhaseName(state[m])]

Promise == INSTANCE MessageDelivery
             WITH phase <- PhaseOf, words <- revision, given <- typedRev

(* Every step of the queue, the deliverer, the tracker and a crash is a step of
   MessageDelivery, or changes nothing it can see. *)
Delivery == Promise!Spec
=============================================================================
