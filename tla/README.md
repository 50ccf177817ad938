# Ferretry: messages, serial work, live sessions and the relay

Ferretry's daemon runs coding agents ("ferrets") in terminal panes; people, other ferrets and the daemon
itself send them messages, and a phone reaches the daemon through a relay. This directory holds TLA+ models
of the parts whose promises are hardest to keep and to test:

- the durable per-session **message queue**, the **deliverer** that types its messages into the agent's
  terminal, and the two **append-only logs** both rest on;
- the **per-key serial executor** that orders every write of a session's documents;
- the **session archive**: which sessions are live, while archive passes, revivals, pins, new children,
  sweeps and restarts overlap;
- the relay's **rendezvous**, where a daemon claims its slot and clients meet it, and the **credit window**
  of a relayed session.

TLC checks the models on small instances. TLAPS proves, for every value of the constants, the safety of
delivery and its refinement of an abstract specification, the serial executor's promise, and the safety of the credit window.

Paths below are relative to the repository; `daemon/` is `packages/daemon/src/`, `relay/` is `packages/relay/src/`.

## 1. The system

| Part | State | Operations | What makes it correct |
| --- | --- | --- | --- |
| Message queue (`daemon/lib/session/queue/{model,service,policy,delivery}.ts`) | `channel/queue.jsonl`, folded into one record per message | enqueue, edit, cancel; `moved` and `waiting` events | A waiting message was never typed; an answered edit or recall stays true; who goes first |
| Deliverer (`queue/deliverer.ts`, `adapters/session/queue/send-path-delivery.ts`) | In memory: open sessions, one scheduled look each, the last refusal for want of a prompt | `enqueued`, `changed`, `look`, `arm`, `stop` | One delivery in flight, settled by proof only; no lost wake-up; every message goes in the end |
| Send ledger and queue store (`adapters/session/send/file-send-ledger.ts`, `adapters/session/queue/file-session-queue-store.ts`) | Two JSON-lines files; an incremental read cache over one of them | append, whole read, incremental read | What resolved is read; the cache answers what the file says |
| Send path and send tracker (`daemon/lib/session/send/{service,tracker}.ts`) | Ledger rows, turn files, the pane, notices owed | send, reattempt, cancel, check, expire, settle | Row before the first key; a fate is written only on proof; only a send proven absent is typed again |
| Per-key serial executor (`adapters/system/keyed-serial-executor.ts`) | Tails per key, one barrier, a count of exclusive calls | `run`, `runAcross`, `runIfIdle`, `runExclusive`, `runExclusiveYielding` | Mutual exclusion per key, order of acceptance, no starvation past sixteen yields |
| Session archive (`adapters/storage/session-storage.ts`, `adapters/session/archive`, `daemon/lib/session/archive`) | Session documents, the archive registry in a file and in memory, the live index | archive pass, retention, state and config writes, publish child, pin, sweep, survey | What runs or is kept is live; a lead outlives its children; one home per session; file and memory agree |
| Rendezvous (`relay/lib/rendezvous.ts`, `relay/adapters/worker.ts`) | One stored document per daemon; the claim marked on a socket; an alarm; a queue of handlers | arrivals, claims, frames, closes, sweeps, reconciliation | The slot is its holder's; frames that cross a close do no harm; a client finds the daemon that is there |
| Carrier and link (`daemon/adapters/relay/bun-relay-carrier.ts`, `daemon/lib/relay/link.ts`) | One socket, sessions live and recently ended, a handover token | dial, claim, keepalive, probe, redial; serve sessions | Comes back after any loss; sends nothing the rendezvous would close its socket for |
| Credit window (`relay/lib/flow.ts`, used by the link, the rendezvous and `packages/pwa/src/lib/relay-session.ts`) | Two counts per direction at each of three places | send, forward, credit, consume | Bounded memory; honest peers are never ended; nothing stalls |
| Session lifecycle, launch, resume, restart, health, questions (`daemon/lib/session/*`) | The session document | launch, stop, revive, observe, ask, answer | One live process per session; a question is answered once |
| Transcript and pane readers, harness adapters (`daemon/lib/{transcript,tmux}`, `session/harness`) | None of their own | parse, drive | Text handling |
| Warden, agenda, board, input requests, budgets, names, usage | Documents of their own | sweeps, state machines, folds | Backoff, concurrency limits, one-shot answers |
| Pairing, step-up, tunnel (`daemon/lib/{pairing,step-up,tunnel}`) | One-use codes, a supervised process | issue, redeem, restart | A code is used once |
| Fleet accounts, secrets, catalogs, browser, cgroups, worktrees | Documents, operating-system resources | edits, provisioning | Validation |
| Command line, web app, HTTP API (`packages/{cli,pwa}`, `daemon/lib/api`) | Almost none; the web app keeps an outbox | requests, views | Faithful display |

**How delivery's parts interact.** A request is enqueued under the session's queue lock and answered
once its line is flushed. The route then tells the deliverer (`enqueued`). The deliverer looks at the
session, holding the queue lock from its first read to its last write: it settles what was handed over
from the send ledger, plans what is next, marks it `typing` on disk, hands it to the send path, records
the answer, and schedules the next look. The send path has a lock of its own: it writes a ledger row
and only then types. The tracker reads the transcript and the pane at its own pace and moves ledger rows.
The clock, the pane, the session, a person and a crash may do anything between two awaits of a look.

**How the archive's parts interact.** Three serial executors nest: the gate of a lineage's root, the lanes of the sessions, and the
registry's turn. A pass holds every gate and lane of the lineages it archives and reads again what it decided on; a retention takes
only a registry turn, whatever its caller holds, and cancels or undoes a commit it meets.

**How the relay's parts interact.** A rendezvous is a durable object that runs one handler at a time from a queue. Each handler loads the
document, corrects it against the sockets the runtime lists (`reconciled`), reduces one event and applies the step: the write, the mark
of the holder, the effects. A socket's close erases its claim at once and joins the queue. The daemon's carrier dials,
answers the challenge with a claim that names the token of its last slot (`replaces`), and redials whenever its socket ends, stays
silent or is no longer confirmed. Clients' sessions are frames on the daemon's one socket. Within a session each direction has a
window: the sender counts what it sent, the rendezvous counts it again and ends the session on a difference, the receiver returns credit in halves of a window.

Hard behaviours, each with the properties aimed at it (`PROJECT.json` lists them at their lines): a crash
between any two of "marked", "row", "keys", "answer recorded" (`AtMostOneCopy`, `WaitingWasNeverTyped`);
a fate read before an await and used after it (`FailedIsAbsent`); a batch recorded
one line at a time (`OneDelivery`); an edit or recall racing the look that types the message
(`SenderWasTold`, `Delivery`); a lost wake-up (`WakeUpComing`); a hand-over nobody settles
(`HandOverSettles`); senders overtaking each other (`OrderKept`); torn log lines and a
stale read cache (`LossBounded`, `ReadStays`, `CacheAgrees`); keyed, multi-key and exclusive work overlapping (`Exclusion`, `RunsInOrder`,
`EveryCallRuns`); a session revived, pinned or given a child in the middle of an archive commit (`RunningIsLive`, `KeptIsLive`,
`LeadStays`); nested executors (`NobodyIsStuck`); frames crossing a close (`CrossingFramesAreForgiven`, `SessionsAgree`); a
document and sockets that disagree (`HandlersAgree`, `PhoneFindsDaemon`); a rival claim and a dead path (`SlotIsNotStolen`, `OneClaim`,
`DaemonComesBack`); a sweep nobody asks for (`SweepComing`); credit of requests that wait, and of a window that went back (`HonestEndsAgree`, `HeldBounded`, `NothingStalls`).

## 2. The modules

| Module | What it is |
| --- | --- |
| `SessionQueue` | The fold of the queue's log, the senders' three operations, the delivery policy and the ledger-to-queue mapping, as operators on the folded state |
| `QueueDeliverer` | `EXTENDS SessionQueue`. The deliverer's look, step by step, its timers, the daemon's life, and as its environment the send path, the tracker, a person, the pane and the clock |
| `MessageDelivery` | The abstract specification: what is promised of a message, with none of how |
| `QueueDelivererProps`, `MCQueueDeliverer` | The properties, the strengthening the proofs use, the refinement mapping, fairness; five messages for TLC |
| `AppendLog` | The two files: torn writes, restarts, both ways of reading |
| `SerialLanes` | The abstract specification of the serial executor: lanes, no promises |
| `KeyedSerial`, `MCKeyedSerial` | The executor with its five entry points, tails, barrier and count; two keys and six calls for TLC |
| `SessionArchive`, `MCSessionArchive` | The archive pass and everything that moves a session back; a lineage of three sessions for TLC |
| `Rendezvous`, `RendezvousProps`, `MCRendezvous` | The rendezvous object, composed with the daemons' carriers and links and with clients; properties and fairness; sockets for TLC |
| `CreditWindow` | One direction of a session: sender, rendezvous, receiver |
| `QueueDelivererSafety`, `QueueDelivererOrder` | Proofs about the deliverer, the second module on the first: types, what was typed, and the refinement; order, wake-ups, failed messages |
| `AppendLogProofs`, `KeyedSerialProofs`, `SessionArchiveProofs`, `CreditWindowProofs` | Proofs about the other components, one module each |
| `RendezvousProofs`, `RendezvousOrder` | Proofs about the rendezvous, the second module on the first: types, claims, the slot and arrivals; the order of what crosses, and the sessions both ends run |

### SessionQueue and the code

One message's folded fields are functions of its id (`state`, `stateAt`, `deliveredAs`, `waitReason`,
`enqueuedAt`, `holdUntil`, `position`, `revision`); appending an event is applying it. `NextStates` is the `NEXT`
table, and `Move` and `Wait` are `applied`, illegal events changing nothing included. `GoesBefore`,
`EffectiveLabel`, `IsDue` and `PlanMembers` are `deliveryOrder`, `effectiveLabel`, `isDue` and `planDelivery`;
`MovesFrom` is `movesFrom`. The clock is a number of ticks; the text of a message is its `revision`.

Two moves of one settlement, `typing` to `delivered` to `read`, are one step: a crash between them leaves what
a landed hand-over leaves anyway. `stateAt` is kept only where the code reads it. `waitBehind`, failure
texts and attachments are left out: nothing else depends on them.

### QueueDeliverer and the code

`pc` is where the running look is: `settle` and `move` (`settle`), `plan`, `draft`, `mark`, `hand`, `type` and
`outcome` (`handOverNext`), `schedule` (the end of `lookLocked`), `idle` when the queue lock is free. There
is a step for every await at which something can slip in; reads that nothing can change under the queue
lock are joined with the next step. `pending` is a look waiting for the lock: several asked for while one
runs are one here, since a second finds nothing the first did not. `owed` is a message stored and not announced.

- `Request`, `EditText`, `TakeBack`: `QueueingSends.send`, `SessionQueueService.edit`, `cancel`.
- `Enqueued`, `Changed`, `TimerFires`, `Begin`: what makes the deliverer look.
- `ReadFate`, `SettleOne`, `SettleDone`: `settle` and `recheck`. `recheck` has its own interval in the code;
  asking the tracker again is idempotent here.
- `Plan`, `ClearDraft`, `MarkTyping`: `handOverNext` up to the hand-over, `Commit` and `HoldBack` being
  its `waiting` calls and `AwaitingPrompt` the backoff of a pane that never came to a prompt.
- `HandRefused`, `HandFailed`, `HandAccept`, `KeysGo`, `KeysThrow`, `PaneRefuses`, `KeptUntyped`: every way
  `SendPathQueueTransport.handOver` answers, with what the send path has done to the ledger by then.
- `Conclude`, `ConcludeOne`, `ConcludeLast`: the outcome switch, one appended line at a time.
- `Schedule`, `LookThrows`, `Stop`, `Crash`, `Boot`: the rest of the deliverer's life. `HostCrash` also loses any
  set of ledger rows, because `FileSendLedger.append` does not flush; the queue's appends do. `RowLost` loses one, or its last word, while only the daemon's
  life goes on: its line ran into a torn one (`AppendLog`); in the
  code that is so from the start, here it may be found at any later moment. `MaxRowLosses` bounds both.
- `TrackerSettles`, `Retype`, `RetrySend`, `OwnerCancelsSend`: the tracker and a person acting on the ledger. The
  proof a verdict rests on is `HasText`: the tracker calls a text delivered only if the agent has it, absent
  only if it does not, and may always say it cannot tell. So a first copy that turns up after its absence was proven does not happen here. A person who forces a retry of a send nobody can
  account for accepts a second copy, and is left out.
- `TextLost`, `BoxChanges`, `TargetChanges`, `Tick`, `TickBack`: the world.

`copies` and `typedRev` are ghosts: how many copies of a message the agent has, and which revision was typed.
The deliverer reads the pane at two points, so `BoxChanges` is allowed only just before them.

### AppendLog and the code

A line is two pieces and a newline, and a write takes any number of pieces, so an append can stop before,
inside or just short of the end of a line. `Readable` is the whole-file read (a line that does not parse
is skipped); `ReadLedger` is `caughtUp`, which parses from the end of the last complete line it saw and
answers, but does not keep, a complete last line without its newline. `Fail` and `Restart` cut an append short.

### KeyedSerial and the code

A promise is named by the call it belongs to: `keyTails` and `barrier` are the maps and field of the code, `waits` the promises a call's
`Promise.all` or `then` still waits for, `exclusivePending` the count. Accepting a call is one synchronous turn (`RunKeyed`, `Claim`); `Start` begins
its work; `Finish` is its end, by return or throw, with the `finally` block that takes its tails out. A yielding call
(`RunExclusiveYielding`) steps aside by waiting for whatever is there and looks again (`LookAgain`) up to `YieldLimit` times. `ahead` is a ghost: the
conflicting calls accepted before it. `SerialLanes` has only that, and `Lanes` maps one to the other.

### SessionArchive and the code

An operation is a record `op[p]` with where it is (`at`), between two awaits each. `gates`, `lanes` and `turns` are the queues of the three executors,
each modelled by what `SerialLanes` promises. `Retain`, `ReadChain`, `RestoreRows`, `WriteRegistry`, `Publish` are
`retainSession` and `changeRegistry`; `ReadRoot` to `ProveParent` are `configWrite` and `writeState` with `reviveIfArchived`; `Decide` to `RetainLate` are the pass
(`SessionArchiveService.runPass`, `StorageArchiveSessions.archive`, `archiveAtCurrentRoots`); `Sweep` and `Survey` the exclusive ones.
`RegistryFails` and `CommitFails` are a write that throws before or after its rename; `Restart` keeps documents and the file and
makes memory and index from them. `orphaned` is a ghost: sessions the running pass could not list.

### Rendezvous and the code

`doc` is the stored document: slot, whether it was `restored`, pending claims, sessions, recently ended ones. A client's session is named by its socket and a
handover token by the socket it was issued on. `OnDaemonArrived`, `OnClientArrived`, `OnClaimVerdict`, `OnDaemonFrame`, `OnClientFrame`, `OnSocketClosed`, `OnAlarm` and
`Reconcile` are the reducer's functions of those names, as operators that return the next document, what is sent, what is closed and
whether a sweep is asked for. `Handle` is a whole handler of the object: reconcile when the two stores disagree, reduce, write, mark the holder
(`MarkHolder`), effects. `HandlersAgree` is about exactly this: what a frame or a sweep finds may disagree in any way a reset leaves, what it leaves may not. A claim's signature is checked with the handler still running, so only its verdict comes next.
`Departed` erases the claim and queues the close; `Delist` is the runtime letting go of a socket. `rt` is what the runtime makes of a socket.

`Reset` stops the object after any of a handler's parts: nothing, the reconciled document written or applied, the new document written, or
everything but the alarm. Reported closes still queued are lost, as is a connection being accepted. `Forget` loses the document, `Silence` a path
with everything on it, and a false alarm is a daemon giving up a socket that lives.

`Dial`, `Hear`, `Ended`, `KeepHandover`, `Abandon` and `ProbeClaim` are the carrier and the link; `Answer` and `EndSession` what it sends for its sessions.
An identifier is random in the code; here one is used again once nothing holds it (`Fresh`). Payloads, windows (see `CreditWindow`), rate limits and hosted
accounting are left out; the sweep's grace periods are `Overdue`: a claim is not late while anything of it is under way, and a
socket that lives is never mute. An ended session is remembered for good, at both ends, where the code forgets it after 45 s or when 64 more have ended: a frame that crosses an
ending is taken to arrive within that. A lost document comes back empty; the code's answers to none at all (close code 4500, or nothing) are left out, as
is a handler whose write or close throws, which ends it where a `Reset` would.

### CreditWindow and the code

`MaySend`, `RecordSent`, `GrantCredit`, `CreditToReturn` are `flow.ts`. Frames and credits arrive in order, so frames in flight are counted, and the grants
are kept as running totals with two cursors, the grants the rendezvous has passed and those the sender has applied. `Queue`, `Seal`, `Emit` are the link's
outbox: a seal captures the head, and the window may move before the frame leaves. `PassFrame` and `PassCredit` are `forward`, with its two violations. `Consume` and `Finish` are the
receiver: `#consume`, `#dispatch` and `#startNext`, where a request waiting for a slot is not yet credited. The web app's end is the special case
with nothing waiting. `Confirm` and `Reset` are the `allowUnconfirmed` write: the rendezvous may come back with an older window. Endings for other reasons are left out.

## 3. What is checked

Every run is deterministic and exhaustive over its instance.

| Run | Instance | Checks |
| --- | --- | --- |
| `DeliveryCrash` | `a`, `f`; one daemon crash, one lost text, every tracker verdict | `Inductive`, `AtMostOneCopy`, `WaitingWasNeverTyped`, `OneDelivery` |
| `DeliveryPromise` | `a`, `f`; one edit each, one lost text | `SenderWasTold`, `WakeUpComing`, `Delivery` (refinement), `FailedIsAbsent` |
| `DeliveryOrder` | `h`, and `a` and `b` of one ferret; one edit each, recalls, the session stopping under a look; the ferret's two messages are symmetric | `OrderKept` |
| `DeliveryEdges` | `h`; all eight screens, stop and start, a throwing look, a retry, a cancel, a clock set back | `AtMostOneCopy` where every action is possible |
| `DeliveryLive` | `a`, and `d` in an interactive session; drafts; one ledger row lost; fairness | `HandOverSettles`, `EveryMessageGoes` |
| `AppendLog` | four records, two torn appends | `CacheAgrees`, `LossBounded`, `ReadStays` |
| `KeyedSerial` | two keys; two calls of one, one of the other, one of both, two exclusive, each by any method that fits, over and over; fairness | `Exclusion`, `Chained`, `ObservationNeverQueues`, `RunsInOrder` (refinement), `EveryCallRuns`, no deadlock |
| `SessionArchive` | lead, child and a third session; a pass and two writers with two requests of ten; one failed write, one restart | `TypeOK`, `RunningIsLive`, `KeptIsLive`, `LeadStays`, `OneHome`, `FileIsMemory`, `NobodyIsStuck` |
| `Rendezvous` | a daemon with two sockets, a client; each fault once, two altogether | `TypeOK`, `CrossingFramesAreForgiven`, `OneClaim`, `SessionsAgree`, `SweepComing`, `PhoneFindsDaemon`, `HandlersAgree` |
| `RendezvousRival` | two daemons with one key, three sockets; one silent loss or false alarm; fairness | `SlotIsNotStolen`, `DaemonComesBack` |
| `CreditWindow` | window 4, two slots, nine frames, one reset; fairness | `HonestEndsAgree`, `HeldBounded`, `NoCreditLost`, `NothingStalls` |

One run ends in a violation and shows where a document says more than the code does (`PROJECT.json` quotes it): `HoldEndsInLook`. A hold
that ends between the plan's and the schedule's reading of the clock leaves a due message that nothing looks at.

`CHECK_DEADLOCK FALSE` is set where the modelled system may end: messages, the clock, requests, frames and faults are bounded, and when
all are spent nothing is left to do. `KeyedSerial` has no such end and is checked for deadlock. `NobodyIsStuck` asks it of the archive in its own words.

Three limits of the code that a reader should know, found while modelling and kept out of the properties:
- A ledger row is acknowledged without a flush, and a row whose line runs into a torn one is not read after a restart, while the queue's `typing` lines are
  flushed. The code takes a missing row for a message never typed, and types it a second time. The safety of delivery is therefore stated for as long as no
  acknowledged row is lost (`NoRowLost`), the daemon's own crashes included.
- A torn last line has no newline, so the next append runs into it, and the record that append acknowledged is not read. `LossBounded` says that this
  is all, one acknowledged record for each torn append, and `ReadStays` that it is a record never read: what was read once is read ever after.
- A child brought back by a retention that began before an archive pass took its stamp may be missing from the list that pass made, and its lead is
  archived without it, against `docs/session-archive.md:104-105`. `LeadStays` leaves out exactly those (`orphaned`).

**Bounds and why they are enough.** *Delivery.* Two messages are the smallest combined delivery, and what can go wrong
with a batch goes wrong between a first and a second member. Order takes three: a person's to pass everybody, and two of one ferret's, which differ in
nothing but when they came, so that swapping them is a symmetry; their looks take one at a time (`BatchMax` = 1). One
or two ticks (`Horizon`) put the clock before, at and after every threshold, all being one tick; polls and
holds that would fall past the last tick fall on it. At the last tick a stalled hand-over counts as stalled and the prompt
backoff as over, so that the end of the modelled clock is not mistaken for a missed wake-up.
`MaxCrashes`, `MaxRowLosses`, `MaxFaults`, `MaxLosses`, `MaxRetries` and `MaxCancels` bound each kind of
mishap to one; `MaxRevision` bounds edits; `MaxTorn` bounds torn appends to two, so one may follow another.

*KeyedSerial* has no bound but its instance: calls are reusable. `YieldLimit` is 2 instead of 16, which is one more step than the first and the same code.

*SessionArchive.* `MaxAsks` = 2 lets two requests overlap each other and the pass; three sessions make a chain of two leads or two lineages.
`MaxMoves` (3 in the code) is 1: a lineage that moves once more than that is refused. `MaxFaults` and `MaxCrashes` are 1 each. The writers are alike, so the run takes their permutations as `SYMMETRY`; it checks invariants only.

*Rendezvous.* `MaxPending` (4 in the code) and `MaxSessions` (8) are 1, `MaxInFlight` = 1 frame per socket towards the relay; what the relay sends is not bounded.
`Budget` lets each fault strike once and `MaxTrouble` = 2 any two of them in one behaviour. With one client the session limit is never
met; two clients exceed what can be checked in the time.

*CreditWindow.* `W` = 4 is the smallest even window with more than one credit in it (widths 1, 3, 5 and 6 were checked without a reset as well, and the theorems hold for all);
nine frames go round the window twice; `MaxRunning` = 2 lets a slot be freed while another is taken. `MaxResets` = 1.

`FailedIsAbsent` is checked without a person's retry: between the reading of a fate and the move made on it
(`ReadFate`, `SettleOne`) a retry may type the text again, and the message is shown as failed although the agent
has it. `failed` is final in the code, so a retry after the move has the same end.
`OneClaim`, `SessionsAgree` and `SweepComing` are for the time before a reset or a lost document: until the next frame the two stores do disagree then.
`SlotIsNotStolen` and `DaemonComesBack` are checked without a reset: one between the write that drops a slot and the close of its socket leaves the
daemon to find out by its own probe.

**Fairness.** *Delivery* (`Fair`): the daemon runs what it has begun, serves a look that was asked for and a timer that is due, is
started again when it ended, and the tracker looks at what it was told of: the code awaits nothing for ever, and a supervisor
restarts the daemon. The clock's fairness is strong, because a tick is disabled now and then by the order of steps within
one instant, not by time standing still. `PaneTakesIt` assumes that a hand-over tried again and again is one day not refused:
the code polls, it cannot make the pane ready. `EveryMessageGoes` is conditional on the input box being
free for good in the end. It does not hold of a session that only ever holds FYIs while stopped, nor after a look that threw (it schedules no
other) or a hold that ended inside a look, so that run has none of these.

*KeyedSerial*: a promise that settled runs what waits for it, and work that was begun ends. Nobody is obliged to call.

*RendezvousRival*: strong fairness on the handlers of the object's queue, because the code runs everything put on it in turn and the model's choice of the next is free;
weak fairness on closes that reach the runtime, on the runtime letting go of what was closed, and on a daemon that reads, gives up a dead socket and redials. Nothing makes the
runtime notice a path that died in silence: the sweep and the daemon's own keepalive must do without.

*CreditWindow*: a live socket delivers, the outbox runs what is chained on it, a request is answered. Nothing is owed of `Confirm` or `Reset`.

## 4. What is proved

The named assumptions on the constants (`QueueConstants`, `DelivererConstants`, `LogConstants`, `KeyedConstants`, `ArchiveConstants`, `RendezvousAssumption`, `WindowAssumption`) are all that is assumed; TLC
evaluates them in every run. The theorems hold for any finite sets of messages, records, calls, sessions, sockets and daemons, any senders, keys, lineages, windows, limits and bounds.

| Theorem | States |
| --- | --- |
| `QueueDelivererSafety!TypeCorrect` | `Spec => []TypeOK` |
| `InvariantHolds` | `NoRowLost => (Spec => []Inductive)` |
| `NeverTwice`, `WaitingUntyped`, `OneInFlight`, `SendersAreTold` | `[]AtMostOneCopy`, `[]WaitingWasNeverTyped`, `[]OneDelivery`, `[]SenderWasTold`, each under `NoRowLost` |
| `KeepsThePromise` | `NoRowLost => (Spec => Delivery)`: the refinement of `MessageDelivery` |
| `QueueDelivererOrder!OrderIsKept` | `~ClockSteps => (Spec => OrderKept)` |
| `OnlyHeldArePassed`, `DeliveryStands` | `Spec => HeldOnlyIsPassed`, `Spec => []MembersStand`, with no hypothesis |
| `WakeUpIsComing` | `MaxFaults = 0 /\ ~LookTakesTime => (Spec => []WakeUpComing)` |
| `FailedHasNone` | `NoRowLost /\ NoRetry => (Spec => FailedIsAbsent)` |
| `AppendLogProofs!LogInvariant` | `Spec => []IInv` |
| `ReadsAgree`, `LossIsBounded`, `ReadForGood` | `[]CacheAgrees`, `[]LossBounded`, `Spec => ReadStays` |
| `KeyedSerialProofs!ChainHolds` | `Safe => [](TypeOK /\ Chained /\ PendingIsCounted)` |
| `RunsAlone`, `EntriesTell`, `ObservationRunsNow` | `Safe => []Exclusion`, `[]IdleIsKnown`, `ObservationNeverQueues` |
| `ImplementsLanes` | `Safe => RunsInOrder`: the refinement of `SerialLanes` |
| `SessionArchiveProofs!Controlled`, `ArchiveTyped` | `Spec => []Control`, `[]TypeOK` |
| `RunningStays`, `FileAgrees`, `HomesAgree` | `[]RunningIsLive`, `[]FileIsMemory`, `[]OneHome` |
| `KeptStays`, `LeadsAreKept` | `[]KeptIsLive`, `[]LeadStays` |
| `RendezvousProofs!RendezvousTyped` | `Spec => []TypeOK` |
| `SweepIsComing`, `ClaimIsOne`, `SlotIsKept` | `[]SweepComing`, `[]OneClaim`, `Spec => SlotIsNotStolen` |
| `DaemonIsFound`, `HandlersReconcile` | `Spec => PhoneFindsDaemon`, `Spec => HandlersAgree`, resets and losses included |
| `RendezvousOrder!FramesAreForgiven`, `SessionsAreAgreed` | `[]CrossingFramesAreForgiven`, `[]SessionsAgree` |
| `CreditWindowProofs!Inductive` | `Spec => []IInv` |
| `WindowTyped`, `NeverEndedWrongly`, `HeldWithinWindow`, `SlotsFull`, `CreditsArriveWhole` | `[]TypeOK`, `[]HonestEndsAgree`, `[]HeldBounded`, `[]NoIdleSlot`, `[]NoCreditLost` |

The type invariants of `QueueDeliverer`, `KeyedSerial`, `CreditWindow` and `AppendLog`, and `IdleIsKnown` and `NoIdleSlot`, are left to the proof; the runs check the other two.

**Delivery.** `NoRowLost` (`MaxRowLosses = 0`) is needed: see the first limit in section 3. It is a bound on the model's losses, which `AppendLog`'s `LossBounded` counts for the file. Daemon crashes, throwing looks,
lost texts, retries, cancels and a clock set back are not restricted. None of the four safety properties is inductive. `AtMostOneCopy` fails when a second row, or
a hand-over after a recovery, types a text that a first one typed; what forbids it is a relation between the two
logs, and `Inductive` says it:

- `RowsMatch`: a live ledger row carries messages that have left the queue, as they now read, and each names that very row as the one it
  is proven by. So no edit can follow a row, and no message has two rows.
- `TypedHasRow`: what was typed was typed from a live row.
- `OneDelivery`: all that is `typing` is in one delivery, so a look that plans has nothing in flight.
- `LookKnows`: what the look holds in memory agrees with the logs at every `pc`: before the row is written nothing was typed of any
  member; a refusal is answered only when no row lives.
- `SeenHolds`: a fate read as "nothing was typed" is still so when the message is moved.

`KeepsThePromise` uses the invariant to show that the guards of the abstract steps hold: `PutBack` needs "nothing was typed"
(`WaitingWasNeverTyped`), `Type` needs "no copy, and the text as it now reads" (`RowsMatch`, `LookKnows`).

**Order, wake-ups, failed messages.** A plan is acted on many steps after it was made, so each of these needs what the look still knows by then.

- *Order.* `Numbered`: messages are numbered in the order of acceptance, no two alike. `Dated`: `enqueuedAt` follows that order, which a clock set back breaks; hence `~ClockSteps`, and the code's own
  tie-break is the only order left without it. `MembersStand`: the members in hand are queued, then marked one by one, then all `typing`, although edits and
  recalls go on meanwhile. `PassesNobody`: from the plan to the row, nobody left waiting is ahead of a member of the same sender, or is a person's. What is accepted meanwhile comes last, what a refusal
  puts back belongs to another look. `OrderKept` is `PassesNobody` when the row is written. The first in order is the least of a finite set, for which well-founded
  induction on the naturals is used in its operator-free form (`WFMin`).
- *Held messages.* `HeldOnlyIsPassed` is a property of the plan alone once `NothingHeld` shows that only the plan puts a text in hand.
- *Wake-ups.* `WaitsAreKnown`: when a look comes to its schedule, whatever it leaves has a reason the schedule acts on. It is false of a look that threw (it schedules nothing) and of a hold that ends
  between the plan's clock and the schedule's, the finding of `HoldEndsInLook`; `MaxFaults = 0` and `~LookTakesTime` exclude those two and nothing else: crashes, clock steps and losses are in.
- *Failed messages.* `AbsenceProven`: a row times out only when its text is absent, no text is typed under a row that has, and a fate held in `seen` stays true of the row until the move. A person's retry
  between the two breaks it (section 3), which `NoRetry` excludes.

**Append log.** `IInv` relates the file to the history. `LineInTwo`: the line being written is split between the file's end and what is left to write. `AckedWhole`: each acknowledged
record stands in the file whole, if ragged on the left. `TearsCounted`: there are no more ragged places, the file's end included, than torn appends. `CacheIsPrefix`: the cache is the reading of
a prefix that ends in a newline, of this very file. `LossBounded` follows by counting: an acknowledged record is lost only where a ragged place begins its line.
What a reading yields is defined by where newlines stand, not by recursion, so that it can be reasoned about.

**Serial executor.** A call waits for one promise per key and the barrier, not for every call in its way, so `Exclusion` says nothing of the state it rests on. `Chained` does: everything `ahead` of a
call is either waited for or ahead of something waited for (`AllAheadAreReached`), two accepted calls that conflict are ordered, and every accepted call on a key is the key's tail or ahead of it
(`TailsStandBehind`, `BarrierStandsBehind`). A call with nothing to wait for then has nothing ahead, which is exclusion, and `Start` maps to `SerialLanes`' `Begin`.

**Session archive.** Four invariants, each proved with those before it.

- `Control`: where an operation of each kind can be, and that whoever is past the wait for a gate, a lane or the registry's turn stands first in it, once. Mutual exclusion of gates, lanes and turns is a consequence.
- `Homes`: what the file holds at each place of whoever has the turn (`FileFollows`), who still owes a row (`RowsFollow`), that what leaves has ended. `RunningIsLive` and `OneHome` rest on it: a restore
  is three writes, and `OneHome` is the case with nobody between them.
- `Keeps`: what keeps a session of the pass was read by it, or its publisher has yet to retain it, which spoils the commit's stamp (`KeepsAreRead`).
- `Leads`: lineages of any depth. A chain that was read is still the whole lineage of what of it is archived (`ChainsAreWhole`), under the gate a session's root and lead are what its operation found (`GatesHold`), and a live session
  whose lead is archived has somebody on the way to retain that lead (`LeadsAreOwed`). `LeadStays` is the case with nobody on the way.

**Rendezvous.** `Sound` types the document, the sockets' states and every queue, and says that only sockets the runtime lists carry a claim. Reducing an event is taken apart into what it may do to the
document (`EffectsAre`, `Moved`), so that each invariant is shown once for all handlers. `SweepComing` is inductive with `Sound`. `OneClaim` is
strengthened to `ClaimIsSlots`: every claim is the slot's, and while a signature is verified an empty slot means no claim at all. Both are for the time before a reset or a lost document.
`SlotIsNotStolen` is about tokens: what a daemon offers as `replaces` names a link it has given up (`TokensAreSpent`), wherever the offer is: at the daemon, on its way, or under verification. So a claim that
supersedes a socket comes from its owner, after its owner let go.
`PhoneFindsDaemon` has no condition on faults. `HoldersAreMarked`: whoever was told it is claimed, or has the word on its way, carries the mark while its socket is open, so its arrival's reconciliation finds a
mark and fills the slot. `SessionsWereTold`: a client of the document's sessions was answered, or its socket is cut. What a transition may say (`Candid`) then leaves "absent" to clients of a session and to those that find no mark at all.
`HandlersAgree` has none either. A document that reconciles to itself names only listed sockets, and one that does not is replaced by one that does (`SeenIsListed`); of the marks only the slot's is left
(`Agreed`). From there a frame's handler adds at most the socket it came on, which is listed, and the sweep takes the mark of the daemon it drops (`ReduceNames`, `SweepNames`).

**Frames that cross.** Both `CrossingFramesAreForgiven` and `SessionsAgree` speak of the head of a queue, or of empty ones, and rest on the order of everything in flight. `Ordered` says it, with no condition on faults:

- `QueuesInOrder`: to a daemon a session is opened once, before anything else is said of it and with nothing of it on its way back; data comes only for a session it knows or is about to, not yet
  closed. From a daemon nothing follows the end of a session.
- `ClosesAreFair`: only what the runtime no longer has open was closed, and no holder of the claim has an error coming.
- `ClaimComesFirst`: arrival, challenge, claim and verdict follow each other, at most one at a time; until the verdict the socket is nothing to the relay, and its daemon has no session on it.
- `NewcomersAreUnknown`, `Unfinished`, `Opened`: nobody knows a client that has yet to arrive, no session of the document has its end coming, and the slot's daemon knows or is being told of each.
- `SessionsAreKnown`: the document remembers every session, running or ended, the slot's daemon can still speak of. A restored document does not, and there the code says nothing of what it does not know.

A handler is not one write: `reconcile` corrects the document before the event is reduced, sockets are marked before the sends go out, and a reset may stop it between any two. So `Ordered` is stated
of a *view* (document, sockets, queues, both ends), and a handler's step is a chain of views. Three lemmas carry it along: a transition that is `Orderly`
keeps it (`OrderIsKept`; `HalvesInOrder` when a reset cuts its writing short), a view with fewer things in flight keeps it (`FewerOrder`: losses, cuts), and so does a move of one end of one socket (`OneEnd`). What is left of each handler is
that its transition is orderly, shown once per event. `SessionsAgree` adds `Accord`, true short of a reset or a lost document: an open socket's mark is the slot's, a session the document dropped has
its end on the way to the daemon, and one the daemon is done with has its end on the way to the relay. With both queues empty that leaves equality.

**Credit window.** `IInv` says where every frame is and which total each copy of the allowance has reached: frames sent are in flight or consumed
(`FramesCounted`); the sender's allowance is the window plus the last total it applied and it never sends past it, the frame under seal included (`SenderInside`); until a reset the rendezvous's copy is exactly
what passed it (`CopyExact`); and what was credited is at most what was consumed and, save one frame, not waiting (`CreditBehind`): the credit of a request may leave before it is found to have no slot, which is why the code's bound has one record more.
`GrantsGrow` makes the totals comparable. `HonestEndsAgree` follows since each of the three places that end a session would need a count that these exclude; the backlog's refusal and the sender's are proved out of reach even after resets.

The step proofs have one lemma per action (or per few that change the same parts).

**Only model-checked.** Liveness (`HandOverSettles`, `EveryMessageGoes`, `EveryCallRuns`, `DaemonComesBack`, `NothingStalls`) and anything about `ENABLED` (`NobodyIsStuck`) are outside TLAPS. Every other property
of a passing run is stated by a theorem. Of the theorems with a hypothesis, the hypothesis is needed: the runs without it show, or section 3 says, what goes wrong.

## 5. Not modelled

- Of the send path, what the deliverer does not meet: how the composer is read, the submit nudge, the turn files, notices owed to senders, hand-off after a revive.
- Of the archive: journals, document caches, unreadable documents, sessions whose lead is unknown.
- Of the relay: hosted metering, reservations and capacity, arrival rate limits, malformed frames, and all cryptography; of the daemon's end, credentials, leases, streams, joins and the tunnel's process. A reset of
  the rendezvous that also swallows the credit frame it was passing on: the sender's window would be smaller for the rest of the session. A claim's verdict that marks a socket
  whose close is queued: the mark lasts until that close is handled.
- Everything in the table of section 1 below the credit window. Each component is listed in `PROJECT.json` with its reason. Pane and transcript parsing and terminal driving stay outside on purpose: their results
  are inputs here.

## 6. Plan

1. **Done:** delivery (`SessionQueue`, `QueueDeliverer`, `MessageDelivery`, `AppendLog`), the serial executor, the session archive, the rendezvous and the credit window; the runs and proofs above.
2. `SendPath` and `SendTracker`: ledger transactions, the send path's lock, the composer, the re-attempt after a proof of absence,
   held messages over a revive, notices owed. Abstract specification: the environment steps of `QueueDeliverer`
   (`TrackerSettles`, `Retype`, `PaneRefuses`, ...), so that the two compose by refinement.
3. Next components, in order: session launch, resume and restart; input requests; pairing codes; warden concurrency.
