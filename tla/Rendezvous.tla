----------------------------- MODULE Rendezvous -----------------------------
(***************************************************************************)
(* One rendezvous of the relay and the daemons and clients that meet in    *)
(* it: the reducer of relay/src/lib/rendezvous.ts, the durable object that *)
(* runs it one event at a time over a stored document and the sockets its  *)
(* runtime still lists (relay/src/adapters/worker.ts), and the daemon's    *)
(* end, one link per socket under a carrier that redials for ever          *)
(* (daemon/src/lib/relay/link.ts, adapters/relay/bun-relay-carrier.ts).    *)
(*                                                                         *)
(* The document and the sockets are two stores that can disagree: a path   *)
(* dies without a close, a reset of the object swallows what it had not    *)
(* finished, the document forgets.  Frames in both directions are in       *)
(* flight meanwhile.  A socket's identifier stands for the handover token  *)
(* issued on it and a client's socket for its session, as each is minted   *)
(* per socket; an identifier is used again only when nothing refers to it. *)
(* Payloads, credit (module CreditWindow), rate limits and the hosted      *)
(* meter are left out, and every claim's signature is good.                *)
(***************************************************************************)
EXTENDS Naturals, FiniteSets, SequencesExt

CONSTANTS
  Daemon,        \* processes holding the daemon's key: one, or a copy beside it
  DSocket,       \* the sockets they dial
  CSocket,       \* the sockets clients dial
  Owner,         \* which daemon dials a daemon socket
  None,
  MaxPending,    \* MAX_PENDING_DAEMON_SOCKETS
  MaxSessions,   \* MAX_SESSIONS_PER_RENDEZVOUS
  MaxInFlight,   \* bound: frames one socket has in flight towards the relay
  Budget,        \* bound: how often each fault strikes
  MaxTrouble     \* bound: how often faults strike altogether

\* What a socket is closed with.
Code == {"daemonAbsent", "claimLost", "rendezvousClaimed", "rendezvousBusy",
         "protocolError", "claimTimeout", "heartbeatTimeout", "said"}

Fault == {"silence", "falseAlarm", "reset", "forget"}

ASSUME RendezvousAssumption ==
  /\ Owner \in [DSocket -> Daemon]
  /\ DSocket \cap CSocket = {}
  /\ None \notin DSocket \cup CSocket \cup Code \cup {"ready"}
  /\ IsFiniteSet(CSocket)
  /\ {MaxPending, MaxSessions, MaxInFlight} \subseteq Nat \ {0}
  /\ Budget \in [Fault -> Nat] /\ MaxTrouble \in Nat

VARIABLES
  doc,        \* the stored document (RendezvousState)
  rt,         \* what the runtime makes of each socket
  mark,       \* the sockets whose attachment carries a claim
  alarm,      \* is a sweep scheduled?
  departing,  \* sockets whose close is reported and still queued
  verifying,  \* the claim whose signature is being checked, or None
  up, down,   \* frames in flight to the relay, and from it to a daemon
  dead,       \* sockets whose path was lost in silence
  left,       \* sockets their far end is done with
  told,       \* what a client last heard of the relay
  link,       \* each daemon's link
  keep,       \* the token each daemon offers as replaces
  trouble     \* faults so far

relay == <<doc, rt, mark, alarm, departing, verifying>>
wire  == <<up, down, dead, left>>
ends  == <<told, link, keep>>
vars  == <<relay, wire, ends, trouble>>

Socket == DSocket \cup CSocket

\* Frames.  A client's session is its socket, so `s` names both.
Claim(r)   == [t |-> "claim", replaces |-> r]
About(t, c) == [t |-> t, s |-> c]
Word(t)    == [t |-> t]
CloseFrame(code) == [t |-> "close", code |-> code]

EmptyDoc == [slot |-> None, restored |-> FALSE, pending |-> {},
             sessions |-> {}, ended |-> {}]
NoLink   == [sock |-> None, claimed |-> FALSE, sess |-> {}, over |-> {}]

Listed == {s \in Socket : rt[s] # "gone"}

-----------------------------------------------------------------------------
(* The reducer: a step is the next document, what is sent to daemons, what *)
(* is closed and with which code, and whether a sweep is asked for.        *)

To(s, m)    == [to |-> s, msg |-> m]
Shut(S, code) == {[to |-> s, code |-> code] : s \in S}
Occupied(d) == d.slot # None \/ d.pending # {} \/ d.sessions # {}
Step(d, sends, closes) ==
  [doc |-> d, sends |-> sends, closes |-> closes, alarm |-> FALSE]
Swept(d, sends, closes) ==
  [Step(d, sends, closes) EXCEPT !.alarm = Occupied(d)]

TellDaemon(d, C) ==
  IF d.slot = None THEN {} ELSE {To(d.slot, About("closed", c)) : c \in C}
\* What is remembered of an ended session lasts 45 s and for the last 64 in the
\* code, here as at the daemon's end for good: a frame that crosses an ending is
\* taken to arrive within that grace.
\* Mutant: an ended session is not remembered.
EndedByRendezvous_Forgets(d, C) == [d EXCEPT !.sessions = @ \ C]
EndedByRendezvous(d, C) ==
  [d EXCEPT !.sessions = @ \ C, !.ended = @ \cup C]
DropDaemon(d) ==
  [d EXCEPT !.slot = None, !.restored = FALSE, !.sessions = {}, !.ended = {}]
DropPending(d, s) == [d EXCEPT !.pending = @ \ {s}]

\* Mutant: the first arrival schedules no sweep.
OnDaemonArrived_Unswept(d, s) ==
  Step([d EXCEPT !.pending = @ \cup {s}], {To(s, Word("challenge"))}, {})
OnDaemonArrived(d, s) ==
  IF Cardinality(d.pending) >= MaxPending
  THEN Step(d, {}, Shut({s}, "rendezvousBusy"))
  ELSE Swept([d EXCEPT !.pending = @ \cup {s}], {To(s, Word("challenge"))}, {})

OnClientArrived(d, c) ==
  CASE d.slot = None -> Step(d, {}, Shut({c}, "daemonAbsent"))
    [] d.slot # None /\ Cardinality(d.sessions) >= MaxSessions ->
         Step(d, {}, Shut({c}, "rendezvousBusy"))
    [] OTHER -> Swept([d EXCEPT !.sessions = @ \cup {c}],
                      {To(c, Word("ready")), To(d.slot, About("open", c))}, {})

\* Mutant: any proved claim supersedes the incumbent.
Supersedes_Anyone(d, replaces) == TRUE
Supersedes(d, replaces) == replaces = d.slot

\* Mutant: the superseded socket is left open.
OnClaimVerdict_LeavesOld(d, s, replaces) ==
  Swept([DropDaemon(DropPending(d, s)) EXCEPT !.slot = s],
        {To(s, Word("claimed"))}, Shut(d.sessions, "daemonAbsent"))
OnClaimVerdict(d, s, replaces) ==
  LET rest == DropPending(d, s)
      base == IF d.slot = None THEN rest ELSE DropDaemon(rest) IN
  CASE s \notin d.pending -> Step(d, {}, {})
    [] s \in d.pending /\ d.slot # None /\ ~Supersedes(d, replaces) ->
         Step(rest, {}, Shut({s}, "rendezvousClaimed"))
    [] OTHER -> Swept([base EXCEPT !.slot = s, !.restored = FALSE],
                      {To(s, Word("claimed"))},
                      Shut(d.sessions, "daemonAbsent")
                        \cup Shut({d.slot} \ {None}, "claimLost"))

OnDaemonFrame(d, m) ==
  CASE m.t = "probe" -> Step(d, {To(d.slot, Word("held"))}, {})
    [] m.t = "data" /\ m.s \in d.sessions -> Step(d, {}, {})
    [] m.t = "closed" /\ m.s \in d.sessions ->
         Step([d EXCEPT !.sessions = @ \ {m.s}], {}, Shut({m.s}, "said"))
    [] m.t \in {"data", "closed"} /\ m.s \in d.ended \ d.sessions -> Step(d, {}, {})
    [] m.t \in {"data", "closed"} /\ m.s \notin d.sessions \cup d.ended
         /\ d.restored ->
         Step(EndedByRendezvous(d, {m.s}), TellDaemon(d, {m.s}), {})
    [] OTHER -> Step(d, {}, Shut({d.slot}, "protocolError"))

OnClientFrame(d, c, m) ==
  CASE d.slot = None -> Step([d EXCEPT !.sessions = @ \ {c}], {},
                             Shut({c}, "daemonAbsent"))
    [] d.slot # None /\ m.t = "data" ->
         Step(d, {To(d.slot, About("data", c))}, {})
    [] OTHER -> Step(EndedByRendezvous(d, {c}), TellDaemon(d, {c}),
                     Shut({c}, "said"))

\* A claim that can be judged does not come here, see IsClaim; no socket is
\* both pending and in the slot.
OnFrame(d, s, m) ==
  CASE s \in d.pending \ {d.slot} ->
         Step(DropPending(d, s), {}, Shut({s}, "protocolError"))
    [] s = d.slot -> OnDaemonFrame(d, m)
    [] s \notin d.pending \cup {d.slot} /\ s \in d.sessions ->
         OnClientFrame(d, s, m)
    [] OTHER -> Step(d, {}, Shut({s}, IF m.t = "probe" THEN "claimLost"
                                                       ELSE "protocolError"))

\* Mutant: the daemon is not told that a client hung up.
OnSocketClosed_Untold(d, s) ==
  Step([EndedByRendezvous(DropPending(d, s), {s}) EXCEPT
          !.slot = IF s = d.slot THEN None ELSE @], {}, {})
OnSocketClosed(d, s) ==
  CASE s \in d.pending -> Step(DropPending(d, s), {}, {})
    [] s \notin d.pending /\ s = d.slot ->
         Step(DropDaemon(d), {}, Shut(d.sessions, "daemonAbsent"))
    [] s \in d.sessions -> Step(EndedByRendezvous(d, {s}),
                                TellDaemon(d, {s}), {})
    [] OTHER -> Step(d, {}, {})

\* The windows of the sweep, as what may have passed them: a socket stops
\* answering heartbeats only when its path is dead, and a claim is overdue
\* only when nothing of it is under way any more.
Overdue(s) == s \in dead \cup left \/ (up[s] = <<>> /\ down[s] = <<>>)

\* Mutant: the sweep leaves a mute daemon in the slot.
OnAlarm_KeepsDaemon(d) ==
  LET late == {s \in d.pending : Overdue(s)} IN
  Swept([d EXCEPT !.pending = @ \ late], {}, Shut(late, "claimTimeout"))
OnAlarm(d) ==
  LET late   == {s \in d.pending : Overdue(s)}
      pruned == [d EXCEPT !.pending = @ \ late]
      mute   == {d.slot} \cap dead
      bereft == IF mute = {} THEN pruned ELSE DropDaemon(pruned)
      still  == bereft.sessions \cap dead
      spared == EndedByRendezvous(bereft, still) IN
  Swept(spared, TellDaemon(bereft, still),
        Shut(late, "claimTimeout")
          \cup Shut((d.sessions \ bereft.sessions) \cup still \cup mute,
                    "heartbeatTimeout"))

\* Mutant: an empty slot is not given back to the socket that holds a claim.
Reconcile_NoRestore(d) ==
  LET lost == d.slot # None /\ d.slot \notin Listed
      pruned == [d EXCEPT !.pending = @ \cap Listed]
      bereft == IF lost THEN DropDaemon(pruned) ELSE pruned
      absent == bereft.sessions \ Listed IN
  Swept(EndedByRendezvous(bereft, absent), TellDaemon(bereft, absent),
        Shut(d.sessions \ bereft.sessions, "daemonAbsent"))
\* The document made to agree with the sockets the runtime lists.
Reconcile(d) ==
  LET pruned == [d EXCEPT !.pending = @ \cap Listed]
      lost   == d.slot # None /\ d.slot \notin Listed
      bereft == IF lost THEN DropDaemon(pruned) ELSE pruned
      absent == bereft.sessions \ Listed
      spared == EndedByRendezvous(bereft, absent)
      given  == IF spared.slot = None /\ mark # {}
                THEN [spared EXCEPT !.slot = CHOOSE s \in mark : TRUE,
                                !.restored = TRUE]
                ELSE spared
      others == mark \ {given.slot} IN
  Swept(given, TellDaemon(bereft, absent),
        Shut(d.sessions \ bereft.sessions, "daemonAbsent")
          \cup Shut(others, "claimLost"))

-----------------------------------------------------------------------------
(* The durable object: what a handler changes, as one record.              *)

World == [doc |-> doc, rt |-> rt, mark |-> mark, alarm |-> alarm,
          down |-> down, told |-> told]

\* A frame leaves for a socket still open, whose path and reader are there.
Reaches(w, s) ==
  w.rt[s] = "open" /\ s \notin dead /\ link[Owner[s]].sock = s

\* applyStep: the write first, then the holder's mark, then the effects.
Put(w, st) == [w EXCEPT !.doc = st.doc]

\* Mutant: the claim is written without looking whether the socket is there.
MarkHolder_Unlisted(w, d) == [w EXCEPT !.mark = @ \cup ({d.slot} \ {None})]
MarkHolder(w, d) ==
  [w EXCEPT !.mark = @ \cup {s \in {d.slot} \ {None} : w.rt[s] # "gone"}]

Effects(w, st) ==
  LET shut == {e.to : e \in st.closes}
      CodeFor(s) == (CHOOSE e \in st.closes : e.to = s).code
      For(s) == SetToSeq({e.msg : e \in {f \in st.sends : f.to = s}})
                  \o IF s \in shut THEN <<CloseFrame(CodeFor(s))>> ELSE <<>>
  IN [w EXCEPT
       !.down = [s \in DSocket |->
                   IF Reaches(w, s) THEN @[s] \o For(s) ELSE @[s]],
       !.told = [c \in CSocket |->
                   IF c \in shut /\ w.rt[c] = "open" THEN CodeFor(c)
                   ELSE IF To(c, Word("ready")) \in st.sends THEN "ready"
                   ELSE @[c]],
       !.rt   = [s \in Socket |->
                   IF s \in shut /\ @[s] = "open" THEN "closing" ELSE @[s]],
       !.mark = @ \ shut]

Unscheduled(w, st) == Effects(MarkHolder(Put(w, st), st.doc), st)
ApplyStep(w, st) ==
  [Unscheduled(w, st) EXCEPT !.alarm = @ \/ st.alarm]

\* Mutant: a claim left on a socket beside the slot's is no disagreement.
Disagree_DocOnly == Reconcile(doc).doc # doc
\* Whether the two stores disagree.
Disagree == \/ Reconcile(doc).doc # doc
            \/ mark \ {doc.slot} # {}

\* What may run next.  A claim's handler waits for its signature to be checked
\* and nothing else runs until its verdict; otherwise the queue holds frames,
\* reported closes and the sweep.  An arrival is its socket's first frame.
Event(kind, s) == [kind |-> kind, s |-> s]
Queued ==
  {Event("frame", s) : s \in {x \in Socket :
       up[x] # <<>> /\ rt[x] \in {"open", "closing"}}}
  \cup {Event("closed", s) : s \in departing}
  \cup {Event("alarm", s) : s \in IF alarm THEN {None} ELSE {}}
Events == IF verifying = None THEN Queued
          ELSE {Event("verdict", verifying.sock)}

IsClaim(d, e) ==
  e.kind = "frame" /\ Head(up[e.s]).t = "claim" /\ e.s \in d.pending

Reduce(d, e) ==
  CASE e.kind = "none" -> Step(d, {}, {})
    [] e.kind = "alarm" -> OnAlarm(d)
    [] e.kind = "closed" -> OnSocketClosed(d, e.s)
    [] e.kind = "verdict" -> OnClaimVerdict(d, e.s, verifying.replaces)
    [] e.kind = "frame" /\ Head(up[e.s]).t = "arrive" ->
         IF e.s \in DSocket THEN OnDaemonArrived(d, e.s)
                            ELSE OnClientArrived(d, e.s)
    [] IsClaim(d, e) -> Step(d, {}, {})
    [] OTHER -> OnFrame(d, e.s, Head(up[e.s]))

\* A reported close and a verdict take the document as it stands; every other
\* handler reconciles first.
Reconciles(e) == Disagree /\ e.kind \in {"frame", "alarm"}
Before(w, e) == IF Reconciles(e) THEN ApplyStep(w, Reconcile(doc)) ELSE w

Becomes(w) ==
  /\ doc' = w.doc /\ rt' = w.rt /\ mark' = w.mark /\ alarm' = w.alarm
  /\ down' = w.down /\ told' = w.told

\* The whole handler: the document corrected, then its own transition. A write
\* or a close that throws half-way ends it, which only Reset does here.
Handled(e) ==
  LET due == [World EXCEPT !.alarm = @ /\ e.kind # "alarm"] IN
  UNION {{ApplyStep(w, st) : st \in {Reduce(w.doc, e)}} : w \in {Before(due, e)}}

Handle(e) ==
  /\ e \in Events
  /\ \E w \in Handled(e) : Becomes(w)
  /\ verifying' = IF \E w \in {Before(World, e)} : IsClaim(w.doc, e)
                  THEN [sock |-> e.s, replaces |-> Head(up[e.s]).replaces]
                  ELSE None
  /\ up' = IF e.kind = "frame" THEN [up EXCEPT ![e.s] = Tail(@)] ELSE up
  /\ departing' = IF e.kind = "closed" THEN departing \ {e.s} ELSE departing
  /\ UNCHANGED <<dead, left, link, keep, trouble>>

\* The runtime reports a socket's close: the claim comes off it at once, the
\* transition waits its turn.
Departed(s) ==
  /\ rt[s] \in {"open", "closing"} /\ up[s] = <<>>
  /\ s \in left \cup dead
  /\ rt' = [rt EXCEPT ![s] = "reported"]
  /\ mark' = mark \ {s} /\ departing' = departing \cup {s}
  /\ UNCHANGED <<doc, alarm, verifying, wire, ends, trouble>>

\* The runtime lets go of a socket: one it has reported, or one it lost.
Delist(s) ==
  /\ \/ rt[s] = "reported" /\ s \notin departing
     \/ rt[s] \in {"open", "closing"} /\ s \in dead
  /\ rt' = [rt EXCEPT ![s] = "gone"] /\ mark' = mark \ {s}
  /\ up' = [up EXCEPT ![s] = <<>>]
  /\ UNCHANGED <<doc, alarm, departing, verifying, down, dead, left, ends, trouble>>

-----------------------------------------------------------------------------
(* Faults of the relay's side.                                             *)

Strikes(k) ==
  /\ trouble[k] < Budget[k]
  /\ SumFunction(trouble) < MaxTrouble
  /\ trouble' = [trouble EXCEPT ![k] = @ + 1]

\* The object is reset in the middle of a handler or between two: reported
\* closes, a running verification and whatever the handler had not done yet
\* are lost, and so is a connection that was still being accepted.
Reset ==
  /\ Strikes("reset")
  /\ \E e \in Events \cup {Event("none", None)} :
       LET w1   == Before(World, e)
           red  == Reduce(w1.doc, e)
           half == IF e.kind = "none" THEN {World}
                   ELSE {World, w1, Put(w1, red), Unscheduled(w1, red)}
                        \cup {Put(World, Reconcile(doc)) : x \in
                                {e} \cap {f \in Events : Reconciles(f)}}
           cut  == departing \cup {s \in {e.s} : e.kind = "frame"
                                               /\ Head(up[s]).t = "arrive"} IN
       \E w \in half :
         /\ Becomes([w EXCEPT !.rt = [s \in Socket |->
                                        IF s \in cut THEN "gone" ELSE @[s]],
                              !.mark = @ \ cut])
         /\ dead' = dead \cup cut
         /\ up' = [s \in Socket |->
                     IF s \in cut THEN <<>>
                     ELSE IF e = Event("frame", s) THEN Tail(up[s]) ELSE up[s]]
  /\ departing' = {} /\ verifying' = None
  /\ UNCHANGED <<left, link, keep>>

\* The document loses what it held while the sockets stay. It is emptied, not
\* gone: a handler that finds none at all refuses the socket or does nothing.
Forget ==
  /\ Strikes("forget") /\ verifying = None
  /\ doc' = EmptyDoc
  /\ UNCHANGED <<rt, mark, alarm, departing, verifying, wire, ends>>

\* A path is lost in silence, with everything on it.
Silence(s) ==
  /\ Strikes("silence")
  /\ rt[s] \in {"open", "closing"} /\ s \notin dead \cup left
  /\ dead' = dead \cup {s}
  /\ up' = [up EXCEPT ![s] = <<>>]
  /\ down' = IF s \in DSocket THEN [down EXCEPT ![s] = <<>>] ELSE down
  /\ UNCHANGED <<relay, left, ends>>

-----------------------------------------------------------------------------
(* The daemons.                                                            *)

Within(q) == {q[i] : i \in DOMAIN q}
InFlight == UNION {Within(q) : q \in {up[s] : s \in Socket}
                                       \cup {down[s] : s \in DSocket}}

\* Identifiers are random and never meet again; here one may be reused once
\* nothing holds it.
Fresh(s) ==
  /\ rt[s] = "gone" /\ s # doc.slot
  /\ s \notin doc.pending \cup doc.sessions \cup doc.ended \cup departing
  /\ \A d \in Daemon : /\ s # link[d].sock /\ s # keep[d]
                       /\ s \notin link[d].sess \cup link[d].over
  /\ verifying # None => s \notin {verifying.sock, verifying.replaces}
  /\ \A m \in InFlight : /\ "s" \in DOMAIN m => m.s # s
                         /\ "replaces" \in DOMAIN m => m.replaces # s

Dialled(s) ==
  /\ Fresh(s)
  /\ rt' = [rt EXCEPT ![s] = "open"]
  /\ up' = [up EXCEPT ![s] = <<Word("arrive")>>]
  /\ dead' = dead \ {s} /\ left' = left \ {s}

Dial(d, s) ==
  /\ link[d].sock = None /\ Owner[s] = d /\ Dialled(s)
  /\ link' = [link EXCEPT ![d] = [NoLink EXCEPT !.sock = s]]
  /\ down' = [down EXCEPT ![s] = <<>>]
  /\ UNCHANGED <<doc, mark, alarm, departing, verifying, told, keep, trouble>>

\* keepHandover: the token this link was issued, else the one already held
\* unless the relay refused with something other than rendezvousClaimed.
KeepHandover(d, code) ==
  IF link[d].claimed THEN link[d].sock
  ELSE IF code \in Code \ {"rendezvousClaimed"} THEN None ELSE keep[d]

Ended(d, code) ==
  /\ keep' = [keep EXCEPT ![d] = KeepHandover(d, code)]
  /\ link' = [link EXCEPT ![d] = NoLink]
  /\ left' = left \cup {link[d].sock}

\* A daemon gives up a socket that stopped answering, or that it believes did.
Abandon(d) ==
  /\ link[d].sock # None
  /\ \/ link[d].sock \in dead /\ UNCHANGED trouble
     \/ link[d].sock \notin dead /\ Strikes("falseAlarm")
  /\ Ended(d, None)
  /\ down' = [down EXCEPT ![link[d].sock] = <<>>]
  /\ UNCHANGED <<relay, up, dead, told>>

Say(s, m) == up' = [up EXCEPT ![s] = Append(@, m)]

LinkHears(d, m) ==
  LET l == link[d]
      Now(x) == link' = [link EXCEPT ![d] = x]
      Quiet == UNCHANGED <<up, left, keep>> IN
  CASE m.t = "challenge" -> Say(l.sock, Claim(keep[d]))
                            /\ UNCHANGED <<link, left, keep>>
    [] m.t = "claimed" -> Now([l EXCEPT !.claimed = TRUE]) /\ Quiet
    [] m.t = "open" -> Now([l EXCEPT !.sess = @ \cup {m.s},
                                     !.over = @ \ {m.s}]) /\ Quiet
    [] m.t = "closed" -> Now([l EXCEPT !.sess = @ \ {m.s}]) /\ Quiet
    [] m.t = "held" \/ (m.t = "data" /\ m.s \in l.sess \cup l.over) ->
         UNCHANGED link /\ Quiet
    [] m.t = "close" -> Ended(d, m.code) /\ UNCHANGED up
    [] OTHER -> Ended(d, "protocolError") /\ UNCHANGED up

Hear(d) ==
  LET s == link[d].sock IN
  /\ s # None /\ down[s] # <<>>
  /\ LinkHears(d, Head(down[s]))
  /\ down' = [down EXCEPT ![s] = IF link'[d].sock = None THEN <<>> ELSE Tail(@)]
  /\ UNCHANGED <<relay, dead, told, trouble>>

Sends(d) ==
  LET l == link[d] IN
  /\ l.sock # None /\ l.sock \notin dead
  /\ Len(up[l.sock]) < MaxInFlight

Answer(d, c) ==
  /\ Sends(d) /\ c \in link[d].sess
  /\ Say(link[d].sock, About("data", c))
  /\ UNCHANGED <<relay, down, dead, left, ends, trouble>>

EndSession(d, c) ==
  /\ Sends(d) /\ c \in link[d].sess
  /\ Say(link[d].sock, About("closed", c))
  /\ link' = [link EXCEPT ![d].sess = @ \ {c}, ![d].over = @ \cup {c}]
  /\ UNCHANGED <<relay, down, dead, left, told, keep, trouble>>

\* The answer's deadline is shorter than the keepalive: one probe at a time.
ProbeClaim(d) ==
  /\ Sends(d) /\ link[d].claimed
  /\ Word("probe") \notin Within(up[link[d].sock])
  /\ Word("held") \notin Within(down[link[d].sock])
  /\ Say(link[d].sock, Word("probe"))
  /\ UNCHANGED <<relay, down, dead, left, ends, trouble>>

-----------------------------------------------------------------------------
(* The clients.                                                            *)

ClientDials(c) ==
  /\ Dialled(c)
  /\ told' = [told EXCEPT ![c] = None]
  /\ UNCHANGED <<doc, mark, alarm, departing, verifying, down, link, keep, trouble>>

\* What a client sends counts against its window until the daemon took it.
ClientSends(c) ==
  /\ told[c] = "ready" /\ c \notin dead \cup left
  /\ Len(up[c]) < MaxInFlight
  /\ \A s \in DSocket : About("data", c) \notin Within(down[s])
  /\ \E t \in {"data", "closed"} : Say(c, About(t, c))
  /\ UNCHANGED <<relay, down, dead, left, ends, trouble>>

ClientLeaves(c) ==
  /\ rt[c] \in {"open", "closing"} /\ c \notin left
  /\ left' = left \cup {c}
  /\ UNCHANGED <<relay, up, down, dead, ends, trouble>>

-----------------------------------------------------------------------------
Init ==
  /\ doc = EmptyDoc /\ alarm = FALSE /\ verifying = None
  /\ rt = [s \in Socket |-> "gone"] /\ mark = {} /\ departing = {}
  /\ up = [s \in Socket |-> <<>>] /\ down = [s \in DSocket |-> <<>>]
  /\ dead = {} /\ left = {}
  /\ told = [c \in CSocket |-> None]
  /\ link = [d \in Daemon |-> NoLink] /\ keep = [d \in Daemon |-> None]
  /\ trouble = [k \in Fault |-> 0]

Next ==
  \/ \E e \in Events : Handle(e)
  \/ \E s \in Socket : Departed(s) \/ Delist(s) \/ Silence(s)
  \/ Reset \/ Forget
  \/ \E d \in Daemon, s \in DSocket : Dial(d, s)
  \/ \E d \in Daemon : Abandon(d) \/ Hear(d) \/ ProbeClaim(d)
  \/ \E d \in Daemon, c \in CSocket : Answer(d, c) \/ EndSession(d, c)
  \/ \E c \in CSocket : ClientDials(c) \/ ClientSends(c) \/ ClientLeaves(c)

Spec == Init /\ [][Next]_vars
=============================================================================
