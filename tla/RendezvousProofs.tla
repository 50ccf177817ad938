-------------------------- MODULE RendezvousProofs --------------------------
(***************************************************************************)
(* What a rendezvous promises, for every number of daemons, sockets,       *)
(* clients and faults.                                                     *)
(***************************************************************************)
EXTENDS RendezvousProps, FiniteSetTheorems, TLAPS

-----------------------------------------------------------------------------
(* What the relay sends, and the sequence a handler sends it in. *)

Sent == {Word("challenge"), Word("claimed"), Word("held"), Word("ready")}
          \cup ({About("open", c) : c \in CSocket} \cup
                ({About("closed", c) : c \in CSocket} \cup {About("data", c) : c \in CSocket}))

LEMMA FiniteRange ==
  ASSUME NEW f, IsFiniteSet(DOMAIN f)
  PROVE  IsFiniteSet({f[x] : x \in DOMAIN f})
PROOF
<1> DEFINE T == {f[x] : x \in DOMAIN f}
           g == [x \in DOMAIN f |-> f[x]]
<1>1. g \in Surjection(DOMAIN f, T)
  BY DEF Surjection
<1> QED BY <1>1, FS_Surjection

LEMMA FinitelyMuch == IsFiniteSet(Sent) /\ Sent \subseteq Frames
PROOF
<1>1. ASSUME NEW t PROVE IsFiniteSet({About(t, c) : c \in CSocket})
  <2> DEFINE f == [c \in CSocket |-> About(t, c)]
  <2>1. IsFiniteSet(DOMAIN f)
    BY RendezvousAssumption
  <2>2. {f[c] : c \in DOMAIN f} = {About(t, c) : c \in CSocket}
    OBVIOUS
  <2> HIDE DEF f
  <2> QED BY <2>1, <2>2, FiniteRange
<1>2. ASSUME NEW a, NEW b, NEW c, NEW d PROVE IsFiniteSet({a, b, c, d})
  <2>1. IsFiniteSet({a}) /\ IsFiniteSet({a} \cup {b}) /\ IsFiniteSet(({a} \cup {b}) \cup {c})
    BY FS_Singleton, FS_AddElement
  <2>2. IsFiniteSet((({a} \cup {b}) \cup {c}) \cup {d})
    BY <2>1, FS_AddElement
  <2>3. {a, b, c, d} = (({a} \cup {b}) \cup {c}) \cup {d}
    OBVIOUS
  <2> QED BY <2>2, <2>3
<1>3. IsFiniteSet({About("closed", c) : c \in CSocket} \cup {About("data", c) : c \in CSocket})
  BY <1>1, FS_Union
<1>4. IsFiniteSet({About("open", c) : c \in CSocket} \cup
                  ({About("closed", c) : c \in CSocket} \cup {About("data", c) : c \in CSocket}))
  BY <1>1, <1>3, FS_Union
<1>5. IsFiniteSet({Word("challenge"), Word("claimed"), Word("held"), Word("ready")})
  BY <1>2
<1>6. IsFiniteSet(Sent)
  BY <1>4, <1>5, FS_Union DEF Sent
<1>7. Sent \subseteq Frames
  BY DEF Sent, Frames, Word, About
<1> QED BY <1>6, <1>7

LEMMA Listing ==
  ASSUME NEW S, IsFiniteSet(S)
  PROVE  /\ SetToSeq(S) \in Seq(S)
         /\ \A m \in S : \E i \in 1 .. Len(SetToSeq(S)) : SetToSeq(S)[i] = m
PROOF
<1>1. PICK n \in Nat : n = Cardinality(S) /\ ExistsBijection(1 .. n, S)
  BY FS_CardinalityType
<1>2. PICK f \in Bijection(1 .. n, S) : TRUE
  BY <1>1 DEF ExistsBijection
<1>3. f \in [1 .. n -> S] /\ IsInjective(f)
  BY <1>2 DEF Bijection, Injection
<1> DEFINE g == SetToSeq(S)
<1>4. g \in [1 .. n -> S] /\ IsInjective(g)
  BY <1>1, <1>3 DEF SetToSeq
<1>5. g \in Seq(S) /\ Len(g) = n
  BY <1>4
<1>6. g \in Injection(1 .. n, S)
  BY <1>4 DEF Injection
<1>7. IsFiniteSet(1 .. n) /\ Cardinality(1 .. n) = n
  BY FS_Interval
<1>8. g \in Surjection(1 .. n, S)
  BY <1>1, <1>6, <1>7, FS_Injection
<1> QED BY <1>5, <1>8 DEF Surjection

-----------------------------------------------------------------------------
(* Types. *)

Docs == [slot : DSocket \cup {None}, restored : BOOLEAN, pending : SUBSET DSocket,
         sessions : SUBSET CSocket, ended : SUBSET CSocket]
Runtime == {"gone", "open", "closing", "reported"}
Told == Code \cup {None, "ready"}
Worlds == [doc : Docs, rt : [Socket -> Runtime], mark : SUBSET DSocket, alarm : BOOLEAN,
           down : [DSocket -> Seq(Frames)], told : [CSocket -> Told]]
Outgoing == [to : Socket, msg : Sent]
Closings == [to : Socket, code : Code]
Steps == [doc : Docs, sends : SUBSET Outgoing, closes : SUBSET Closings, alarm : BOOLEAN]

(* What a step does to a world. *)
Shutting(st) == {e.to : e \in st.closes}
Marking(w, st) == w.mark \cup {s \in {st.doc.slot} \ {None} : w.rt[s] # "gone"}
CodeOf(st, s) == (CHOOSE e \in st.closes : e.to = s).code
Words(st, s) == SetToSeq({e.msg : e \in {f \in st.sends : f.to = s}})
Farewell(st, s) == IF s \in Shutting(st) THEN <<CloseFrame(CodeOf(st, s))>> ELSE <<>>

Closed(w, st) == [s \in Socket |-> IF s \in Shutting(st) /\ w.rt[s] = "open" THEN "closing" ELSE w.rt[s]]
Said(w, st) == [s \in DSocket |->
                  IF Reaches(w, s) THEN w.down[s] \o (Words(st, s) \o Farewell(st, s)) ELSE w.down[s]]
Heard(w, st) == [c \in CSocket |->
                   IF c \in Shutting(st) /\ w.rt[c] = "open" THEN CodeOf(st, c)
                   ELSE IF To(c, Word("ready")) \in st.sends THEN "ready" ELSE w.told[c]]

LEMMA WordsAre ==
  ASSUME NEW st \in Steps, NEW s
  PROVE  /\ Words(st, s) \in Seq({m \in Sent : To(s, m) \in st.sends})
         /\ \A m : To(s, m) \in st.sends => \E i \in 1 .. Len(Words(st, s)) : Words(st, s)[i] = m
PROOF
<1> DEFINE S == {e.msg : e \in {f \in st.sends : f.to = s}}
<1>1. S = {m \in Sent : To(s, m) \in st.sends}
  BY DEF Steps, Outgoing, To
<1>2. IsFiniteSet(S)
  BY <1>1, FinitelyMuch, FS_Subset
<1>3. \A m : To(s, m) \in st.sends => m \in S
  BY DEF To
<1>4. Words(st, s) = SetToSeq(S)
  BY DEF Words
<1> HIDE DEF S
<1> QED BY <1>1, <1>2, <1>3, <1>4, Listing

LEMMA CodesAre ==
  ASSUME NEW st \in Steps, NEW s \in Shutting(st)
  PROVE  CodeOf(st, s) \in Code /\ \E e \in st.closes : e.to = s /\ e.code = CodeOf(st, s)
BY DEF Shutting, CodeOf, Steps, Closings

LEMMA EffectsAre ==
  ASSUME NEW w \in Worlds, NEW st \in Steps
  PROVE  /\ Closed(w, st) \in [Socket -> Runtime]
         /\ Said(w, st) \in [DSocket -> Seq(Frames)]
         /\ Heard(w, st) \in [CSocket -> Told]
         /\ Effects(w, st) = [w EXCEPT !.down = Said(w, st), !.told = Heard(w, st), !.rt = Closed(w, st),
                                       !.mark = w.mark \ Shutting(st)]
PROOF
<1>1. Closed(w, st) \in [Socket -> Runtime]
  BY DEF Closed, Worlds, Runtime
<1>2. ASSUME NEW s \in DSocket PROVE w.down[s] \o (Words(st, s) \o Farewell(st, s)) \in Seq(Frames)
  <2>1. Words(st, s) \in Seq(Frames)
    <3> DEFINE T == {m \in Sent : To(s, m) \in st.sends}
    <3>1. Words(st, s) \in Seq(T) /\ T \subseteq Frames
      BY WordsAre, FinitelyMuch
    <3> HIDE DEF T
    <3> QED BY <3>1
  <2>2. Farewell(st, s) \in Seq(Frames)
    <3>1. s \in Shutting(st) => CloseFrame(CodeOf(st, s)) \in Frames
      BY CodesAre DEF CloseFrame, Frames
    <3> QED BY <3>1 DEF Farewell
  <2> QED BY <2>1, <2>2 DEF Worlds
<1>3. Said(w, st) \in [DSocket -> Seq(Frames)]
  BY <1>2 DEF Said, Worlds
<1>4. Heard(w, st) \in [CSocket -> Told]
  BY CodesAre DEF Heard, Told, Worlds
<1>5. Effects(w, st) = [w EXCEPT !.down = Said(w, st), !.told = Heard(w, st), !.rt = Closed(w, st),
                                 !.mark = w.mark \ Shutting(st)]
  BY DEF Effects, Said, Heard, Closed, Shutting, CodeOf, Words, Farewell, Worlds
<1> QED BY <1>1, <1>3, <1>4, <1>5

LEMMA EffectsKeep ==
  ASSUME NEW w \in Worlds, NEW st \in Steps
  PROVE  LET x == Put(w, st)
             y == Unscheduled(w, st)
             z == ApplyStep(w, st)
         IN  /\ x \in Worlds /\ y \in Worlds /\ z \in Worlds
             /\ x = [w EXCEPT !.doc = st.doc]
             /\ y.doc = st.doc /\ y.mark = Marking(w, st) \ Shutting(st) /\ y.alarm = w.alarm
             /\ y.rt = Closed(w, st) /\ y.down = Said(w, st) /\ y.told = Heard(w, st)
             /\ z = [y EXCEPT !.alarm = w.alarm \/ st.alarm]
PROOF
<1> DEFINE x == Put(w, st)
           u == MarkHolder(x, st.doc)
           y == Unscheduled(w, st)
<1>1. x = [w EXCEPT !.doc = st.doc] /\ x \in Worlds
  BY DEF Put, Worlds, Steps
<1>2. u = [x EXCEPT !.mark = Marking(w, st)] /\ Marking(w, st) \in SUBSET DSocket
  BY <1>1 DEF MarkHolder, Marking, Worlds, Steps, Docs
<1>3. u \in Worlds /\ u.rt = w.rt /\ u.down = w.down /\ u.told = w.told /\ u.alarm = w.alarm
      /\ u.mark = Marking(w, st) /\ u.doc = st.doc
  BY <1>1, <1>2 DEF Worlds
<1>4. Closed(u, st) = Closed(w, st) /\ Heard(u, st) = Heard(w, st) /\ Said(u, st) = Said(w, st)
  BY <1>3 DEF Closed, Heard, Said, Reaches
<1>5. y = [u EXCEPT !.down = Said(u, st), !.told = Heard(u, st), !.rt = Closed(u, st),
                    !.mark = u.mark \ Shutting(st)]
  <2>1. y = Effects(u, st)
    BY DEF Unscheduled
  <2> HIDE DEF u
  <2> QED BY <1>3, <2>1, EffectsAre
<1>6. /\ Closed(u, st) \in [Socket -> Runtime] /\ Said(u, st) \in [DSocket -> Seq(Frames)]
      /\ Heard(u, st) \in [CSocket -> Told]
  <2> HIDE DEF u
  <2> QED BY <1>3, EffectsAre
<1> HIDE DEF x, u
<1>7. /\ y.doc = st.doc /\ y.mark = Marking(w, st) \ Shutting(st) /\ y.alarm = w.alarm
      /\ y.rt = Closed(w, st) /\ y.down = Said(w, st) /\ y.told = Heard(w, st)
      /\ y \in Worlds
  BY <1>3, <1>4, <1>5, <1>6 DEF Worlds
<1> HIDE DEF y
<1>8. ApplyStep(w, st) = [y EXCEPT !.alarm = w.alarm \/ st.alarm] /\ ApplyStep(w, st) \in Worlds
  <2>1. ApplyStep(w, st) = [y EXCEPT !.alarm = y.alarm \/ st.alarm]
    BY <1>7 DEF ApplyStep, y, Worlds
  <2> QED BY <1>7, <2>1 DEF Worlds, Steps
<1> QED BY <1>1, <1>7, <1>8 DEF x, y

LEMMA PutIs ==
  ASSUME NEW w \in Worlds, NEW st \in Steps
  PROVE  /\ Put(w, st) \in Worlds /\ Put(w, st).doc = st.doc
         /\ Put(w, st).rt = w.rt /\ Put(w, st).mark = w.mark /\ Put(w, st).alarm = w.alarm
         /\ Put(w, st).down = w.down /\ Put(w, st).told = w.told
BY DEF Put, Worlds, Steps

LEMMA UnscheduledIs ==
  ASSUME NEW w \in Worlds, NEW st \in Steps
  PROVE  /\ Unscheduled(w, st) \in Worlds /\ Unscheduled(w, st).doc = st.doc
         /\ Unscheduled(w, st).mark = Marking(w, st) \ Shutting(st)
         /\ Unscheduled(w, st).alarm = w.alarm /\ Unscheduled(w, st).rt = Closed(w, st)
         /\ Unscheduled(w, st).down = Said(w, st) /\ Unscheduled(w, st).told = Heard(w, st)
PROOF
<1> DEFINE y == Unscheduled(w, st)
<1>1. /\ y \in Worlds /\ y.doc = st.doc /\ y.mark = Marking(w, st) \ Shutting(st) /\ y.alarm = w.alarm
      /\ y.rt = Closed(w, st) /\ y.down = Said(w, st) /\ y.told = Heard(w, st)
  BY EffectsKeep
<1> QED BY <1>1

LEMMA ApplyStepIs ==
  ASSUME NEW w \in Worlds, NEW st \in Steps
  PROVE  /\ ApplyStep(w, st) \in Worlds /\ ApplyStep(w, st).doc = st.doc
         /\ ApplyStep(w, st).mark = Marking(w, st) \ Shutting(st)
         /\ ApplyStep(w, st).alarm = (w.alarm \/ st.alarm) /\ ApplyStep(w, st).rt = Closed(w, st)
         /\ ApplyStep(w, st).down = Said(w, st) /\ ApplyStep(w, st).told = Heard(w, st)
PROOF
<1> DEFINE y == Unscheduled(w, st)
           z == ApplyStep(w, st)
<1>1. z = [y EXCEPT !.alarm = w.alarm \/ st.alarm] /\ z \in Worlds
  BY EffectsKeep
<1>2. /\ y \in Worlds /\ y.doc = st.doc /\ y.mark = Marking(w, st) \ Shutting(st)
      /\ y.rt = Closed(w, st) /\ y.down = Said(w, st) /\ y.told = Heard(w, st)
  BY UnscheduledIs
<1> HIDE DEF y, z
<1>3. /\ z.doc = y.doc /\ z.mark = y.mark /\ z.rt = y.rt /\ z.down = y.down /\ z.told = y.told
      /\ z.alarm = (w.alarm \/ st.alarm)
  BY <1>1, <1>2 DEF Worlds
<1>4. z \in Worlds
  BY <1>1
<1> QED BY <1>2, <1>3, <1>4 DEF z

-----------------------------------------------------------------------------
(* What each transition makes of a document. *)

LEMMA StepTypes ==
  ASSUME NEW d \in Docs, NEW S \in SUBSET Outgoing, NEW C \in SUBSET Closings
  PROVE  Step(d, S, C) \in Steps /\ Swept(d, S, C) \in Steps
BY DEF Step, Swept, Steps, Occupied

LEMMA ShutTypes ==
  ASSUME NEW S \in SUBSET Socket, NEW code \in Code
  PROVE  Shut(S, code) \in SUBSET Closings
BY DEF Shut, Closings

LEMMA TellTypes ==
  ASSUME NEW d \in Docs, NEW C \in SUBSET CSocket
  PROVE  TellDaemon(d, C) \in SUBSET Outgoing
BY DEF TellDaemon, Docs, Outgoing, To, Sent, Socket

LEMMA DocTypes ==
  ASSUME NEW d \in Docs, NEW C \in SUBSET CSocket
  PROVE  /\ EndedByRendezvous(d, C) \in Docs /\ DropDaemon(d) \in Docs
         /\ \A s : DropPending(d, s) \in Docs
         /\ EndedByRendezvous(d, C).slot = d.slot /\ DropDaemon(d).slot = None
         /\ \A s : DropPending(d, s).slot = d.slot
BY DEF EndedByRendezvous, DropDaemon, DropPending, Docs

(* A transition asks for a sweep when it is the first to need one, and most of
   them leave the slot. *)
AsksForSweep(d, st) == Occupied(st.doc) => st.alarm \/ Occupied(d)
Sane(d, st) == st \in Steps /\ AsksForSweep(d, st)
Stays(d, st) == Sane(d, st) /\ st.doc.slot = d.slot

LEMMA SweptIs ==
  ASSUME NEW d, NEW S, NEW C
  PROVE  /\ Swept(d, S, C) = [doc |-> d, sends |-> S, closes |-> C, alarm |-> Occupied(d)]
         /\ Step(d, S, C) = [doc |-> d, sends |-> S, closes |-> C, alarm |-> FALSE]
BY DEF Swept, Step

LEMMA NothingSent == {} \in SUBSET Outgoing /\ {} \in SUBSET Closings
OBVIOUS

LEMMA SaneStay ==
  ASSUME NEW d \in Docs, NEW e \in Docs, Occupied(e) => Occupied(d),
         NEW S \in SUBSET Outgoing, NEW C \in SUBSET Closings
  PROVE  /\ Sane(d, Step(e, S, C)) /\ Step(e, S, C).doc.slot = e.slot
         /\ e.slot = d.slot => Stays(d, Step(e, S, C))
BY StepTypes, SweptIs DEF Sane, Stays, AsksForSweep

LEMMA SaneSwept ==
  ASSUME NEW d \in Docs, NEW e \in Docs,
         NEW S \in SUBSET Outgoing, NEW C \in SUBSET Closings
  PROVE  /\ Sane(d, Swept(e, S, C)) /\ Swept(e, S, C).doc.slot = e.slot
         /\ e.slot = d.slot => Stays(d, Swept(e, S, C))
BY StepTypes, SweptIs DEF Sane, Stays, AsksForSweep

LEMMA ArrivalsAreSane ==
  ASSUME NEW d \in Docs
  PROVE  /\ \A s \in DSocket : Stays(d, OnDaemonArrived(d, s))
         /\ \A c \in CSocket : Stays(d, OnClientArrived(d, c))
PROOF
<1>1. ASSUME NEW s \in DSocket PROVE Stays(d, OnDaemonArrived(d, s))
  <2>1. [d EXCEPT !.pending = @ \cup {s}] \in Docs /\ [d EXCEPT !.pending = @ \cup {s}].slot = d.slot
    BY DEF Docs
  <2>2. {To(s, Word("challenge"))} \in SUBSET Outgoing
    BY DEF Outgoing, To, Sent, Socket
  <2>3. Shut({s}, "rendezvousBusy") \in SUBSET Closings
    BY ShutTypes DEF Code, Socket
  <2> QED BY <2>1, <2>2, <2>3, SaneStay, SaneSwept, NothingSent DEF OnDaemonArrived
<1>2. ASSUME NEW c \in CSocket PROVE Stays(d, OnClientArrived(d, c))
  <2>1. [d EXCEPT !.sessions = @ \cup {c}] \in Docs /\ [d EXCEPT !.sessions = @ \cup {c}].slot = d.slot
    BY DEF Docs
  <2>2. Shut({c}, "rendezvousBusy") \in SUBSET Closings /\ Shut({c}, "daemonAbsent") \in SUBSET Closings
    BY ShutTypes DEF Code, Socket
  <2>3. CASE d.slot = None
    BY <2>2, <2>3, SaneStay, NothingSent DEF OnClientArrived
  <2>4. CASE d.slot # None /\ Cardinality(d.sessions) >= MaxSessions
    BY <2>2, <2>4, SaneStay, NothingSent DEF OnClientArrived
  <2>5. CASE d.slot # None /\ ~(Cardinality(d.sessions) >= MaxSessions)
    <3>1. {To(c, Word("ready")), To(d.slot, About("open", c))} \in SUBSET Outgoing
      BY <2>5 DEF Outgoing, To, Sent, Socket, Docs
    <3> QED BY <2>1, <2>5, <3>1, SaneSwept, NothingSent DEF OnClientArrived
  <2> QED BY <2>3, <2>4, <2>5
<1> QED BY <1>1, <1>2

LEMMA VerdictIsSane ==
  ASSUME NEW d \in Docs, NEW s \in DSocket, NEW r
  PROVE  LET st == OnClaimVerdict(d, s, r)
         IN  /\ Sane(d, st) 
             /\ \/ st.doc.slot = d.slot
                \/ st.doc.slot = s /\ (d.slot # None => r = d.slot /\ d.slot \in Shutting(st))
PROOF
<1> DEFINE rest == DropPending(d, s)
           base == IF d.slot = None THEN rest ELSE DropDaemon(rest)
           next == [base EXCEPT !.slot = s, !.restored = FALSE]
<1>1. rest \in Docs /\ base \in Docs /\ rest.slot = d.slot
  BY DocTypes
<1>2. Occupied(rest) => Occupied(d)
  BY DEF DropPending, Occupied, Docs
<1>3. CASE s \notin d.pending
  BY <1>3, SaneStay, NothingSent DEF OnClaimVerdict
<1>4. CASE s \in d.pending /\ d.slot # None /\ ~Supersedes(d, r)
  <2>1. Shut({s}, "rendezvousClaimed") \in SUBSET Closings
    BY ShutTypes DEF Code, Socket
  <2>2. OnClaimVerdict(d, s, r) = Step(rest, {}, Shut({s}, "rendezvousClaimed"))
    BY <1>4 DEF OnClaimVerdict
  <2> HIDE DEF rest
  <2>3. Stays(d, Step(rest, {}, Shut({s}, "rendezvousClaimed")))
    BY <1>1, <1>2, <2>1, SaneStay, NothingSent
  <2> QED BY <2>2, <2>3 DEF Stays
<1>5. CASE s \in d.pending /\ ~(d.slot # None /\ ~Supersedes(d, r))
  <2> DEFINE C == Shut(d.sessions, "daemonAbsent") \cup Shut({d.slot} \ {None}, "claimLost")
             S == {To(s, Word("claimed"))}
  <2>1. OnClaimVerdict(d, s, r) = Swept(next, S, C)
    BY <1>5 DEF OnClaimVerdict
  <2>2. next \in Docs
    BY <1>1 DEF Docs
  <2>3. C \in SUBSET Closings /\ S \in SUBSET Outgoing
    <3>1. Shut(d.sessions, "daemonAbsent") \in SUBSET Closings
      BY ShutTypes DEF Code, Socket, Docs
    <3>2. Shut({d.slot} \ {None}, "claimLost") \in SUBSET Closings
      BY ShutTypes DEF Code, Socket, Docs
    <3> QED BY <3>1, <3>2 DEF Outgoing, To, Sent, Socket
  <2>4. ASSUME d.slot # None PROVE d.slot \in {e.to : e \in C}
    <3>1. [to |-> d.slot, code |-> "claimLost"] \in Shut({d.slot} \ {None}, "claimLost")
      BY <2>4 DEF Shut
    <3>2. [to |-> d.slot, code |-> "claimLost"] \in C
      BY <3>1
    <3> HIDE DEF C
    <3> QED BY <3>2
  <2>5. next.slot = s /\ (d.slot # None => r = d.slot)
    BY <1>1, <1>5 DEF Supersedes, Docs
  <2> HIDE DEF next, S, C
  <2>6. Sane(d, Swept(next, S, C)) /\ Swept(next, S, C).doc.slot = s /\ Swept(next, S, C).closes = C
    BY <2>2, <2>3, <2>5, SaneSwept, SweptIs
  <2> QED BY <2>1, <2>4, <2>5, <2>6 DEF Shutting
<1> QED BY <1>3, <1>4, <1>5

LEMMA EndingIsSane ==
  ASSUME NEW d \in Docs, NEW C \in SUBSET CSocket, C \subseteq d.sessions \/ d.slot # None
  PROVE  Occupied(EndedByRendezvous(d, C)) => Occupied(d)
BY DEF EndedByRendezvous, Occupied, Docs

LEMMA FramesAreSane ==
  ASSUME NEW d \in Docs, NEW m \in Frames
  PROVE  /\ d.slot # None => Stays(d, OnDaemonFrame(d, m))
         /\ \A c \in d.sessions : Stays(d, OnClientFrame(d, c, m))
         /\ \A s \in Socket : Stays(d, OnFrame(d, s, m))
PROOF
<1>1. ASSUME d.slot # None PROVE Stays(d, OnDaemonFrame(d, m))
  <2>1. m.t \in {"data", "closed"} => m.s \in CSocket
    BY DEF Frames
  <2>2. d.slot \in Socket
    BY <1>1 DEF Docs, Socket
  <2>3. CASE m.t = "probe"
    <3>1. {To(d.slot, Word("held"))} \in SUBSET Outgoing
      BY <2>2 DEF Outgoing, To, Sent
    <3> QED BY <2>3, <3>1, SaneStay, NothingSent DEF OnDaemonFrame
  <2>4. CASE m.t = "data" /\ m.s \in d.sessions
    BY <2>4, SaneStay, NothingSent DEF OnDaemonFrame
  <2>5. CASE m.t = "closed" /\ m.s \in d.sessions
    <3>1. [d EXCEPT !.sessions = @ \ {m.s}] \in Docs /\ [d EXCEPT !.sessions = @ \ {m.s}].slot = d.slot
          /\ (Occupied([d EXCEPT !.sessions = @ \ {m.s}]) => Occupied(d))
      BY <1>1 DEF Docs, Occupied
    <3>2. Shut({m.s}, "said") \in SUBSET Closings
      BY <2>1, <2>5, ShutTypes DEF Code, Socket
    <3> QED BY <2>5, <3>1, <3>2, SaneStay, NothingSent DEF OnDaemonFrame
  <2>6. CASE m.t \in {"data", "closed"} /\ m.s \notin d.sessions /\ m.s \in d.ended
    BY <2>6, SaneStay, NothingSent DEF OnDaemonFrame
  <2>7. CASE m.t \in {"data", "closed"} /\ m.s \notin d.sessions \cup d.ended /\ d.restored
    <3>1. EndedByRendezvous(d, {m.s}) \in Docs /\ EndedByRendezvous(d, {m.s}).slot = d.slot
          /\ TellDaemon(d, {m.s}) \in SUBSET Outgoing
          /\ (Occupied(EndedByRendezvous(d, {m.s})) => Occupied(d))
      BY <1>1, <2>1, <2>7, DocTypes, TellTypes, EndingIsSane
    <3> QED BY <2>7, <3>1, SaneStay, NothingSent DEF OnDaemonFrame
  <2>8. CASE /\ m.t # "probe" 
             /\ m.t \in {"data", "closed"} => m.s \notin d.sessions \cup d.ended /\ ~d.restored
    <3>1. Shut({d.slot}, "protocolError") \in SUBSET Closings
      BY <2>2, ShutTypes DEF Code
    <3> QED BY <2>8, <3>1, SaneStay, NothingSent DEF OnDaemonFrame
  <2> QED BY <2>3, <2>4, <2>5, <2>6, <2>7, <2>8 DEF Docs
<1>2. ASSUME NEW c \in d.sessions PROVE Stays(d, OnClientFrame(d, c, m))
  <2>1. c \in CSocket /\ c \in Socket
    BY DEF Docs, Socket
  <2>2. Shut({c}, "said") \in SUBSET Closings /\ Shut({c}, "daemonAbsent") \in SUBSET Closings
    BY <2>1, ShutTypes DEF Code
  <2>3. CASE d.slot = None
    <3>1. [d EXCEPT !.sessions = @ \ {c}] \in Docs /\ [d EXCEPT !.sessions = @ \ {c}].slot = d.slot
          /\ (Occupied([d EXCEPT !.sessions = @ \ {c}]) => Occupied(d))
      BY DEF Docs, Occupied
    <3> QED BY <2>2, <2>3, <3>1, SaneStay, NothingSent DEF OnClientFrame
  <2>4. CASE d.slot # None /\ m.t = "data"
    <3>1. {To(d.slot, About("data", c))} \in SUBSET Outgoing
      BY <2>1, <2>4 DEF Outgoing, To, Sent, Docs, Socket
    <3> QED BY <2>4, <3>1, SaneStay, NothingSent DEF OnClientFrame
  <2>5. CASE d.slot # None /\ m.t # "data"
    <3>1. EndedByRendezvous(d, {c}) \in Docs /\ EndedByRendezvous(d, {c}).slot = d.slot
          /\ TellDaemon(d, {c}) \in SUBSET Outgoing
          /\ (Occupied(EndedByRendezvous(d, {c})) => Occupied(d))
      BY <2>1, DocTypes, TellTypes, EndingIsSane
    <3> QED BY <2>2, <2>5, <3>1, SaneStay, NothingSent DEF OnClientFrame
  <2> QED BY <2>3, <2>4, <2>5
<1>3. ASSUME NEW s \in Socket PROVE Stays(d, OnFrame(d, s, m))
  <2>1. CASE s = d.slot
    <3>1. d.slot # None
      BY <2>1, RendezvousAssumption DEF Socket
    <3> QED BY <1>1, <2>1, <3>1 DEF OnFrame
  <2>2. CASE s \in d.pending \ {d.slot}
    <3>1. DropPending(d, s) \in Docs /\ DropPending(d, s).slot = d.slot
          /\ (Occupied(DropPending(d, s)) => Occupied(d))
      BY DocTypes DEF DropPending, Occupied, Docs
    <3>2. Shut({s}, "protocolError") \in SUBSET Closings
      BY ShutTypes DEF Code
    <3>3. OnFrame(d, s, m) = Step(DropPending(d, s), {}, Shut({s}, "protocolError"))
      BY <2>2 DEF OnFrame
    <3> DEFINE n == DropPending(d, s)
               C == Shut({s}, "protocolError")
    <3> HIDE DEF n, C
    <3>4. Stays(d, Step(n, {}, C))
      BY <3>1, <3>2, SaneStay, NothingSent DEF n, C
    <3> QED BY <3>3, <3>4 DEF n, C
  <2>3. CASE s \notin d.pending \cup {d.slot} /\ s \in d.sessions
    <3>1. OnFrame(d, s, m) = OnClientFrame(d, s, m)
      BY <2>3 DEF OnFrame
    <3> QED BY <1>2, <2>3, <3>1
  <2>4. CASE s \notin d.pending \cup {d.slot} /\ s \notin d.sessions
    <3>1. Shut({s}, IF m.t = "probe" THEN "claimLost" ELSE "protocolError") \in SUBSET Closings
      BY ShutTypes DEF Code
    <3>2. OnFrame(d, s, m)
            = Step(d, {}, Shut({s}, IF m.t = "probe" THEN "claimLost" ELSE "protocolError"))
      BY <2>4 DEF OnFrame
    <3> QED BY <3>1, <3>2, SaneStay, NothingSent
  <2> QED BY <2>1, <2>2, <2>3, <2>4
<1> QED BY <1>1, <1>2, <1>3

LEMMA CloseIsSane ==
  ASSUME NEW d \in Docs, NEW s \in Socket
  PROVE  /\ Sane(d, OnSocketClosed(d, s)) /\ OnSocketClosed(d, s).doc.slot \in {d.slot, None}
         /\ s # d.slot => Stays(d, OnSocketClosed(d, s))
PROOF
<1>1. Shut(d.sessions, "daemonAbsent") \in SUBSET Closings
  BY ShutTypes DEF Code, Socket, Docs
<1>2. CASE s \in d.pending
  <2>1. DropPending(d, s) \in Docs /\ DropPending(d, s).slot = d.slot
        /\ (Occupied(DropPending(d, s)) => Occupied(d))
    BY DocTypes DEF DropPending, Occupied, Docs
  <2>2. s \notin d.sessions
    BY <1>2, RendezvousAssumption DEF Docs
  <2>3. OnSocketClosed(d, s) = Step(DropPending(d, s), {}, {})
    BY <1>2, <2>2 DEF OnSocketClosed
  <2> QED BY <2>1, <2>3, SaneStay, NothingSent
<1>3. CASE s \notin d.pending /\ s = d.slot
  <2>1. DropDaemon(d) \in Docs /\ DropDaemon(d).slot = None /\ (Occupied(DropDaemon(d)) => Occupied(d))
    BY DocTypes DEF DropDaemon, Occupied, Docs
  <2>2. s \notin d.sessions
    BY <1>3, RendezvousAssumption DEF Docs, Socket
  <2>3. OnSocketClosed(d, s) = Step(DropDaemon(d), {}, Shut(d.sessions, "daemonAbsent"))
    BY <1>3, <2>2 DEF OnSocketClosed
  <2> DEFINE n == DropDaemon(d)
             C == Shut(d.sessions, "daemonAbsent")
  <2> HIDE DEF n, C
  <2>4. Sane(d, Step(n, {}, C)) /\ Step(n, {}, C).doc.slot = None
    BY <1>1, <2>1, SaneStay, NothingSent DEF n, C
  <2> QED BY <1>3, <2>3, <2>4 DEF n, C
<1>4. CASE s \notin d.pending /\ s # d.slot /\ s \in d.sessions
  <2>1. {s} \in SUBSET CSocket /\ {s} \subseteq d.sessions
    BY <1>4 DEF Docs
  <2>2. EndedByRendezvous(d, {s}) \in Docs /\ EndedByRendezvous(d, {s}).slot = d.slot
        /\ TellDaemon(d, {s}) \in SUBSET Outgoing
        /\ (Occupied(EndedByRendezvous(d, {s})) => Occupied(d))
    BY <2>1, DocTypes, TellTypes, EndingIsSane
  <2>3. OnSocketClosed(d, s) = Step(EndedByRendezvous(d, {s}), TellDaemon(d, {s}), {})
    BY <1>4 DEF OnSocketClosed
  <2> DEFINE n == EndedByRendezvous(d, {s})
             S == TellDaemon(d, {s})
  <2> HIDE DEF n, S
  <2>4. Stays(d, Step(n, S, {}))
    BY <2>2, SaneStay, NothingSent DEF n, S
  <2> QED BY <2>3, <2>4 DEF n, S, Stays
<1>5. CASE s \notin d.pending /\ s # d.slot /\ s \notin d.sessions
  BY <1>5, SaneStay, NothingSent DEF OnSocketClosed
<1> QED BY <1>2, <1>3, <1>4, <1>5

LEMMA SweepIsSane ==
  ASSUME NEW d \in Docs, dead \subseteq Socket
  PROVE  LET st == OnAlarm(d)
         IN  /\ Sane(d, st) /\ st.alarm = Occupied(st.doc)
             /\ st.doc.slot = IF d.slot \in dead THEN None ELSE d.slot
PROOF
<1> DEFINE late == {s \in d.pending : Overdue(s)}
           pruned == [d EXCEPT !.pending = @ \ late]
           mute == {d.slot} \cap dead
           bereft == IF mute = {} THEN pruned ELSE DropDaemon(pruned)
           still == bereft.sessions \cap dead
           spared == EndedByRendezvous(bereft, still)
           S == TellDaemon(bereft, still)
           lost == (d.sessions \ bereft.sessions) \cup still \cup mute
           C == Shut(late, "claimTimeout") \cup Shut(lost, "heartbeatTimeout")
<1>1. pruned \in Docs /\ pruned.slot = d.slot
  BY DEF Docs
<1>2. bereft \in Docs /\ bereft.slot = IF d.slot \in dead THEN None ELSE d.slot
  <2> HIDE DEF pruned
  <2> QED BY <1>1, DocTypes
<1>3. late \in SUBSET Socket /\ still \in SUBSET CSocket /\ lost \in SUBSET Socket
  <2> HIDE DEF bereft
  <2> QED BY <1>2 DEF Docs, Socket
<1>4. spared \in Docs /\ spared.slot = bereft.slot /\ S \in SUBSET Outgoing
  <2> HIDE DEF bereft, still
  <2> QED BY <1>2, <1>3, DocTypes, TellTypes
<1>5. C \in SUBSET Closings
  <2> HIDE DEF lost, late
  <2>1. Shut(lost, "heartbeatTimeout") \in SUBSET Closings /\ Shut(late, "claimTimeout") \in SUBSET Closings
    BY <1>3, ShutTypes DEF Code
  <2> QED BY <2>1
<1>6. OnAlarm(d) = Swept(spared, S, C)
  BY DEF OnAlarm
<1> HIDE DEF bereft, spared, S, C
<1> QED BY <1>2, <1>4, <1>5, <1>6, SaneSwept, SweptIs

(* The document made to agree: the slot stays with a socket the runtime lists,
   and an empty one goes to a socket that carries the claim; every other such
   socket is shut. *)
LEMMA ReconcileIsSane ==
  ASSUME NEW d \in Docs, mark \subseteq DSocket
  PROVE  LET st == Reconcile(d)
         IN  /\ st \in Steps /\ st.alarm = Occupied(st.doc)
             /\ mark \ {st.doc.slot} \subseteq Shutting(st)
             /\ st.doc.slot = None => mark = {}
             /\ d.slot \in Listed => st.doc.slot = d.slot
PROOF
<1> DEFINE pruned == [d EXCEPT !.pending = @ \cap Listed]
           bereft == IF d.slot # None /\ d.slot \notin Listed THEN DropDaemon(pruned) ELSE pruned
           absent == bereft.sessions \ Listed
           spared == EndedByRendezvous(bereft, absent)
           given == IF spared.slot = None /\ mark # {}
                    THEN [spared EXCEPT !.slot = CHOOSE s \in mark : TRUE, !.restored = TRUE]
                    ELSE spared
           others == mark \ {given.slot}
           S == TellDaemon(bereft, absent)
           lost == d.sessions \ bereft.sessions
           C == Shut(lost, "daemonAbsent") \cup Shut(others, "claimLost")
<1>1. pruned \in Docs /\ pruned.slot = d.slot
  BY DEF Docs
<1>2. bereft \in Docs /\ (d.slot \in Listed => bereft.slot = d.slot)
  <2> HIDE DEF pruned
  <2> QED BY <1>1, DocTypes
<1>3. absent \in SUBSET CSocket /\ lost \in SUBSET Socket
  <2> HIDE DEF bereft
  <2> QED BY <1>2 DEF Docs, Socket
<1>4. spared \in Docs /\ spared.slot = bereft.slot /\ S \in SUBSET Outgoing
  <2> HIDE DEF bereft, absent
  <2> QED BY <1>2, <1>3, DocTypes, TellTypes
<1>5. /\ given \in Docs /\ (given.slot = None => mark = {})
      /\ d.slot \in Listed => given.slot = d.slot
  <2>1. None \notin mark /\ None \notin Listed
    BY RendezvousAssumption DEF Listed, Socket
  <2> HIDE DEF spared, bereft
  <2>2. CASE spared.slot = None /\ mark # {}
    <3>1. PICK x \in mark : x = (CHOOSE s \in mark : TRUE)
      BY <2>2
    <3>2. given = [spared EXCEPT !.slot = x, !.restored = TRUE]
      BY <2>2, <3>1
    <3>3. x \in DSocket /\ x # None
      BY <2>1
    <3>4. given \in Docs /\ given.slot = x
      BY <1>4, <3>2, <3>3 DEF Docs
    <3> QED BY <1>2, <1>4, <2>1, <2>2, <3>3, <3>4
  <2>3. CASE ~(spared.slot = None /\ mark # {})
    <3>1. given = spared
      BY <2>3
    <3> QED BY <1>2, <1>4, <2>3, <3>1
  <2> QED BY <2>2, <2>3
<1>6. others \in SUBSET Socket
  BY DEF Socket
<1>7. C \in SUBSET Closings
  <2> HIDE DEF lost, others
  <2>1. Shut(lost, "daemonAbsent") \in SUBSET Closings /\ Shut(others, "claimLost") \in SUBSET Closings
    BY <1>3, <1>6, ShutTypes DEF Code
  <2> QED BY <2>1
<1>8. Reconcile(d) = Swept(given, S, C)
  BY DEF Reconcile
<1>9. others \subseteq {e.to : e \in C}
  <2> SUFFICES ASSUME NEW s \in others PROVE s \in {e.to : e \in C}
    OBVIOUS
  <2>1. [to |-> s, code |-> "claimLost"] \in C
    BY DEF Shut
  <2> HIDE DEF C
  <2> QED BY <2>1
<1> HIDE DEF bereft, spared, S, C, given
<1> QED BY <1>4, <1>5, <1>7, <1>8, <1>9, StepTypes, SweptIs DEF Shutting

-----------------------------------------------------------------------------
(* The state, and one event of the object's queue. *)

Sound ==
  /\ doc \in Docs /\ rt \in [Socket -> Runtime] /\ alarm \in BOOLEAN
  /\ mark \subseteq DSocket /\ \A s \in mark : rt[s] # "gone"
  /\ departing \subseteq Socket /\ \A s \in departing : rt[s] = "reported"
  /\ verifying = None \/ verifying \in [sock : DSocket, replaces : DSocket \cup {None}]
  /\ up \in [Socket -> Seq(Frames)] /\ down \in [DSocket -> Seq(Frames)]
  /\ dead \subseteq Socket /\ left \subseteq Socket
  /\ told \in [CSocket -> Told]
  /\ link \in [Daemon -> [sock : DSocket \cup {None}, claimed : BOOLEAN,
                          sess : SUBSET CSocket, over : SUBSET CSocket]]
  /\ keep \in [Daemon -> DSocket \cup {None}]
  /\ trouble \in [Fault -> Nat]

Due(e) == [World EXCEPT !.alarm = @ /\ e.kind # "alarm"]
Seen(w, e) == Before(w, e)
Done(w, e) == Reduce(Seen(w, e).doc, e)

(* No step opens a socket or lets go of one, and only listed ones carry claims. *)
Faded(w) ==
  /\ \A s \in Socket : w.rt[s] = rt[s] \/ (rt[s] = "open" /\ w.rt[s] = "closing")
  /\ \A s \in w.mark : rt[s] # "gone"
OfNow(w) == w \in Worlds /\ w.doc = doc /\ w.rt = rt /\ w.mark = mark /\ w.down = down /\ w.told = told

LEMMA WorldIs ==
  ASSUME Sound
  PROVE  OfNow(World) /\ World.alarm = alarm /\
         \A e : OfNow(Due(e)) /\ Due(e).alarm = (alarm /\ e.kind # "alarm")
BY DEF OfNow, World, Due, Worlds, Sound

LEMMA FadedFurther ==
  ASSUME Sound, NEW w \in Worlds, Faded(w), NEW st \in Steps
  PROVE  Faded(Put(w, st)) /\ Faded(Unscheduled(w, st)) /\ Faded(ApplyStep(w, st))
PROOF
<1>1. \A s \in Socket : Closed(w, st)[s] = w.rt[s] \/ (w.rt[s] = "open" /\ Closed(w, st)[s] = "closing")
  BY DEF Closed
<1>2. Marking(w, st) \subseteq w.mark \cup {s \in Socket : rt[s] # "gone"}
  BY DEF Marking, Faded, Steps, Docs, Socket
<1>3. \A y \in Worlds : y.rt = Closed(w, st) /\ y.mark = Marking(w, st) \ Shutting(st) => Faded(y)
  BY <1>1, <1>2 DEF Faded
<1>4. /\ Unscheduled(w, st) \in Worlds /\ ApplyStep(w, st) \in Worlds
      /\ Put(w, st).rt = w.rt /\ Put(w, st).mark = w.mark
      /\ Unscheduled(w, st).rt = Closed(w, st)
      /\ Unscheduled(w, st).mark = Marking(w, st) \ Shutting(st)
      /\ ApplyStep(w, st).rt = Closed(w, st)
      /\ ApplyStep(w, st).mark = Marking(w, st) \ Shutting(st)
  BY PutIs, UnscheduledIs, ApplyStepIs
<1> QED BY <1>3, <1>4 DEF Faded

LEMMA SeenIs ==
  ASSUME Sound, NEW w, OfNow(w), NEW e
  PROVE  /\ Seen(w, e) \in Worlds /\ Faded(Seen(w, e))
         /\ \/ ~Reconciles(e) /\ Seen(w, e) = w
            \/ Reconciles(e) /\ Seen(w, e) = ApplyStep(w, Reconcile(doc)) /\ Reconcile(doc) \in Steps
PROOF
<1>1. Reconcile(doc) \in Steps /\ Faded(w)
  BY ReconcileIsSane DEF Sound, Faded, OfNow
<1>2. CASE Reconciles(e)
  <2>1. Seen(w, e) = ApplyStep(w, Reconcile(doc))
    BY <1>2 DEF Seen, Before
  <2> QED BY <1>1, <1>2, <2>1, ApplyStepIs, FadedFurther DEF OfNow
<1>3. CASE ~Reconciles(e)
  BY <1>1, <1>3 DEF Seen, Before, OfNow
<1> QED BY <1>2, <1>3

LEMMA EventsAre ==
  ASSUME Sound, NEW e \in Events
  PROVE  \/ /\ e.kind = "frame" /\ e.s \in Socket /\ verifying = None
            /\ up[e.s] # <<>> /\ Head(up[e.s]) \in Frames /\ Tail(up[e.s]) \in Seq(Frames)
            /\ rt[e.s] \in {"open", "closing"} /\ e = Event("frame", e.s)
         \/ e.kind = "closed" /\ e.s \in departing /\ verifying = None
         \/ e.kind = "alarm" /\ alarm /\ verifying = None
         \/ /\ e.kind = "verdict" /\ verifying # None /\ e.s = verifying.sock
            /\ verifying \in [sock : DSocket, replaces : DSocket \cup {None}]
PROOF
<1>1. CASE verifying # None
  BY <1>1 DEF Events, Event, Sound
<1>2. CASE verifying = None
  <2>1. e \in Queued
    BY <1>2 DEF Events
  <2>2. CASE \E s \in Socket : e = Event("frame", s) /\ up[s] # <<>> /\ rt[s] \in {"open", "closing"}
    BY <1>2, <2>2 DEF Event, Sound
  <2>3. CASE \E s \in departing : e = Event("closed", s)
    BY <1>2, <2>3 DEF Event
  <2>4. CASE alarm /\ e = Event("alarm", None)
    BY <1>2, <2>4 DEF Event
  <2> QED BY <2>1, <2>2, <2>3, <2>4 DEF Queued
<1> QED BY <1>1, <1>2

(* What an event may do to the slot. *)
Moved(d, e, st) ==
  /\ e.kind \notin {"closed", "alarm", "verdict"} => st.doc.slot = d.slot
  /\ e.kind = "closed" => \/ st.doc.slot = d.slot
                          \/ e.s = d.slot /\ st.doc.slot = None
  /\ e.kind = "alarm" => st.doc.slot = IF d.slot \in dead THEN None ELSE d.slot
  /\ e.kind = "verdict" =>
       \/ st.doc.slot = d.slot
       \/ st.doc.slot = e.s /\ (d.slot # None => verifying.replaces = d.slot /\ d.slot \in Shutting(st))

LEMMA ReduceIsSane ==
  ASSUME Sound, NEW d \in Docs, NEW e \in Events \cup {Event("none", None)}
  PROVE  /\ Sane(d, Reduce(d, e)) /\ Moved(d, e, Reduce(d, e))
         /\ e.kind = "alarm" => Reduce(d, e).alarm = Occupied(Reduce(d, e).doc)
PROOF
<1>0. Stays(d, Step(d, {}, {}))
  BY SaneStay, NothingSent
<1>1. CASE e = Event("none", None)
  BY <1>0, <1>1 DEF Reduce, Event, Moved, Stays
<1>2. CASE e \in Events /\ e.kind = "frame"
  <2>1. e.s \in Socket /\ Head(up[e.s]) \in Frames
    BY <1>2, EventsAre
  <2>2. Stays(d, Reduce(d, e))
    <3>1. CASE Head(up[e.s]).t = "arrive"
      <4>1. Reduce(d, e) = IF e.s \in DSocket THEN OnDaemonArrived(d, e.s) ELSE OnClientArrived(d, e.s)
        BY <1>2, <3>1 DEF Reduce, IsClaim
      <4> QED BY <2>1, <4>1, ArrivalsAreSane DEF Socket
    <3>2. CASE Head(up[e.s]).t # "arrive" /\ IsClaim(d, e)
      <4>1. Reduce(d, e) = Step(d, {}, {})
        BY <1>2, <3>2 DEF Reduce
      <4> QED BY <1>0, <4>1
    <3>3. CASE Head(up[e.s]).t # "arrive" /\ ~IsClaim(d, e)
      <4>1. Reduce(d, e) = OnFrame(d, e.s, Head(up[e.s]))
        BY <1>2, <3>3 DEF Reduce
      <4> QED BY <2>1, <4>1, FramesAreSane
    <3> QED BY <3>1, <3>2, <3>3
  <2> QED BY <1>2, <2>2 DEF Stays, Moved
<1>3. CASE e \in Events /\ e.kind = "closed"
  <2>1. Reduce(d, e) = OnSocketClosed(d, e.s)
    BY <1>3 DEF Reduce, IsClaim
  <2>2. e.s \in Socket
    BY <1>3, EventsAre DEF Sound
  <2> QED BY <1>3, <2>1, <2>2, CloseIsSane DEF Moved, Stays
<1>4. CASE e \in Events /\ e.kind = "alarm"
  <2>1. Reduce(d, e) = OnAlarm(d)
    BY <1>4 DEF Reduce, IsClaim
  <2> QED BY <1>4, <2>1, SweepIsSane DEF Sound, Moved
<1>5. CASE e \in Events /\ e.kind = "verdict"
  <2>1. Reduce(d, e) = OnClaimVerdict(d, e.s, verifying.replaces)
    BY <1>5 DEF Reduce, IsClaim
  <2>2. e.s \in DSocket
    BY <1>5, EventsAre
  <2> DEFINE st == OnClaimVerdict(d, e.s, verifying.replaces)
  <2>3. /\ Sane(d, st) 
        /\ \/ st.doc.slot = d.slot
           \/ st.doc.slot = e.s /\ (d.slot # None => verifying.replaces = d.slot /\ d.slot \in Shutting(st))
    BY <2>2, VerdictIsSane
  <2> QED BY <1>5, <2>1, <2>3 DEF Moved
<1> QED BY <1>1, <1>2, <1>3, <1>4, <1>5, EventsAre

(* A handler: the world it saw, and what became of it. *)
LEMMA HandleIs ==
  ASSUME Sound, NEW e \in Events, Handle(e)
  PROVE  LET w == Seen(Due(e), e)
             st == Done(Due(e), e)
         IN  /\ w \in Worlds /\ Faded(w) /\ Sane(w.doc, st) /\ Moved(w.doc, e, st)
             /\ e.kind = "alarm" => st.alarm = Occupied(st.doc)
             /\ ApplyStep(w, st) \in Worlds /\ Faded(ApplyStep(w, st))
             /\ doc' = st.doc /\ rt' = Closed(w, st) /\ mark' = Marking(w, st) \ Shutting(st)
             /\ alarm' = (w.alarm \/ st.alarm) /\ down' = Said(w, st) /\ told' = Heard(w, st)
PROOF
<1> DEFINE w == Seen(Due(e), e)
           st == Done(Due(e), e)
           z == ApplyStep(w, st)
<1>1. w \in Worlds /\ Faded(w)
  BY WorldIs, SeenIs
<1>2. Sane(w.doc, st) /\ Moved(w.doc, e, st) /\ (e.kind = "alarm" => st.alarm = Occupied(st.doc))
  BY <1>1, ReduceIsSane DEF Done, Worlds
<1>3. st \in Steps
  BY <1>2 DEF Sane
<1>4. Becomes(z)
  <2>1. Handled(e) = {z}
    BY DEF Handled, Seen, Done, Due
  <2> QED BY <2>1 DEF Handle
<1>5. z \in Worlds /\ Faded(z)
  BY <1>1, <1>3, ApplyStepIs, FadedFurther
<1>6. /\ z.doc = st.doc /\ z.rt = Closed(w, st) /\ z.mark = Marking(w, st) \ Shutting(st)
      /\ z.alarm = (w.alarm \/ st.alarm) /\ z.down = Said(w, st) /\ z.told = Heard(w, st)
  <2> HIDE DEF w, st
  <2> QED BY <1>1, <1>3, ApplyStepIs
<1> HIDE DEF w, st, z
<1>7. /\ doc' = st.doc /\ rt' = Closed(w, st) /\ mark' = Marking(w, st) \ Shutting(st)
      /\ alarm' = (w.alarm \/ st.alarm) /\ down' = Said(w, st) /\ told' = Heard(w, st)
  BY <1>4, <1>6 DEF Becomes
<1> QED BY <1>1, <1>2, <1>5, <1>7 DEF w, st, z

-----------------------------------------------------------------------------
(* Every step keeps the types. *)

LEMMA Distinct ==
  /\ None \notin Socket /\ DSocket \subseteq Socket /\ CSocket \subseteq Socket
  /\ \A s \in Socket : s \in CSocket <=> s \notin DSocket
  /\ \A t : Word(t).t = t
  /\ \A t, c : About(t, c).t = t /\ About(t, c).s = c
BY RendezvousAssumption DEF Socket, Word, About

LEMMA HandleSound ==
  ASSUME Sound, NEW e \in Events, Handle(e)
  PROVE  Sound'
PROOF
<1> DEFINE w == Seen(Due(e), e)
           st == Done(Due(e), e)
           z == ApplyStep(w, st)
<1>1. /\ z \in Worlds /\ Faded(z)
      /\ doc' = st.doc /\ rt' = Closed(w, st) /\ mark' = Marking(w, st) \ Shutting(st)
      /\ alarm' = (w.alarm \/ st.alarm) /\ down' = Said(w, st) /\ told' = Heard(w, st)
      /\ w \in Worlds /\ st \in Steps
  BY HandleIs DEF Sane
<1> HIDE DEF w, st
<1>2. /\ doc' = z.doc /\ rt' = z.rt /\ mark' = z.mark /\ alarm' = z.alarm /\ down' = z.down /\ told' = z.told
  BY <1>1, ApplyStepIs
<1> HIDE DEF z
<1>3. /\ doc' \in Docs /\ rt' \in [Socket -> Runtime] /\ alarm' \in BOOLEAN /\ mark' \subseteq DSocket
      /\ down' \in [DSocket -> Seq(Frames)] /\ told' \in [CSocket -> Told]
  BY <1>1, <1>2 DEF Worlds
<1>4. \A s \in Socket : rt'[s] = rt[s] \/ (rt[s] = "open" /\ rt'[s] = "closing")
  BY <1>1, <1>2 DEF Faded
<1>5. \A s \in mark' : rt'[s] # "gone"
  BY <1>1, <1>2, <1>3, <1>4, Distinct DEF Faded
<1>6. departing' \subseteq departing /\ \A s \in departing' : rt'[s] = "reported"
  BY <1>4 DEF Handle, Sound
<1>7. up' \in [Socket -> Seq(Frames)]
  <2>1. CASE e.kind = "frame"
    BY <2>1, EventsAre DEF Handle, Sound
  <2>2. CASE e.kind # "frame"
    BY <2>2 DEF Handle, Sound
  <2> QED BY <2>1, <2>2
<1>8. verifying' = None \/ verifying' \in [sock : DSocket, replaces : DSocket \cup {None}]
  <2>1. CASE \E x \in {Before(World, e)} : IsClaim(x.doc, e)
    <3>1. PICK x : x = Before(World, e) /\ IsClaim(x.doc, e)
      BY <2>1
    <3>2. x.doc \in Docs
      BY <3>1, WorldIs, SeenIs DEF Seen, Worlds
    <3>3. e.s \in DSocket /\ Head(up[e.s]) \in Frames /\ Head(up[e.s]).t = "claim"
      BY <3>1, <3>2, EventsAre DEF IsClaim, Docs
    <3>4. Head(up[e.s]).replaces \in DSocket \cup {None}
      BY <3>3 DEF Frames
    <3>5. verifying' = [sock |-> e.s, replaces |-> Head(up[e.s]).replaces]
      BY <2>1 DEF Handle
    <3> QED BY <3>3, <3>4, <3>5
  <2> QED BY <2>1 DEF Handle
<1>9. UNCHANGED << dead, left, link, keep, trouble >>
  BY DEF Handle
<1> QED BY <1>3, <1>5, <1>6, <1>7, <1>8, <1>9 DEF Sound

LEMMA RuntimeSound ==
  ASSUME Sound, NEW s \in Socket, Departed(s) \/ Delist(s) \/ Silence(s)
  PROVE  Sound'
PROOF
<1>1. CASE Departed(s)
  BY <1>1 DEF Departed, Sound, Runtime, wire, ends
<1>2. CASE Delist(s)
  BY <1>2, Distinct DEF Delist, Sound, Runtime, ends
<1>3. CASE Silence(s)
  BY <1>3 DEF Silence, Strikes, Sound, relay, ends, Fault
<1> QED BY <1>1, <1>2, <1>3

(* Where a reset may leave the relay. *)
Halves(e) ==
  {World, Before(World, e), Put(World, Reconcile(doc)), Put(Before(World, e), Done(World, e)),
   Unscheduled(Before(World, e), Done(World, e))}
Cut(e) == departing \cup {s \in {e.s} : e.kind = "frame" /\ Head(up[s]).t = "arrive"}
CutOff(w, e) == [w EXCEPT !.rt = [s \in Socket |-> IF s \in Cut(e) THEN "gone" ELSE @[s]],
                          !.mark = @ \ Cut(e)]

LEMMA HalvesAre ==
  ASSUME Sound, NEW e \in Events \cup {Event("none", None)}, NEW w \in Halves(e)
  PROVE  w \in Worlds /\ Faded(w)
PROOF
<1>1. OfNow(World) /\ Faded(World)
  BY WorldIs DEF OfNow, Faded, Sound
<1>2. Before(World, e) \in Worlds /\ Faded(Before(World, e))
  BY <1>1, SeenIs DEF Seen
<1>3. Done(World, e) \in Steps
  BY <1>2, ReduceIsSane DEF Done, Seen, Worlds, Sane
<1>4. Reconcile(doc) \in Steps
  BY ReconcileIsSane DEF Sound
<1>5. /\ Put(World, Reconcile(doc)) \in Worlds /\ Faded(Put(World, Reconcile(doc)))
      /\ Put(Before(World, e), Done(World, e)) \in Worlds /\ Faded(Put(Before(World, e), Done(World, e)))
  BY <1>1, <1>2, <1>3, <1>4, PutIs, FadedFurther DEF OfNow
<1>6. /\ Unscheduled(Before(World, e), Done(World, e)) \in Worlds
      /\ Faded(Unscheduled(Before(World, e), Done(World, e)))
  BY <1>2, <1>3, UnscheduledIs, FadedFurther
<1> QED BY <1>1, <1>2, <1>5, <1>6 DEF Halves, OfNow

LEMMA ResetIs ==
  ASSUME Sound, Reset
  PROVE  \E e \in Events \cup {Event("none", None)} : \E w \in Halves(e) :
           /\ Becomes(CutOff(w, e)) /\ dead' = dead \cup Cut(e) /\ Cut(e) \subseteq Socket
           /\ up' = [s \in Socket |-> IF s \in Cut(e) THEN <<>>
                                      ELSE IF e = Event("frame", s) THEN Tail(up[s]) ELSE up[s]]
           /\ departing' = {} /\ verifying' = None /\ UNCHANGED << left, link, keep >> /\ Strikes("reset")
PROOF
<1>1. PICK e \in Events \cup {Event("none", None)} :
        LET w1 == Before(World, e)
            red == Reduce(w1.doc, e)
            half == IF e.kind = "none" THEN {World}
                    ELSE {World, w1, Put(w1, red), Unscheduled(w1, red)}
                         \cup {Put(World, Reconcile(doc)) : x \in {e} \cap {f \in Events : Reconciles(f)}}
        IN  \E w \in half :
              /\ Becomes(CutOff(w, e)) /\ dead' = dead \cup Cut(e)
              /\ up' = [s \in Socket |-> IF s \in Cut(e) THEN <<>>
                                         ELSE IF e = Event("frame", s) THEN Tail(up[s]) ELSE up[s]]
  BY DEF Reset, CutOff, Cut
<1>2. PICK w \in Halves(e) :
        /\ Becomes(CutOff(w, e)) /\ dead' = dead \cup Cut(e)
        /\ up' = [s \in Socket |-> IF s \in Cut(e) THEN <<>>
                                   ELSE IF e = Event("frame", s) THEN Tail(up[s]) ELSE up[s]]
  BY <1>1 DEF Halves, Done, Seen
<1>3. Cut(e) \subseteq Socket
  <2>1. e.kind = "frame" => e.s \in Socket
    BY EventsAre DEF Event
  <2> QED BY <2>1 DEF Cut, Sound
<1> QED BY <1>2, <1>3 DEF Reset

LEMMA ResetSound ==
  ASSUME Sound, Reset
  PROVE  Sound'
PROOF
<1>0. PICK e \in Events \cup {Event("none", None)} : \E w \in Halves(e) :
        /\ Becomes(CutOff(w, e)) /\ dead' = dead \cup Cut(e) /\ Cut(e) \subseteq Socket
        /\ up' = [s \in Socket |-> IF s \in Cut(e) THEN <<>>
                                   ELSE IF e = Event("frame", s) THEN Tail(up[s]) ELSE up[s]]
        /\ departing' = {} /\ verifying' = None /\ UNCHANGED << left, link, keep >> /\ Strikes("reset")
  BY ResetIs
<1>1. PICK w \in Halves(e) :
        /\ Becomes(CutOff(w, e)) /\ dead' = dead \cup Cut(e) /\ Cut(e) \subseteq Socket
        /\ up' = [s \in Socket |-> IF s \in Cut(e) THEN <<>>
                                   ELSE IF e = Event("frame", s) THEN Tail(up[s]) ELSE up[s]]
        /\ departing' = {} /\ verifying' = None /\ UNCHANGED << left, link, keep >> /\ Strikes("reset")
  BY <1>0
<1>2. w \in Worlds /\ Faded(w)
  BY HalvesAre
<1>3. CutOff(w, e) = [w EXCEPT !.rt = [s \in Socket |-> IF s \in Cut(e) THEN "gone" ELSE w.rt[s]],
                               !.mark = w.mark \ Cut(e)]
  BY <1>2 DEF CutOff, Worlds
<1>4. /\ doc' = w.doc /\ rt' = [s \in Socket |-> IF s \in Cut(e) THEN "gone" ELSE w.rt[s]]
      /\ mark' = w.mark \ Cut(e) /\ alarm' = w.alarm /\ down' = w.down /\ told' = w.told
  BY <1>1, <1>2, <1>3 DEF Becomes, Worlds
<1>5. /\ doc' \in Docs /\ rt' \in [Socket -> Runtime] /\ alarm' \in BOOLEAN /\ mark' \subseteq DSocket
      /\ down' \in [DSocket -> Seq(Frames)] /\ told' \in [CSocket -> Told]
  BY <1>2, <1>4 DEF Worlds, Runtime
<1>6. \A s \in mark' : rt'[s] # "gone"
  BY <1>2, <1>4, <1>5, Distinct DEF Faded
<1>7. up' \in [Socket -> Seq(Frames)]
  <2>1. \A s \in Socket : e = Event("frame", s) => Tail(up[s]) \in Seq(Frames)
    <3>1. \A s : Event("frame", s) # Event("none", None) /\ Event("frame", s).kind = "frame"
                 /\ Event("frame", s).s = s
      BY DEF Event
    <3> QED BY <3>1, EventsAre
  <2> QED BY <1>1, <2>1 DEF Sound
<1>8. trouble' \in [Fault -> Nat]
  BY <1>1 DEF Strikes, Sound, Fault
<1> QED BY <1>1, <1>5, <1>6, <1>7, <1>8 DEF Sound

LEMMA SaySound ==
  ASSUME Sound, NEW s \in Socket, NEW m \in Frames, Say(s, m)
  PROVE  up' \in [Socket -> Seq(Frames)]
BY DEF Say, Sound

LEMMA FrameTypes ==
  /\ \A t \in {"arrive", "challenge", "claimed", "probe", "held", "ready"} : Word(t) \in Frames
  /\ \A r \in DSocket \cup {None} : Claim(r) \in Frames
  /\ \A t \in {"open", "closed", "data"}, c \in CSocket : About(t, c) \in Frames
  /\ \A m \in Frames :
       /\ m.t \in {"open", "closed", "data"} => m.s \in CSocket
       /\ m.t = "claim" => m.replaces \in DSocket \cup {None}
       /\ m.t = "close" => m.code \in Code
BY DEF Frames, Word, Claim, About

LEMMA DialSound ==
  ASSUME Sound
  PROVE  /\ \A d \in Daemon, s \in DSocket : Dial(d, s) => Sound'
         /\ \A c \in CSocket : ClientDials(c) => Sound'
PROOF
<1>1. ASSUME NEW s \in Socket, Dialled(s)
      PROVE  /\ rt' \in [Socket -> Runtime] /\ up' \in [Socket -> Seq(Frames)]
             /\ dead' \subseteq Socket /\ left' \subseteq Socket
             /\ rt[s] = "gone" /\ s \notin departing /\ \A x \in Socket : x # s => rt'[x] = rt[x]
  BY <1>1, FrameTypes DEF Dialled, Fresh, Sound, Runtime
<1>2. ASSUME NEW d \in Daemon, NEW s \in DSocket, Dial(d, s) PROVE Sound'
  <2>1. Dialled(s) /\ s \in Socket
    BY <1>2, Distinct DEF Dial
  <2>2. link' \in [Daemon -> [sock : DSocket \cup {None}, claimed : BOOLEAN,
                              sess : SUBSET CSocket, over : SUBSET CSocket]]
    BY <1>2 DEF Dial, NoLink, Sound
  <2>3. down' \in [DSocket -> Seq(Frames)] /\ UNCHANGED <<doc, mark, alarm, departing, verifying, told, keep, trouble>>
    BY <1>2 DEF Dial, Sound
  <2> QED BY <1>1, <2>1, <2>2, <2>3, Distinct DEF Sound
<1>3. ASSUME NEW c \in CSocket, ClientDials(c) PROVE Sound'
  <2>1. Dialled(c) /\ c \in Socket
    BY <1>3, Distinct DEF ClientDials
  <2>2. told' \in [CSocket -> Told]
        /\ UNCHANGED <<doc, mark, alarm, departing, verifying, down, link, keep, trouble>>
    BY <1>3 DEF ClientDials, Told, Sound
  <2> QED BY <1>1, <2>1, <2>2, Distinct DEF Sound
<1> QED BY <1>2, <1>3

LEMMA EndedSound ==
  ASSUME Sound, NEW d \in Daemon, NEW code \in Code \cup {None}, Ended(d, code), link[d].sock # None
  PROVE  /\ keep' \in [Daemon -> DSocket \cup {None}] /\ left' \subseteq Socket
         /\ link' \in [Daemon -> [sock : DSocket \cup {None}, claimed : BOOLEAN,
                                  sess : SUBSET CSocket, over : SUBSET CSocket]]
PROOF
<1>1. link[d].sock \in DSocket
  BY DEF Sound
<1>2. KeepHandover(d, code) \in DSocket \cup {None}
  BY <1>1 DEF KeepHandover, Sound
<1> QED BY <1>1, <1>2, Distinct DEF Ended, NoLink, Sound

LinkType == [sock : DSocket \cup {None}, claimed : BOOLEAN, sess : SUBSET CSocket, over : SUBSET CSocket]

(* What a daemon makes of its link while it keeps it. *)
LEMMA LinkTypes ==
  ASSUME Sound, NEW d \in Daemon
  PROVE  /\ link \in [Daemon -> LinkType] /\ link[d] \in LinkType
         /\ [link[d] EXCEPT !.claimed = TRUE] \in LinkType
         /\ \A c \in CSocket : /\ [link[d] EXCEPT !.sess = @ \cup {c}, !.over = @ \ {c}] \in LinkType
                              /\ [link[d] EXCEPT !.sess = @ \ {c}] \in LinkType
                              /\ [link[d] EXCEPT !.sess = @ \ {c}, !.over = @ \cup {c}] \in LinkType
         /\ \A l \in LinkType : [link EXCEPT ![d] = l] \in [Daemon -> LinkType]
PROOF
<1>1. link \in [Daemon -> LinkType]
  BY DEF Sound, LinkType
<1>2. link[d] \in LinkType
  BY <1>1
<1> DEFINE l == link[d]
<1>3. l \in LinkType
  BY <1>2
<1> HIDE DEF l
<1>4. [l EXCEPT !.claimed = TRUE] \in LinkType
  BY <1>3 DEF LinkType
<1>5. ASSUME NEW c \in CSocket
      PROVE  /\ [l EXCEPT !.sess = @ \cup {c}, !.over = @ \ {c}] \in LinkType
             /\ [l EXCEPT !.sess = @ \ {c}] \in LinkType
             /\ [l EXCEPT !.sess = @ \ {c}, !.over = @ \cup {c}] \in LinkType
  <2>1. [l EXCEPT !.sess = @ \cup {c}, !.over = @ \ {c}] \in LinkType
    BY <1>3 DEF LinkType
  <2>2. [l EXCEPT !.sess = @ \ {c}] \in LinkType
    BY <1>3 DEF LinkType
  <2>3. [l EXCEPT !.sess = @ \ {c}, !.over = @ \cup {c}] \in LinkType
    BY <1>3 DEF LinkType
  <2> QED BY <2>1, <2>2, <2>3
<1>6. \A x \in LinkType : [link EXCEPT ![d] = x] \in [Daemon -> LinkType]
  BY <1>1
<1> QED BY <1>1, <1>3, <1>4, <1>5, <1>6 DEF l

LEMMA DaemonSound ==
  ASSUME Sound, NEW d \in Daemon
  PROVE  /\ Abandon(d) => Sound'
         /\ Hear(d) => Sound'
         /\ ProbeClaim(d) => Sound'
         /\ \A c \in CSocket : Answer(d, c) \/ EndSession(d, c) => Sound'
PROOF
<1>0. link[d].sock # None => link[d].sock \in DSocket /\ link[d].sock \in Socket
  BY Distinct DEF Sound
<1>1. ASSUME Abandon(d) PROVE Sound'
  <2>1. Ended(d, None) /\ link[d].sock # None
    BY <1>1 DEF Abandon
  <2>2. trouble' \in [Fault -> Nat]
    BY <1>1 DEF Abandon, Strikes, Sound, Fault
  <2>3. down' \in [DSocket -> Seq(Frames)] /\ UNCHANGED <<relay, up, dead, told>>
    BY <1>1 DEF Abandon, Sound
  <2> QED BY <2>1, <2>2, <2>3, EndedSound DEF Sound, relay
<1>2. ASSUME Hear(d) PROVE Sound'
  <2> DEFINE s == link[d].sock
             m == Head(down[s])
  <2>1. s \in DSocket /\ s \in Socket /\ s # None /\ m \in Frames /\ Tail(down[s]) \in Seq(Frames)
    BY <1>0, <1>2 DEF Hear, Sound
  <2>2. down' \in [DSocket -> Seq(Frames)] /\ UNCHANGED <<relay, dead, told, trouble>>
    BY <1>2, <2>1 DEF Hear, Sound
  <2>3. LinkHears(d, m)
    BY <1>2 DEF Hear
  <2>4. /\ keep' \in [Daemon -> DSocket \cup {None}] /\ left' \subseteq Socket
        /\ link' \in [Daemon -> LinkType]
        /\ up' \in [Socket -> Seq(Frames)]
    <3> HIDE DEF m
    <3>1. CASE m.t = "challenge"
      <4>1. Say(s, Claim(keep[d])) /\ UNCHANGED <<link, left, keep>>
        BY <2>3, <3>1 DEF LinkHears
      <4> QED BY <2>1, <4>1, SaySound, FrameTypes, LinkTypes DEF Sound
    <3>2. CASE m.t = "claimed"
      <4>1. link' = [link EXCEPT ![d] = [link[d] EXCEPT !.claimed = TRUE]] /\ UNCHANGED <<up, left, keep>>
        BY <2>3, <3>2 DEF LinkHears
      <4>2. link' \in [Daemon -> LinkType]
        BY <4>1, LinkTypes
      <4> QED BY <4>1, <4>2 DEF Sound
    <3>3. CASE m.t = "open"
      <4>1. link' = [link EXCEPT ![d] = [link[d] EXCEPT !.sess = @ \cup {m.s}, !.over = @ \ {m.s}]]
            /\ UNCHANGED <<up, left, keep>> /\ m.s \in CSocket
        BY <2>1, <2>3, <3>3, FrameTypes DEF LinkHears
      <4>2. link' \in [Daemon -> LinkType]
        BY <4>1, LinkTypes
      <4> QED BY <4>1, <4>2 DEF Sound
    <3>4. CASE m.t = "closed"
      <4>1. link' = [link EXCEPT ![d] = [link[d] EXCEPT !.sess = @ \ {m.s}]] /\ UNCHANGED <<up, left, keep>>
        BY <2>3, <3>4 DEF LinkHears
      <4>2. m.s \in CSocket
        BY <2>1, <3>4, FrameTypes
      <4>3. link' \in [Daemon -> LinkType]
        BY <4>1, <4>2, LinkTypes
      <4> QED BY <4>1, <4>3 DEF Sound
    <3>5. CASE m.t = "held" \/ (m.t = "data" /\ m.s \in link[d].sess \cup link[d].over)
      <4>1. UNCHANGED <<up, left, keep, link>>
        BY <2>3, <3>5 DEF LinkHears
      <4> QED BY <4>1, LinkTypes DEF Sound
    <3>6. CASE /\ m.t \notin {"challenge", "claimed", "open", "closed", "held"}
               /\ ~(m.t = "data" /\ m.s \in link[d].sess \cup link[d].over)
      <4>1. PICK code \in Code : Ended(d, code) /\ UNCHANGED up
        <5>1. CASE m.t = "close"
          BY <2>1, <2>3, <3>6, <5>1, FrameTypes DEF LinkHears
        <5>2. CASE m.t # "close"
          BY <2>3, <3>6, <5>2 DEF LinkHears, Code
        <5> QED BY <5>1, <5>2
      <4>2. /\ keep' \in [Daemon -> DSocket \cup {None}] /\ left' \subseteq Socket
            /\ link' \in [Daemon -> LinkType]
        BY <2>1, <4>1, EndedSound DEF LinkType
      <4> QED BY <4>1, <4>2 DEF Sound
    <3> QED BY <3>1, <3>2, <3>3, <3>4, <3>5, <3>6
  <2> QED BY <2>2, <2>4 DEF Sound, relay, LinkType
<1>3. ASSUME ProbeClaim(d) PROVE Sound'
  <2>1. link[d].sock # None /\ Say(link[d].sock, Word("probe"))
        /\ UNCHANGED <<relay, down, dead, left, ends, trouble>>
    BY <1>3 DEF ProbeClaim, Sends
  <2> QED BY <1>0, <2>1, SaySound, FrameTypes DEF Sound, relay, ends
<1>4. ASSUME NEW c \in CSocket, Answer(d, c) PROVE Sound'
  <2>1. link[d].sock # None /\ Say(link[d].sock, About("data", c))
        /\ UNCHANGED <<relay, down, dead, left, ends, trouble>>
    BY <1>4 DEF Answer, Sends
  <2> QED BY <1>0, <2>1, SaySound, FrameTypes DEF Sound, relay, ends
<1>5. ASSUME NEW c \in CSocket, EndSession(d, c) PROVE Sound'
  <2>1. link[d].sock # None /\ Say(link[d].sock, About("closed", c))
        /\ UNCHANGED <<relay, down, dead, left, told, keep, trouble>>
    BY <1>5 DEF EndSession, Sends
  <2>2. link' = [link EXCEPT ![d] = [link[d] EXCEPT !.sess = @ \ {c}, !.over = @ \cup {c}]]
    BY <1>5 DEF EndSession
  <2>3. link' \in [Daemon -> LinkType]
    BY <2>2, LinkTypes
  <2> QED BY <1>0, <2>1, <2>3, SaySound, FrameTypes DEF Sound, relay, LinkType
<1> QED BY <1>1, <1>2, <1>3, <1>4, <1>5

LEMMA ClientSound ==
  ASSUME Sound, NEW c \in CSocket, ClientSends(c) \/ ClientLeaves(c)
  PROVE  Sound'
PROOF
<1>1. CASE ClientSends(c)
  <2>1. PICK t \in {"data", "closed"} : Say(c, About(t, c))
    BY <1>1 DEF ClientSends
  <2>2. UNCHANGED <<relay, down, dead, left, ends, trouble>>
    BY <1>1 DEF ClientSends
  <2> QED BY <2>1, <2>2, SaySound, FrameTypes, Distinct DEF Sound, relay, ends
<1>2. CASE ClientLeaves(c)
  BY <1>2, Distinct DEF ClientLeaves, Sound, relay, ends
<1> QED BY <1>1, <1>2

LEMMA SoundInit == Init => Sound
PROOF
<1> SUFFICES ASSUME Init PROVE Sound
  OBVIOUS
<1>1. /\ doc \in Docs /\ rt \in [Socket -> Runtime] /\ alarm \in BOOLEAN
      /\ mark \subseteq DSocket /\ \A s \in mark : rt[s] # "gone"
      /\ departing \subseteq Socket /\ \A s \in departing : rt[s] = "reported"
      /\ verifying = None
  BY DEF Init, EmptyDoc, Docs, Runtime
<1>2. up \in [Socket -> Seq(Frames)] /\ down \in [DSocket -> Seq(Frames)]
  BY DEF Init
<1>3. /\ dead \subseteq Socket /\ left \subseteq Socket /\ told \in [CSocket -> Told]
      /\ keep \in [Daemon -> DSocket \cup {None}]
  BY DEF Init, Told
<1>4. NoLink \in [sock : DSocket \cup {None}, claimed : BOOLEAN, sess : SUBSET CSocket, over : SUBSET CSocket]
  BY DEF NoLink
<1>5. link \in [Daemon -> [sock : DSocket \cup {None}, claimed : BOOLEAN,
                          sess : SUBSET CSocket, over : SUBSET CSocket]]
  BY <1>4 DEF Init
<1>6. trouble \in [Fault -> Nat]
  BY DEF Init
<1> QED BY <1>1, <1>2, <1>3, <1>5, <1>6 DEF Sound

LEMMA SoundNext ==
  ASSUME Sound, [Next]_vars
  PROVE  Sound'
PROOF
<1>1. CASE UNCHANGED vars
  BY <1>1 DEF vars, relay, wire, ends, Sound
<1>2. CASE Forget
  BY <1>2 DEF Forget, Strikes, Sound, EmptyDoc, Docs, Fault, wire, ends
<1>3. CASE Next
  BY <1>2, <1>3, HandleSound, RuntimeSound, ResetSound, DialSound, DaemonSound, ClientSound DEF Next
<1> QED BY <1>1, <1>3

(* Every variable holds a value of its kind: the document names sockets of the
   right side, and only sockets the runtime lists carry a claim. *)
THEOREM RendezvousTyped == Spec => []TypeOK
PROOF
<1>1. Spec => []Sound
  BY SoundInit, SoundNext, PTL DEF Spec
<1>2. Sound => TypeOK
  BY DEF Sound, TypeOK, Docs, Runtime, Told, Listed, Socket
<1> QED BY <1>1, <1>2, PTL

-----------------------------------------------------------------------------
(* Until the relay is reset or its document lost. *)

Unreset == trouble["reset"] = 0 /\ trouble["forget"] = 0

(* A step after which neither has happened is a handler, or leaves what the
   document and the alarm say, and at most takes claims away. *)
LEMMA Undisturbed ==
  ASSUME Sound, [Next]_vars, Unreset'
  PROVE  /\ Unreset
         /\ \/ \E e \in Events : Handle(e)
            \/ UNCHANGED <<doc, alarm, verifying>> /\ mark' \subseteq mark
PROOF
<1>1. ASSUME NEW k \in Fault, Strikes(k) PROVE Unreset /\ k \notin {"reset", "forget"}
  BY <1>1 DEF Strikes, Unreset, Sound, Fault
<1>2. CASE UNCHANGED vars
  BY <1>2 DEF vars, relay, Unreset
<1>3. CASE \E e \in Events : Handle(e)
  BY <1>3 DEF Handle, Unreset
<1>4. ASSUME NEW s \in Socket, Departed(s) \/ Delist(s)
      PROVE  UNCHANGED <<doc, alarm, verifying, trouble>> /\ mark' \subseteq mark
  BY <1>4 DEF Departed, Delist
<1>5. ASSUME NEW s \in Socket, Silence(s) PROVE UNCHANGED relay /\ Unreset
  BY <1>1, <1>5 DEF Silence, Fault
<1>6. ~Reset /\ ~Forget
  BY <1>1 DEF Reset, Forget, Fault
<1>7. ASSUME NEW d \in Daemon, NEW s \in DSocket, Dial(d, s)
      PROVE  UNCHANGED <<doc, alarm, verifying, mark, trouble>>
  BY <1>7 DEF Dial
<1>8. ASSUME NEW d \in Daemon, Abandon(d) PROVE UNCHANGED relay /\ Unreset
  BY <1>1, <1>8 DEF Abandon, Fault, Unreset
<1>9. ASSUME NEW d \in Daemon, Hear(d) \/ ProbeClaim(d) PROVE UNCHANGED <<relay, trouble>>
  BY <1>9 DEF Hear, ProbeClaim
<1>10. ASSUME NEW d \in Daemon, NEW c \in CSocket, Answer(d, c) \/ EndSession(d, c)
       PROVE  UNCHANGED <<relay, trouble>>
  BY <1>10 DEF Answer, EndSession
<1>11. ASSUME NEW c \in CSocket, ClientDials(c) \/ ClientSends(c) \/ ClientLeaves(c)
       PROVE  UNCHANGED <<doc, alarm, verifying, mark, trouble>>
  BY <1>11 DEF ClientDials, ClientSends, ClientLeaves, relay
<1> QED BY <1>2, <1>3, <1>4, <1>5, <1>6, <1>7, <1>8, <1>9, <1>10, <1>11 DEF Next, Unreset, relay

-----------------------------------------------------------------------------
(* The sweep. *)

LEMMA SweepNext ==
  ASSUME Sound, SweepComing, [Next]_vars
  PROVE  SweepComing'
PROOF
<1> SUFFICES ASSUME Unreset', Occupied(doc')  PROVE  alarm'
  BY DEF SweepComing, Unreset, Occupied
<1>1. Unreset /\ (Occupied(doc) => alarm)
  BY Undisturbed DEF SweepComing, Unreset
<1>2. CASE UNCHANGED <<doc, alarm>>
  BY <1>1, <1>2
<1>3. ASSUME NEW e \in Events, Handle(e) PROVE alarm'
  <2> DEFINE w == Seen(Due(e), e)
             st == Done(Due(e), e)
  <2>1. /\ w \in Worlds /\ Sane(w.doc, st) /\ (e.kind = "alarm" => st.alarm = Occupied(st.doc))
        /\ doc' = st.doc /\ alarm' = (w.alarm \/ st.alarm)
    BY <1>3, HandleIs
  <2>2. CASE e.kind = "alarm"
    BY <2>1, <2>2
  <2>3. CASE e.kind # "alarm" /\ ~Occupied(w.doc)
    BY <2>1, <2>3 DEF Sane, AsksForSweep
  <2>4. CASE e.kind # "alarm" /\ Occupied(w.doc)
    <3>1. OfNow(Due(e)) /\ Due(e).alarm = alarm
      BY <2>4, WorldIs DEF Sound
    <3>2. CASE w = Due(e)
      BY <1>1, <2>1, <2>4, <3>1, <3>2 DEF OfNow
    <3>3. CASE w = ApplyStep(Due(e), Reconcile(doc)) /\ Reconcile(doc) \in Steps
      <4>1. w.doc = Reconcile(doc).doc /\ w.alarm = (alarm \/ Reconcile(doc).alarm)
        BY <3>1, <3>3, ApplyStepIs DEF OfNow
      <4>2. Reconcile(doc).alarm = Occupied(Reconcile(doc).doc)
        BY ReconcileIsSane DEF Sound
      <4> HIDE DEF w, st
      <4> QED BY <2>1, <2>4, <4>1, <4>2
    <3> QED BY <3>1, <3>2, <3>3, SeenIs
  <2> QED BY <2>2, <2>3, <2>4
<1> QED BY <1>2, <1>3, Undisturbed

(* While the document holds anything a sweep is scheduled that would clear it,
   as long as the object was not reset and the document not lost. *)
THEOREM SweepIsComing == Spec => []SweepComing
PROOF
<1>1. Init => SweepComing
  BY DEF Init, SweepComing, Occupied, EmptyDoc
<1> QED BY <1>1, SoundInit, SoundNext, SweepNext, PTL DEF Spec

-----------------------------------------------------------------------------
(* The claim. *)

(* Every claim is the slot's; and while a claim is being checked an empty slot
   means that no socket carries one. *)
ClaimIsSlots ==
  /\ doc.slot # None => mark \subseteq {doc.slot}
  /\ \E x \in DSocket \cup {None} : mark \subseteq {x}
  /\ verifying # None => mark \subseteq {doc.slot}

(* A document that agrees with the sockets, or was made to: the claims are the
   slot's. *)
LEMMA Agreed ==
  ASSUME Sound, NEW w, OfNow(w), NEW e, e.kind \in {"frame", "alarm"}
  PROVE  Seen(w, e).mark \subseteq {Seen(w, e).doc.slot}
PROOF
<1>1. None \notin mark
  BY Distinct DEF Sound
<1>2. CASE ~Reconciles(e) /\ Seen(w, e) = w
  <2>1. ~Disagree
    BY <1>2 DEF Reconciles
  <2> QED BY <1>2, <2>1 DEF Disagree, OfNow
<1>3. CASE Seen(w, e) = ApplyStep(w, Reconcile(doc)) /\ Reconcile(doc) \in Steps
  <2> DEFINE st == Reconcile(doc)
  <2>1. mark \ {st.doc.slot} \subseteq Shutting(st)
    BY ReconcileIsSane DEF Sound
  <2> HIDE DEF st
  <2>2. w.mark = mark /\ w \in Worlds
    BY DEF OfNow
  <2>3. ApplyStep(w, st).mark = Marking(w, st) \ Shutting(st) /\ ApplyStep(w, st).doc = st.doc
    BY <1>3, <2>2, ApplyStepIs DEF st
  <2> QED BY <1>3, <2>1, <2>2, <2>3 DEF Marking, st
<1> QED BY <1>2, <1>3, SeenIs

LEMMA ClaimNext ==
  ASSUME Sound, Unreset => ClaimIsSlots, [Next]_vars, Unreset'
  PROVE  ClaimIsSlots'
PROOF
<1>1. ClaimIsSlots
  BY Undisturbed
<1>2. CASE UNCHANGED <<doc, verifying>> /\ mark' \subseteq mark
  BY <1>1, <1>2 DEF ClaimIsSlots
<1>3. ASSUME NEW e \in Events, Handle(e) PROVE ClaimIsSlots'
  <2> DEFINE w == Seen(Due(e), e)
             st == Done(Due(e), e)
  <2>1. /\ w \in Worlds /\ Moved(w.doc, e, st)
        /\ doc' = st.doc /\ mark' = Marking(w, st) \ Shutting(st)
    BY <1>3, HandleIs
  <2>2. /\ e.kind \in {"frame", "alarm"} => w.mark \subseteq {w.doc.slot}
        /\ e.kind \in {"closed", "verdict"} => w.doc = doc /\ w.mark = mark
    <3>1. e.kind \in {"closed", "verdict"} => ~Reconciles(e)
      BY DEF Reconciles
    <3> QED BY <3>1, WorldIs, SeenIs, Agreed DEF OfNow
  <2>3. doc' \in Docs /\ mark' \subseteq DSocket
    <3>1. Sound'
      BY <1>3, HandleSound
    <3> QED BY <3>1 DEF Sound
  <2>4. mark' \subseteq w.mark \cup {doc'.slot} /\ mark' \cap Shutting(st) = {} /\ None \notin mark'
    BY <2>1, <2>3, Distinct DEF Marking
  <2>5. verifying' # None => e.kind = "frame"
    BY <1>3 DEF Handle, IsClaim
  <2>6. w.doc.slot \in DSocket \cup {None} /\ doc'.slot \in DSocket \cup {None}
    BY <2>1, <2>3 DEF Worlds, Docs
  <2>7. CASE e.kind = "frame"
    BY <2>1, <2>2, <2>4, <2>6, <2>7 DEF ClaimIsSlots, Moved
  <2>8. CASE e.kind = "alarm"
    BY <2>1, <2>2, <2>4, <2>5, <2>6, <2>8 DEF ClaimIsSlots, Moved
  <2>9. CASE e.kind = "closed"
    BY <1>1, <2>1, <2>2, <2>4, <2>5, <2>6, <2>9 DEF ClaimIsSlots, Moved
  <2>10. CASE e.kind = "verdict"
    <3>1. mark \subseteq {doc.slot} /\ verifying' = None
      BY <1>1, <2>5, <2>10, EventsAre DEF ClaimIsSlots
    <3>2. mark' \subseteq {doc'.slot}
      BY <2>1, <2>2, <2>4, <2>10, <3>1 DEF Moved
    <3> QED BY <2>6, <3>1, <3>2 DEF ClaimIsSlots
  <2> QED BY <2>7, <2>8, <2>9, <2>10, EventsAre
<1> QED BY <1>2, <1>3, Undisturbed

(* As long as the object was not reset and the document not lost, at most one
   socket carries the claim, and it is the slot's whenever the slot names one. *)
THEOREM ClaimIsOne == Spec => []OneClaim
PROOF
<1>1. Init => (Unreset => ClaimIsSlots)
  BY DEF Init, ClaimIsSlots, EmptyDoc
<1>2. Sound /\ (Unreset => ClaimIsSlots) /\ [Next]_vars => (Unreset => ClaimIsSlots)'
  BY ClaimNext
<1>3. Sound /\ (Unreset => ClaimIsSlots) => OneClaim
  <2> SUFFICES ASSUME ClaimIsSlots PROVE Cardinality(mark) <= 1 /\ (doc.slot # None => mark \subseteq {doc.slot})
    BY DEF OneClaim, Unreset
  <2>1. PICK x \in DSocket \cup {None} : mark \subseteq {x}
    BY DEF ClaimIsSlots
  <2>2. mark = {} \/ mark = {x}
    BY <2>1
  <2>3. Cardinality({}) = 0 /\ Cardinality({x}) = 1
    BY FS_Singleton, FS_EmptySet
  <2> QED BY <2>2, <2>3 DEF ClaimIsSlots
<1> QED BY <1>1, <1>2, <1>3, SoundInit, SoundNext, PTL DEF Spec

-----------------------------------------------------------------------------
(* The slot of a serving daemon.  What supersedes is a claim that replaces the
   slot's socket; a token is offered only once the link it was issued on is over. *)

Tokens(q) == {x \in DSocket : \E i \in 1 .. Len(q) : q[i].t = "claim" /\ q[i].replaces = x}
Offered == {x \in DSocket : \/ \E s \in Socket : x \in Tokens(up[s])
                            \/ verifying # None /\ verifying.replaces = x}
TokensAreSpent ==
  /\ \A d \in Daemon : link[d].sock # None => Owner[link[d].sock] = d
  /\ \A d \in Daemon : keep[d] # None => Owner[keep[d]] = d /\ keep[d] # link[d].sock
  /\ \A x \in Offered : link[Owner[x]].sock # x

LEMMA TokensOf ==
  ASSUME NEW q \in Seq(Frames)
  PROVE  /\ Tokens(<<>>) = {}
         /\ q # <<>> => /\ Tokens(Tail(q)) \subseteq Tokens(q)
                        /\ \A x \in DSocket : Head(q).t = "claim" /\ Head(q).replaces = x => x \in Tokens(q)
         /\ \A m \in Frames : Tokens(Append(q, m)) \subseteq
                                Tokens(q) \cup {x \in DSocket : m.t = "claim" /\ m.replaces = x}
PROOF
<1>1. Tokens(<<>>) = {}
  BY DEF Tokens
<1>2. ASSUME q # <<>>
      PROVE  /\ Tokens(Tail(q)) \subseteq Tokens(q)
             /\ \A x \in DSocket : Head(q).t = "claim" /\ Head(q).replaces = x => x \in Tokens(q)
  <2>1. \A i \in 1 .. Len(Tail(q)) : Tail(q)[i] = q[i + 1] /\ i + 1 \in 1 .. Len(q)
    BY <1>2
  <2>2. Head(q) = q[1] /\ 1 \in 1 .. Len(q)
    BY <1>2
  <2>3. Tokens(Tail(q)) \subseteq Tokens(q)
    BY <2>1 DEF Tokens
  <2>4. \A x \in DSocket : Head(q).t = "claim" /\ Head(q).replaces = x => x \in Tokens(q)
    BY <2>2 DEF Tokens
  <2> QED BY <2>3, <2>4
<1>3. ASSUME NEW m \in Frames
      PROVE  Tokens(Append(q, m)) \subseteq Tokens(q) \cup {x \in DSocket : m.t = "claim" /\ m.replaces = x}
  <2>1. \A i \in 1 .. Len(Append(q, m)) : \/ Append(q, m)[i] = m
                                          \/ i \in 1 .. Len(q) /\ Append(q, m)[i] = q[i]
    OBVIOUS
  <2> QED BY <2>1 DEF Tokens
<1> QED BY <1>1, <1>2, <1>3

(* Frames that say nothing of a token leave what is offered as it is. *)
LEMMA NothingOffered ==
  ASSUME Sound, NEW s \in Socket, NEW m \in Frames, Say(s, m), UNCHANGED verifying
  PROVE  Offered' \subseteq Offered \cup {x \in DSocket : m.t = "claim" /\ m.replaces = x}
PROOF
<1>1. \A x \in Socket : up'[x] = IF x = s THEN Append(up[s], m) ELSE up[x]
  BY DEF Say, Sound
<1>2. Tokens(Append(up[s], m)) \subseteq Tokens(up[s]) \cup {x \in DSocket : m.t = "claim" /\ m.replaces = x}
  BY TokensOf DEF Sound
<1>3. \A x \in Socket : Tokens(up'[x]) \subseteq Tokens(up[x]) \cup {y \in DSocket : m.t = "claim" /\ m.replaces = y}
  BY <1>1, <1>2
<1>4. \A x \in Offered' : (\E y \in Socket : x \in Tokens(up'[y])) \/ (verifying # None /\ verifying.replaces = x)
  BY DEF Offered
<1> QED BY <1>3, <1>4 DEF Offered

(* A change that only takes frames away takes offers away. *)
LEMMA FewerOffered ==
  ASSUME Sound, \A s \in Socket : up'[s] \in {up[s], <<>>} \/ (up[s] # <<>> /\ up'[s] = Tail(up[s])),
         verifying' = None \/ verifying' = verifying \/ (verifying' # None /\ verifying'.replaces \notin DSocket \ Offered)
  PROVE  Offered' \subseteq Offered
PROOF
<1>1. \A s \in Socket : Tokens(up'[s]) \subseteq Tokens(up[s])
  BY TokensOf DEF Sound
<1>2. \A x \in Offered' : x \in DSocket /\ ((\E y \in Socket : x \in Tokens(up'[y])) \/ (verifying' # None /\ verifying'.replaces = x))
  BY DEF Offered
<1> QED BY <1>1, <1>2 DEF Offered

LEMMA RelayOffersNothing ==
  ASSUME Sound, \/ \E e \in Events : Handle(e)
                \/ \E s \in Socket : Departed(s) \/ Delist(s) \/ Silence(s)
                \/ Reset \/ Forget
  PROVE  Offered' \subseteq Offered /\ UNCHANGED <<link, keep>>
PROOF
<1>1. ASSUME NEW e \in Events, Handle(e) PROVE Offered' \subseteq Offered /\ UNCHANGED <<link, keep>>
  <2>1. UNCHANGED <<link, keep>>
    BY <1>1 DEF Handle
  <2>2. \A s \in Socket : up'[s] = up[s] \/ (up[s] # <<>> /\ up'[s] = Tail(up[s]))
    <3>1. CASE e.kind = "frame"
      BY <1>1, <3>1, EventsAre DEF Handle, Sound
    <3>2. CASE e.kind # "frame"
      BY <1>1, <3>2 DEF Handle
    <3> QED BY <3>1, <3>2
  <2>3. verifying' = None \/ verifying'.replaces \notin DSocket \ Offered
    <3>1. CASE \E w \in {Before(World, e)} : IsClaim(w.doc, e)
      <4>1. e.kind = "frame" /\ Head(up[e.s]).t = "claim"
        BY <3>1 DEF IsClaim
      <4>2. verifying' = [sock |-> e.s, replaces |-> Head(up[e.s]).replaces]
        BY <1>1, <3>1 DEF Handle
      <4>3. e.s \in Socket /\ up[e.s] # <<>> /\ up[e.s] \in Seq(Frames)
        BY <4>1, EventsAre DEF Sound
      <4>4. Head(up[e.s]).replaces \in DSocket => Head(up[e.s]).replaces \in Tokens(up[e.s])
        BY <4>1, <4>3, TokensOf
      <4> QED BY <4>2, <4>3, <4>4 DEF Offered
    <3>2. CASE ~\E w \in {Before(World, e)} : IsClaim(w.doc, e)
      BY <1>1, <3>2 DEF Handle
    <3> QED BY <3>1, <3>2
  <2> QED BY <2>1, <2>2, <2>3, FewerOffered
<1>2. ASSUME NEW s \in Socket, Departed(s) \/ Delist(s) \/ Silence(s)
      PROVE  Offered' \subseteq Offered /\ UNCHANGED <<link, keep>>
  <2>1. UNCHANGED <<link, keep, verifying>>
    BY <1>2 DEF Departed, Delist, Silence, ends, relay
  <2>2. \A x \in Socket : up'[x] \in {up[x], <<>>}
    BY <1>2 DEF Departed, Delist, Silence, wire, Sound
  <2> QED BY <2>1, <2>2, FewerOffered
<1>3. CASE Reset
  <2>1. PICK e \in Events \cup {Event("none", None)} :
          /\ up' = [s \in Socket |-> IF s \in Cut(e) THEN <<>>
                                     ELSE IF e = Event("frame", s) THEN Tail(up[s]) ELSE up[s]]
          /\ verifying' = None /\ UNCHANGED << left, link, keep >>
    BY <1>3, ResetIs
  <2>2. \A s \in Socket : e = Event("frame", s) => up[s] # <<>>
    <3>1. \A s : Event("frame", s) # Event("none", None) /\ Event("frame", s).kind = "frame"
                 /\ Event("frame", s).s = s
      BY DEF Event
    <3> QED BY <3>1, EventsAre
  <2> QED BY <2>1, <2>2, FewerOffered
<1>4. CASE Forget
  BY <1>4, FewerOffered DEF Forget, wire, ends
<1> QED BY <1>1, <1>2, <1>3, <1>4

LEMMA ClientsOfferNothing ==
  ASSUME Sound, NEW c \in CSocket, ClientSends(c) \/ ClientLeaves(c)
  PROVE  Offered' \subseteq Offered /\ UNCHANGED <<link, keep>>
PROOF
<1>1. CASE ClientLeaves(c)
  BY <1>1, FewerOffered DEF ClientLeaves, ends, relay
<1>2. CASE ClientSends(c)
  <2>1. PICK t \in {"data", "closed"} : Say(c, About(t, c))
    BY <1>2 DEF ClientSends
  <2>2. About(t, c) \in Frames /\ About(t, c).t # "claim"
    BY FrameTypes, Distinct
  <2>3. UNCHANGED <<link, keep, verifying>>
    BY <1>2 DEF ClientSends, relay, ends
  <2> QED BY <2>1, <2>2, <2>3, NothingOffered, Distinct
<1> QED BY <1>1, <1>2

(* A fresh socket's token is nowhere. *)
LEMMA FreshIsUnoffered ==
  ASSUME Sound, NEW s \in Socket, Dialled(s), UNCHANGED verifying
  PROVE  s \notin Offered /\ Offered' \subseteq Offered /\ \A d \in Daemon : keep[d] # s
PROOF
<1>1. Fresh(s) /\ up' = [up EXCEPT ![s] = <<Word("arrive")>>]
  BY DEF Dialled
<1>2. \A x \in Socket : \A i \in 1 .. Len(up[x]) : up[x][i] \in InFlight
  <2> SUFFICES ASSUME NEW x \in Socket, NEW i \in 1 .. Len(up[x]) PROVE up[x][i] \in InFlight
    OBVIOUS
  <2>1. DOMAIN up[x] = 1 .. Len(up[x])
    BY DEF Sound
  <2>2. up[x][i] \in Within(up[x])
    BY <2>1 DEF Within
  <2>3. up[x] \in {up[y] : y \in Socket} \cup {down[y] : y \in DSocket}
    OBVIOUS
  <2> QED BY <2>2, <2>3 DEF InFlight
<1>3. \A m \in Frames : m.t = "claim" => "replaces" \in DOMAIN m
  BY DEF Frames
<1>4. \A x \in Socket : s \notin Tokens(up[x])
  <2> SUFFICES ASSUME NEW x \in Socket, NEW i \in 1 .. Len(up[x]), up[x][i].t = "claim", up[x][i].replaces = s
               PROVE  FALSE
    BY DEF Tokens
  <2>1. up[x][i] \in Frames
    BY DEF Sound
  <2>2. up[x][i] \in InFlight
    BY <1>2
  <2> QED BY <1>1, <1>3, <2>1, <2>2 DEF Fresh
<1>5. verifying # None => verifying.replaces # s
  BY <1>1 DEF Fresh
<1>6. s \notin Offered
  BY <1>4, <1>5 DEF Offered
<1>7. Tokens(<<Word("arrive")>>) = {}
  <2>1. \A i \in 1 .. Len(<<Word("arrive")>>) : <<Word("arrive")>>[i].t = "arrive"
    BY Distinct
  <2> QED BY <2>1 DEF Tokens
<1>8. \A x \in Socket : Tokens(up'[x]) \subseteq Tokens(up[x])
  BY <1>1, <1>7 DEF Sound
<1>9. Offered' \subseteq Offered
  <2>1. \A x \in Offered' : x \in DSocket /\ ((\E y \in Socket : x \in Tokens(up'[y]))
                                            \/ (verifying # None /\ verifying.replaces = x))
    BY DEF Offered
  <2> QED BY <1>8, <2>1 DEF Offered
<1> QED BY <1>1, <1>6, <1>9 DEF Fresh

LEMMA SameLinks ==
  ASSUME TokensAreSpent, Offered' \subseteq Offered, UNCHANGED keep,
         \A d \in Daemon : link'[d].sock = link[d].sock
  PROVE  TokensAreSpent'
BY RendezvousAssumption DEF TokensAreSpent, Offered

LEMMA LinkIsOver ==
  ASSUME Sound, TokensAreSpent, NEW d \in Daemon, link[d].sock # None,
         NEW code, Ended(d, code), Offered' \subseteq Offered
  PROVE  TokensAreSpent'
PROOF
<1>1. \A x \in Daemon : /\ link'[x].sock = IF x = d THEN None ELSE link[x].sock
                        /\ keep'[x] = IF x = d THEN KeepHandover(d, code) ELSE keep[x]
  BY DEF Ended, NoLink, Sound
<1>2. KeepHandover(d, code) \in {link[d].sock, None, keep[d]}
  BY DEF KeepHandover
<1>3. \A x \in Offered' : x # None /\ Owner[x] \in Daemon /\ link[Owner[x]].sock # x
  BY RendezvousAssumption DEF TokensAreSpent, Offered
<1> QED BY <1>1, <1>2, <1>3 DEF TokensAreSpent

LEMMA TokensNext ==
  ASSUME Sound, TokensAreSpent, [Next]_vars
  PROVE  TokensAreSpent'
PROOF
<1>1. CASE UNCHANGED vars
  BY <1>1, SameLinks, FewerOffered DEF vars, relay, wire, ends
<1>2. CASE \/ \E e \in Events : Handle(e)
           \/ \E s \in Socket : Departed(s) \/ Delist(s) \/ Silence(s)
           \/ Reset \/ Forget
  BY <1>2, RelayOffersNothing, SameLinks
<1>3. ASSUME NEW c \in CSocket, ClientDials(c) PROVE TokensAreSpent'
  BY <1>3, FreshIsUnoffered, SameLinks, Distinct DEF ClientDials
<1>4. ASSUME NEW c \in CSocket, ClientSends(c) \/ ClientLeaves(c) PROVE TokensAreSpent'
  BY <1>4, ClientsOfferNothing, SameLinks
<1>5. ASSUME NEW d \in Daemon, NEW s \in DSocket, Dial(d, s) PROVE TokensAreSpent'
  <2>1. Dialled(s) /\ UNCHANGED <<verifying, keep>> /\ Owner[s] = d
    BY <1>5 DEF Dial
  <2>2. s \notin Offered /\ Offered' \subseteq Offered /\ \A x \in Daemon : keep[x] # s
    BY <2>1, FreshIsUnoffered, Distinct
  <2>3. \A x \in Daemon : link'[x].sock = IF x = d THEN s ELSE link[x].sock
    BY <1>5 DEF Dial, NoLink, Sound
  <2>4. \A x \in Offered' : Owner[x] \in Daemon /\ x # s
    BY <2>2, RendezvousAssumption DEF Offered
  <2> QED BY <2>1, <2>2, <2>3, <2>4 DEF TokensAreSpent
<1>6. ASSUME NEW d \in Daemon, Abandon(d) PROVE TokensAreSpent'
  <2>1. link[d].sock # None /\ Ended(d, None) /\ UNCHANGED <<up, verifying>>
    BY <1>6 DEF Abandon, relay
  <2> QED BY <2>1, FewerOffered, LinkIsOver
<1>7. ASSUME NEW d \in Daemon, Hear(d) PROVE TokensAreSpent'
  <2> DEFINE s == link[d].sock
             m == Head(down[s])
  <2>1. s \in DSocket /\ s \in Socket /\ s # None /\ UNCHANGED verifying /\ LinkHears(d, m)
    BY <1>7, Distinct DEF Hear, Sound, relay
  <2> HIDE DEF m
  <2>2. CASE m.t = "challenge"
    <3>1. Say(s, Claim(keep[d])) /\ UNCHANGED <<link, keep>>
      BY <2>1, <2>2 DEF LinkHears
    <3>2. Claim(keep[d]) \in Frames /\ Claim(keep[d]).replaces = keep[d]
      BY FrameTypes DEF Sound, Claim
    <3>3. Offered' \subseteq Offered \cup {x \in DSocket : keep[d] = x}
      BY <2>1, <3>1, <3>2, NothingOffered
    <3>4. \A x \in DSocket : keep[d] = x => Owner[x] = d /\ link[d].sock # x
      BY Distinct DEF TokensAreSpent
    <3> QED BY <3>1, <3>3, <3>4 DEF TokensAreSpent
  <2>3. CASE m.t \in {"claimed", "open", "closed", "held"} \/ (m.t = "data" /\ m.s \in link[d].sess \cup link[d].over)
    <3>1. UNCHANGED <<up, keep>> /\ \A x \in Daemon : link'[x].sock = link[x].sock
      <4>1. CASE m.t = "claimed"
        <5> DEFINE l == [link[d] EXCEPT !.claimed = TRUE]
        <5>1. link' = [link EXCEPT ![d] = l] /\ UNCHANGED <<up, keep>>
          BY <2>1, <4>1 DEF LinkHears
        <5>2. l.sock = link[d].sock
          BY DEF Sound
        <5> HIDE DEF l
        <5> QED BY <5>1, <5>2 DEF Sound
      <4>2. CASE m.t = "open"
        <5> DEFINE l == [link[d] EXCEPT !.sess = @ \cup {m.s}, !.over = @ \ {m.s}]
        <5>1. link' = [link EXCEPT ![d] = l] /\ UNCHANGED <<up, keep>>
          BY <2>1, <4>2 DEF LinkHears
        <5>2. l.sock = link[d].sock
          BY DEF Sound
        <5> HIDE DEF l
        <5> QED BY <5>1, <5>2 DEF Sound
      <4>3. CASE m.t = "closed"
        <5> DEFINE l == [link[d] EXCEPT !.sess = @ \ {m.s}]
        <5>1. link' = [link EXCEPT ![d] = l] /\ UNCHANGED <<up, keep>>
          BY <2>1, <4>3 DEF LinkHears
        <5>2. l.sock = link[d].sock
          BY DEF Sound
        <5> HIDE DEF l
        <5> QED BY <5>1, <5>2 DEF Sound
      <4>4. CASE m.t = "held" \/ (m.t = "data" /\ m.s \in link[d].sess \cup link[d].over)
        BY <2>1, <4>4 DEF LinkHears
      <4> QED BY <2>3, <4>1, <4>2, <4>3, <4>4
    <3> QED BY <2>1, <3>1, FewerOffered, SameLinks
  <2>4. CASE /\ m.t \notin {"challenge", "claimed", "open", "closed", "held"}
             /\ ~(m.t = "data" /\ m.s \in link[d].sess \cup link[d].over)
    <3>1. PICK code : Ended(d, code) /\ UNCHANGED up
      BY <2>1, <2>4 DEF LinkHears
    <3>2. Offered' \subseteq Offered
      BY <2>1, <3>1, FewerOffered
    <3> QED BY <2>1, <3>1, <3>2, LinkIsOver
  <2> QED BY <2>2, <2>3, <2>4
<1>8. ASSUME NEW d \in Daemon, NEW m \in Frames, m.t # "claim", link[d].sock # None, Say(link[d].sock, m),
             UNCHANGED <<relay, keep>>, \A x \in Daemon : link'[x].sock = link[x].sock
      PROVE  TokensAreSpent'
  BY <1>8, NothingOffered, SameLinks, Distinct DEF Sound, relay
<1>9. ASSUME NEW d \in Daemon, ProbeClaim(d) PROVE TokensAreSpent'
  BY <1>8, <1>9, FrameTypes, Distinct DEF ProbeClaim, Sends, ends
<1>10. ASSUME NEW d \in Daemon, NEW c \in CSocket, Answer(d, c) PROVE TokensAreSpent'
  BY <1>8, <1>10, FrameTypes, Distinct DEF Answer, Sends, ends
<1>11. ASSUME NEW d \in Daemon, NEW c \in CSocket, EndSession(d, c) PROVE TokensAreSpent'
  <2> DEFINE l == [link[d] EXCEPT !.sess = @ \ {c}, !.over = @ \cup {c}]
  <2>1. link' = [link EXCEPT ![d] = l] /\ UNCHANGED <<relay, keep>>
        /\ link[d].sock # None /\ Say(link[d].sock, About("closed", c))
    BY <1>11 DEF EndSession, Sends, Sound
  <2>2. l.sock = link[d].sock
    BY DEF Sound
  <2> HIDE DEF l
  <2>3. \A x \in Daemon : link'[x].sock = link[x].sock
    BY <2>1, <2>2 DEF Sound
  <2> QED BY <1>8, <2>1, <2>3, FrameTypes, Distinct
<1> QED BY <1>1, <1>2, <1>3, <1>4, <1>5, <1>6, <1>7, <1>9, <1>10, <1>11 DEF Next

LEMMA SlotStays ==
  ASSUME Sound, TokensAreSpent, NEW e \in Events, Handle(e), Serving(doc.slot)
  PROVE  doc'.slot = doc.slot
PROOF
<1> DEFINE w == Seen(Due(e), e)
           st == Done(Due(e), e)
           s == doc.slot
<1>1. /\ w \in Worlds /\ Moved(w.doc, e, st) /\ doc' = st.doc
  BY HandleIs
<1>2. /\ s \in DSocket /\ rt[s] = "open" /\ s \notin dead /\ link[Owner[s]].sock = s /\ s \in Listed
  BY Distinct DEF Serving, Sound, Docs, Listed
<1>3. w.doc.slot = s
  <2>1. OfNow(Due(e))
    BY WorldIs
  <2>2. CASE w = Due(e)
    BY <2>1, <2>2 DEF OfNow
  <2>3. CASE w = ApplyStep(Due(e), Reconcile(doc)) /\ Reconcile(doc) \in Steps
    <3>1. w.doc = Reconcile(doc).doc
      BY <2>1, <2>3, ApplyStepIs DEF OfNow
    <3> QED BY <1>2, <3>1, ReconcileIsSane DEF Sound
  <2> QED BY <2>1, <2>2, <2>3, SeenIs
<1> HIDE DEF w, st, s
<1>4. CASE e.kind = "frame"
  BY <1>1, <1>3, <1>4 DEF Moved, s
<1>5. CASE e.kind = "closed"
  <2>1. e.s # s
    BY <1>2, <1>5, EventsAre DEF Sound
  <2> QED BY <1>1, <1>3, <1>5, <2>1 DEF Moved, s
<1>6. CASE e.kind = "alarm"
  BY <1>1, <1>2, <1>3, <1>6 DEF Moved, s
<1>7. CASE e.kind = "verdict"
  <2>1. verifying # None
    BY <1>7, EventsAre
  <2>2. verifying.replaces # s
    BY <1>2, <2>1 DEF TokensAreSpent, Offered
  <2> QED BY <1>1, <1>2, <1>3, <1>7, <2>2, Distinct DEF Moved, s
<1> QED BY <1>4, <1>5, <1>6, <1>7, EventsAre

LEMMA TokensInit == Init => TokensAreSpent
PROOF
<1>1. Tokens(<<>>) = {}
  BY DEF Tokens
<1>2. Init => Offered = {}
  BY <1>1 DEF Init, Offered
<1> QED BY <1>2 DEF Init, NoLink, TokensAreSpent

(* Whoever else proves the same key and however its own daemon redials, no step
   of the relay takes the slot from a daemon that is serving on it. *)
THEOREM SlotIsKept == Spec => SlotIsNotStolen
PROOF
<1>1. ASSUME Sound, TokensAreSpent, [Next]_vars, Serving(doc.slot)
      PROVE  doc'.slot = doc.slot \/ trouble' # trouble
  <2>1. CASE \E e \in Events : Handle(e)
    BY <1>1, <2>1, SlotStays
  <2>2. \A k \in Fault : Strikes(k) => trouble' # trouble
    BY <1>1 DEF Strikes, Sound
  <2>3. CASE Reset \/ Forget
    BY <2>2, <2>3 DEF Reset, Forget, Fault
  <2>4. CASE ~(\E e \in Events : Handle(e)) /\ ~Reset /\ ~Forget
    <3>1. UNCHANGED doc
      BY <1>1, <2>4 DEF Next, vars, Departed, Delist, Silence, Dial, Abandon, Hear, ProbeClaim, Answer,
                        EndSession, ClientDials, ClientSends, ClientLeaves, relay
    <3> QED BY <3>1
  <2> QED BY <2>1, <2>3, <2>4
<1>2. Sound /\ TokensAreSpent /\ [Next]_vars
        => [Serving(doc.slot) => doc'.slot = doc.slot \/ trouble' # trouble]_vars
  BY <1>1
<1> QED BY <1>2, SoundInit, SoundNext, TokensInit, TokensNext, PTL DEF Spec, SlotIsNotStolen

-----------------------------------------------------------------------------
(* The daemon who is there. *)

(* A daemon that was told it holds the claim, or has the word on its way,
   carries the mark while its socket is open. *)
Granted(q) == \E i \in 1 .. Len(q) : q[i].t = "claimed"
OnClaim(s) == link[Owner[s]].sock = s /\ link[Owner[s]].claimed
MarkedIn(w) ==
  \A s \in DSocket : w.rt[s] = "open" /\ (OnClaim(s) \/ Granted(w.down[s])) => s \in w.mark
HoldersAreMarked ==
  \A s \in DSocket : rt[s] = "open" /\ (OnClaim(s) \/ Granted(down[s])) => s \in mark

(* A client of the document's sessions was told so. *)
ToldIn(w, S) == \A c \in w.doc.sessions \ S : w.told[c] = None => w.rt[c] # "open"
SessionsWereTold == \A c \in doc.sessions : told[c] = None => rt[c] # "open"

(* What a transition says of claims and to clients: the claim is granted to the
   slot alone, a session begins with its client's arrival and an answer to it,
   and only a session's client or one that finds the slot empty hears that the
   daemon is absent. *)
Arriving(e, c) == e.kind = "frame" /\ e.s = c /\ Head(up[c]).t = "arrive"
Candid(d, e, st) ==
  /\ \A s \in DSocket : To(s, Word("claimed")) \in st.sends => st.doc.slot = s
  /\ \A c \in CSocket : [to |-> c, code |-> "daemonAbsent"] \in st.closes
                           => c \in d.sessions \/ (Arriving(e, c) /\ d.slot = None)
  /\ \A c \in st.doc.sessions \ d.sessions :
       c \in CSocket /\ Arriving(e, c) /\ To(c, Word("ready")) \in st.sends

LEMMA WordsDiffer ==
  /\ \A s, x, t, c : To(s, Word("claimed")) # To(x, About(t, c))
  /\ \A s, x : To(s, Word("claimed")) \notin {To(x, Word("held")), To(x, Word("challenge")), To(x, Word("ready"))}
  /\ \A s, x : To(s, Word("claimed")) = To(x, Word("claimed")) => s = x
BY DEF To, Word, About

LEMMA ShutSays ==
  ASSUME NEW S, NEW code, NEW c
  PROVE  [to |-> c, code |-> "daemonAbsent"] \in Shut(S, code) => c \in S /\ code = "daemonAbsent"
BY DEF Shut

LEMMA TellGrants ==
  ASSUME NEW d, NEW C, NEW s
  PROVE  To(s, Word("claimed")) \notin TellDaemon(d, C)
BY WordsDiffer DEF TellDaemon

LEMMA CandidStep ==
  ASSUME NEW d, NEW e, NEW n, NEW S, NEW C,
         \A s \in DSocket : To(s, Word("claimed")) \in S => n.slot = s,
         \A c \in CSocket : [to |-> c, code |-> "daemonAbsent"] \in C
                              => c \in d.sessions \/ (Arriving(e, c) /\ d.slot = None),
         \A c \in n.sessions \ d.sessions :
           c \in CSocket /\ Arriving(e, c) /\ To(c, Word("ready")) \in S
  PROVE  Candid(d, e, Step(n, S, C)) /\ Candid(d, e, Swept(n, S, C))
BY SweptIs DEF Candid

LEMMA ArrivalsAreCandid ==
  ASSUME NEW d \in Docs, NEW e, e.kind = "frame", e.s \in Socket, Head(up[e.s]).t = "arrive"
  PROVE  /\ e.s \in DSocket => Candid(d, e, OnDaemonArrived(d, e.s))
         /\ e.s \in CSocket => Candid(d, e, OnClientArrived(d, e.s))
PROOF
<1>1. ASSUME e.s \in DSocket PROVE Candid(d, e, OnDaemonArrived(d, e.s))
  <2> DEFINE n == [d EXCEPT !.pending = @ \cup {e.s}]
  <2>1. n.sessions = d.sessions
    BY DEF Docs
  <2>2. Candid(d, e, Step(d, {}, Shut({e.s}, "rendezvousBusy")))
    BY ShutSays, CandidStep
  <2>3. Candid(d, e, Swept(n, {To(e.s, Word("challenge"))}, {}))
    <3> HIDE DEF n
    <3> QED BY <2>1, WordsDiffer, CandidStep
  <2> QED BY <2>2, <2>3 DEF OnDaemonArrived
<1>2. ASSUME e.s \in CSocket PROVE Candid(d, e, OnClientArrived(d, e.s))
  <2> DEFINE n == [d EXCEPT !.sessions = @ \cup {e.s}]
             S == {To(e.s, Word("ready")), To(d.slot, About("open", e.s))}
  <2>1. n.sessions = d.sessions \cup {e.s}
    BY DEF Docs
  <2>2. Candid(d, e, Step(d, {}, Shut({e.s}, "rendezvousBusy")))
    BY ShutSays, CandidStep
  <2>3. CASE d.slot = None
    <3>1. Candid(d, e, Step(d, {}, Shut({e.s}, "daemonAbsent")))
      BY <2>3, ShutSays, CandidStep DEF Arriving
    <3> QED BY <2>3, <3>1 DEF OnClientArrived
  <2>4. Candid(d, e, Swept(n, S, {}))
    <3>1. \A s \in DSocket : To(s, Word("claimed")) \notin S
      BY WordsDiffer
    <3>2. To(e.s, Word("ready")) \in S
      OBVIOUS
    <3> HIDE DEF n, S
    <3> QED BY <1>2, <2>1, <3>1, <3>2, CandidStep DEF Arriving
  <2> QED BY <2>2, <2>3, <2>4 DEF OnClientArrived
<1> QED BY <1>1, <1>2

LEMMA VerdictIsCandid ==
  ASSUME NEW d \in Docs, NEW e, NEW s \in DSocket, NEW r
  PROVE  Candid(d, e, OnClaimVerdict(d, s, r))
PROOF
<1> DEFINE rest == DropPending(d, s)
           base == IF d.slot = None THEN rest ELSE DropDaemon(rest)
           n == [base EXCEPT !.slot = s, !.restored = FALSE]
           S == {To(s, Word("claimed"))}
           C == Shut(d.sessions, "daemonAbsent") \cup Shut({d.slot} \ {None}, "claimLost")
<1>1. rest.sessions = d.sessions
  BY DEF DropPending, Docs
<1>2. n.slot = s /\ n.sessions \subseteq d.sessions
  <2>1. rest \in Docs /\ base \in Docs
    BY DocTypes
  <2>2. base.sessions \subseteq d.sessions
    <3> HIDE DEF rest
    <3> QED BY <1>1, <2>1 DEF DropDaemon, Docs
  <2> HIDE DEF base
  <2> QED BY <2>1, <2>2 DEF Docs
<1>3. Candid(d, e, Step(d, {}, {}))
  BY CandidStep
<1>4. Candid(d, e, Step(rest, {}, Shut({s}, "rendezvousClaimed")))
  <2> HIDE DEF rest
  <2> QED BY <1>1, ShutSays, CandidStep
<1>5. Candid(d, e, Swept(n, S, C))
  <2>1. \A x \in DSocket : To(x, Word("claimed")) \in S => n.slot = x
    BY <1>2, WordsDiffer
  <2>2. \A c : [to |-> c, code |-> "daemonAbsent"] \in C => c \in d.sessions
    BY ShutSays
  <2> HIDE DEF n, S, C
  <2> QED BY <1>2, <2>1, <2>2, CandidStep
<1> QED BY <1>3, <1>4, <1>5 DEF OnClaimVerdict

LEMMA FramesAreCandid ==
  ASSUME NEW d \in Docs, NEW e, NEW s \in Socket, NEW m \in Frames
  PROVE  Candid(d, e, OnFrame(d, s, m))
PROOF
<1>0. \A C : EndedByRendezvous(d, C).sessions \subseteq d.sessions
  BY DEF EndedByRendezvous, Docs
<1>1. \A x : [d EXCEPT !.sessions = @ \ {x}].sessions \subseteq d.sessions
  BY DEF Docs
<1>2. Candid(d, e, Step(d, {}, {}))
  BY CandidStep
<1>3. ASSUME NEW x
      PROVE  /\ Candid(d, e, Step(d, {}, Shut({x}, "claimLost")))
             /\ Candid(d, e, Step(d, {}, Shut({x}, "protocolError")))
  <2>1. \A c : /\ [to |-> c, code |-> "daemonAbsent"] \notin Shut({x}, "claimLost")
              /\ [to |-> c, code |-> "daemonAbsent"] \notin Shut({x}, "protocolError")
    BY DEF Shut
  <2> QED BY <2>1, CandidStep
<1>4. Candid(d, e, OnDaemonFrame(d, m))
  <2>1. \A x : Candid(d, e, Step(d, {To(x, Word("held"))}, {}))
    BY WordsDiffer, CandidStep
  <2>2. Candid(d, e, Step([d EXCEPT !.sessions = @ \ {m.s}], {}, Shut({m.s}, "said")))
    <3>1. \A c : [to |-> c, code |-> "daemonAbsent"] \notin Shut({m.s}, "said")
      BY DEF Shut
    <3> QED BY <1>1, <3>1, CandidStep
  <2>3. Candid(d, e, Step(EndedByRendezvous(d, {m.s}), TellDaemon(d, {m.s}), {}))
    BY <1>0, TellGrants, CandidStep
  <2>4. Candid(d, e, Step(d, {}, Shut({d.slot}, "protocolError")))
    BY <1>3
  <2> QED BY <1>2, <2>1, <2>2, <2>3, <2>4 DEF OnDaemonFrame
<1>5. ASSUME NEW c \in d.sessions PROVE Candid(d, e, OnClientFrame(d, c, m))
  <2>1. Candid(d, e, Step([d EXCEPT !.sessions = @ \ {c}], {}, Shut({c}, "daemonAbsent")))
    <3> DEFINE n == [d EXCEPT !.sessions = @ \ {c}]
               C == Shut({c}, "daemonAbsent")
    <3>1. n.sessions \subseteq d.sessions /\ \A x : [to |-> x, code |-> "daemonAbsent"] \in C => x \in d.sessions
      BY <1>1, ShutSays
    <3> HIDE DEF n, C
    <3>2. Candid(d, e, Step(n, {}, C))
      BY <3>1, CandidStep
    <3> QED BY <3>2 DEF n, C
  <2>2. Candid(d, e, Step(d, {To(d.slot, About("data", c))}, {}))
    BY WordsDiffer, CandidStep
  <2>3. Candid(d, e, Step(EndedByRendezvous(d, {c}), TellDaemon(d, {c}), Shut({c}, "said")))
    BY <1>0, TellGrants, ShutSays, CandidStep
  <2> QED BY <2>1, <2>2, <2>3 DEF OnClientFrame
<1>6. Candid(d, e, Step(d, {}, Shut({s}, "claimLost"))) /\ Candid(d, e, Step(d, {}, Shut({s}, "protocolError")))
  BY <1>3
<1>7. Candid(d, e, Step(DropPending(d, s), {}, Shut({s}, "protocolError")))
  <2>1. DropPending(d, s).sessions = d.sessions
    BY DEF DropPending, Docs
  <2> DEFINE n == DropPending(d, s)
             C == Shut({s}, "protocolError")
  <2>2. n.sessions \subseteq d.sessions /\ \A c : [to |-> c, code |-> "daemonAbsent"] \notin C
    BY <2>1 DEF Shut
  <2> HIDE DEF n, C
  <2>3. Candid(d, e, Step(n, {}, C))
    BY <2>2, CandidStep
  <2> QED BY <2>3 DEF n, C
<1> QED BY <1>4, <1>5, <1>6, <1>7 DEF OnFrame

LEMMA CloseIsCandid ==
  ASSUME NEW d \in Docs, NEW e, NEW s \in Socket
  PROVE  Candid(d, e, OnSocketClosed(d, s))
PROOF
<1>1. /\ DropPending(d, s).sessions = d.sessions /\ DropDaemon(d).sessions = {}
      /\ EndedByRendezvous(d, {s}).sessions \subseteq d.sessions
  BY DEF DropPending, DropDaemon, EndedByRendezvous, Docs
<1>2. Candid(d, e, Step(d, {}, {})) /\ Candid(d, e, Step(DropPending(d, s), {}, {}))
  BY <1>1, CandidStep
<1>3. Candid(d, e, Step(DropDaemon(d), {}, Shut(d.sessions, "daemonAbsent")))
  BY <1>1, ShutSays, CandidStep
<1>4. Candid(d, e, Step(EndedByRendezvous(d, {s}), TellDaemon(d, {s}), {}))
  BY <1>1, TellGrants, CandidStep
<1> QED BY <1>2, <1>3, <1>4 DEF OnSocketClosed

LEMMA SweepIsCandid ==
  ASSUME NEW d \in Docs, NEW e
  PROVE  Candid(d, e, OnAlarm(d))
PROOF
<1> DEFINE late == {s \in d.pending : Overdue(s)}
           pruned == [d EXCEPT !.pending = @ \ late]
           mute == {d.slot} \cap dead
           bereft == IF mute = {} THEN pruned ELSE DropDaemon(pruned)
           still == bereft.sessions \cap dead
           spared == EndedByRendezvous(bereft, still)
           S == TellDaemon(bereft, still)
           lost == (d.sessions \ bereft.sessions) \cup still \cup mute
           C == Shut(late, "claimTimeout") \cup Shut(lost, "heartbeatTimeout")
<1>1. pruned \in Docs /\ pruned.sessions = d.sessions
  BY DEF Docs
<1>2. bereft.sessions \subseteq d.sessions /\ bereft \in Docs
  <2> HIDE DEF pruned
  <2> QED BY <1>1, DocTypes DEF DropDaemon, Docs
<1>3. spared.sessions \subseteq d.sessions
  <2> HIDE DEF bereft, still
  <2> QED BY <1>2 DEF EndedByRendezvous, Docs
<1>4. \A s : To(s, Word("claimed")) \notin S
  <2> HIDE DEF bereft, still
  <2> QED BY TellGrants
<1>5. \A c : [to |-> c, code |-> "daemonAbsent"] \notin C
  <2> HIDE DEF late, lost
  <2>1. \A c : [to |-> c, code |-> "daemonAbsent"] \notin Shut(late, "claimTimeout")
    BY DEF Shut
  <2>2. \A c : [to |-> c, code |-> "daemonAbsent"] \notin Shut(lost, "heartbeatTimeout")
    BY DEF Shut
  <2> QED BY <2>1, <2>2
<1>6. OnAlarm(d) = Swept(spared, S, C)
  BY DEF OnAlarm
<1> HIDE DEF spared, S, C
<1> QED BY <1>3, <1>4, <1>5, <1>6, CandidStep

LEMMA ReconcileIsCandid ==
  ASSUME NEW d \in Docs, NEW e, mark \subseteq DSocket
  PROVE  /\ Candid(d, e, Reconcile(d)) /\ Reconcile(d).doc.sessions \subseteq d.sessions
         /\ \A c \in CSocket : c \in Shutting(Reconcile(d)) => c \in d.sessions
         /\ \A c : To(c, Word("ready")) \notin Reconcile(d).sends
PROOF
<1> DEFINE pruned == [d EXCEPT !.pending = @ \cap Listed]
           bereft == IF d.slot # None /\ d.slot \notin Listed THEN DropDaemon(pruned) ELSE pruned
           absent == bereft.sessions \ Listed
           spared == EndedByRendezvous(bereft, absent)
           given == IF spared.slot = None /\ mark # {}
                    THEN [spared EXCEPT !.slot = CHOOSE s \in mark : TRUE, !.restored = TRUE]
                    ELSE spared
           others == mark \ {given.slot}
           S == TellDaemon(bereft, absent)
           lost == d.sessions \ bereft.sessions
           C == Shut(lost, "daemonAbsent") \cup Shut(others, "claimLost")
<1>1. pruned \in Docs /\ pruned.sessions = d.sessions
  BY DEF Docs
<1>2. bereft.sessions \subseteq d.sessions /\ bereft \in Docs
  <2> HIDE DEF pruned
  <2> QED BY <1>1, DocTypes DEF DropDaemon, Docs
<1>3. spared.sessions \subseteq d.sessions /\ spared \in Docs
  <2>1. absent \in SUBSET CSocket
    <3> HIDE DEF bereft
    <3> QED BY <1>2 DEF Docs
  <2> HIDE DEF bereft, absent
  <2> QED BY <1>2, <2>1, DocTypes DEF EndedByRendezvous, Docs
<1>4. given.sessions \subseteq d.sessions
  <2> HIDE DEF spared
  <2> QED BY <1>3 DEF Docs
<1>5. /\ \A s : To(s, Word("claimed")) \notin S
      /\ \A s : To(s, Word("ready")) \notin S
  <2> HIDE DEF bereft, absent
  <2>1. \A s, x, c : To(s, Word("ready")) # To(x, About("closed", c))
    BY DEF To, Word, About
  <2> QED BY <2>1, TellGrants DEF TellDaemon
<1>6. \A c : [to |-> c, code |-> "daemonAbsent"] \in C => c \in d.sessions
  <2> HIDE DEF bereft, others
  <2> QED BY ShutSays
<1>7. \A c \in CSocket : c \in {x.to : x \in C} => c \in d.sessions
  <2>1. others \subseteq DSocket
    OBVIOUS
  <2> HIDE DEF others, bereft
  <2> QED BY <2>1, Distinct DEF Shut
<1>8. Reconcile(d) = Swept(given, S, C)
  BY DEF Reconcile
<1> HIDE DEF given, S, C
<1>9. Candid(d, e, Swept(given, S, C))
  BY <1>4, <1>5, <1>6, CandidStep
<1> QED BY <1>4, <1>5, <1>7, <1>8, <1>9, SweptIs DEF Shutting

LEMMA ReduceIsCandid ==
  ASSUME Sound, NEW d \in Docs, NEW e \in Events \cup {Event("none", None)}
  PROVE  Candid(d, e, Reduce(d, e))
PROOF
<1>0. Candid(d, e, Step(d, {}, {}))
  BY CandidStep
<1>1. CASE e = Event("none", None)
  BY <1>0, <1>1 DEF Reduce, Event
<1>2. CASE e \in Events /\ e.kind = "frame"
  <2>1. e.s \in Socket /\ Head(up[e.s]) \in Frames
    BY <1>2, EventsAre
  <2>2. CASE Head(up[e.s]).t = "arrive"
    <3>1. Reduce(d, e) = IF e.s \in DSocket THEN OnDaemonArrived(d, e.s) ELSE OnClientArrived(d, e.s)
      BY <1>2, <2>2 DEF Reduce, IsClaim
    <3> QED BY <1>2, <2>1, <2>2, <3>1, ArrivalsAreCandid, Distinct
  <2>3. CASE Head(up[e.s]).t # "arrive" /\ IsClaim(d, e)
    <3>1. Reduce(d, e) = Step(d, {}, {})
      BY <1>2, <2>3 DEF Reduce
    <3> QED BY <1>0, <3>1
  <2>4. CASE Head(up[e.s]).t # "arrive" /\ ~IsClaim(d, e)
    <3>1. Reduce(d, e) = OnFrame(d, e.s, Head(up[e.s]))
      BY <1>2, <2>4 DEF Reduce
    <3> QED BY <2>1, <3>1, FramesAreCandid
  <2> QED BY <2>2, <2>3, <2>4
<1>3. CASE e \in Events /\ e.kind = "closed"
  <2>1. Reduce(d, e) = OnSocketClosed(d, e.s) /\ e.s \in Socket
    BY <1>3, EventsAre DEF Reduce, IsClaim, Sound
  <2> QED BY <2>1, CloseIsCandid
<1>4. CASE e \in Events /\ e.kind = "alarm"
  <2>1. Reduce(d, e) = OnAlarm(d)
    BY <1>4 DEF Reduce, IsClaim
  <2> QED BY <2>1, SweepIsCandid
<1>5. CASE e \in Events /\ e.kind = "verdict"
  <2>1. Reduce(d, e) = OnClaimVerdict(d, e.s, verifying.replaces) /\ e.s \in DSocket
    BY <1>5, EventsAre DEF Reduce, IsClaim
  <2> QED BY <2>1, VerdictIsCandid
<1> QED BY <1>1, <1>2, <1>3, <1>4, <1>5, EventsAre

LEMMA GrantedIn ==
  ASSUME NEW a \in Seq(Frames), NEW b \in Seq(Frames)
  PROVE  /\ Granted(a \o b) => Granted(a) \/ Granted(b)
         /\ Granted(b) => Granted(a \o b)
         /\ a # <<>> => (Granted(Tail(a)) => Granted(a)) /\ (Head(a).t = "claimed" => Granted(a))
         /\ ~Granted(<<>>)
PROOF
<1>1. Granted(a \o b) => Granted(a) \/ Granted(b)
  <2> SUFFICES ASSUME NEW i \in 1 .. Len(a \o b), (a \o b)[i].t = "claimed" PROVE Granted(a) \/ Granted(b)
    BY DEF Granted
  <2>1. CASE i <= Len(a)
    <3>1. (a \o b)[i] = a[i] /\ i \in 1 .. Len(a)
      BY <2>1
    <3> QED BY <3>1 DEF Granted
  <2>2. CASE i > Len(a)
    <3>1. (a \o b)[i] = b[i - Len(a)] /\ i - Len(a) \in 1 .. Len(b)
      BY <2>2
    <3> QED BY <3>1 DEF Granted
  <2> QED BY <2>1, <2>2
<1>2. Granted(b) => Granted(a \o b)
  <2> SUFFICES ASSUME NEW i \in 1 .. Len(b), b[i].t = "claimed" PROVE Granted(a \o b)
    BY DEF Granted
  <2>1. (a \o b)[Len(a) + i] = b[i] /\ Len(a) + i \in 1 .. Len(a \o b)
    OBVIOUS
  <2> QED BY <2>1 DEF Granted
<1>3. ASSUME a # <<>> PROVE (Granted(Tail(a)) => Granted(a)) /\ (Head(a).t = "claimed" => Granted(a))
  <2>1. \A i \in 1 .. Len(Tail(a)) : Tail(a)[i] = a[i + 1] /\ i + 1 \in 1 .. Len(a)
    BY <1>3
  <2>2. Head(a) = a[1] /\ 1 \in 1 .. Len(a)
    BY <1>3
  <2>3. Granted(Tail(a)) => Granted(a)
    BY <2>1 DEF Granted
  <2> QED BY <2>2, <2>3 DEF Granted
<1>4. ~Granted(<<>>)
  BY DEF Granted
<1> QED BY <1>1, <1>2, <1>3, <1>4

(* What the relay sends in a step grants the claim to the step's slot alone. *)
LEMMA GrantsAre ==
  ASSUME NEW w \in Worlds, NEW st \in Steps, NEW d, NEW e, Candid(d, e, st), NEW s \in DSocket,
         Granted(Said(w, st)[s])
  PROVE  Granted(w.down[s]) \/ st.doc.slot = s
PROOF
<1> DEFINE T == {m \in Sent : To(s, m) \in st.sends}
<1>1. Words(st, s) \in Seq(T)
  BY WordsAre
<1>2. w.down[s] \in Seq(Frames) /\ Words(st, s) \in Seq(Frames)
  <2>1. T \subseteq Frames
    BY FinitelyMuch
  <2> HIDE DEF T
  <2> QED BY <1>1, <2>1 DEF Worlds
<1>3. Farewell(st, s) \in Seq(Frames) /\ ~Granted(Farewell(st, s))
  <2>1. CASE s \in Shutting(st)
    <3>1. CloseFrame(CodeOf(st, s)) \in Frames /\ CloseFrame(CodeOf(st, s)).t = "close"
      BY <2>1, CodesAre DEF CloseFrame, Frames
    <3> HIDE DEF T
    <3> QED BY <2>1, <3>1 DEF Farewell, Granted
  <2>2. CASE s \notin Shutting(st)
    BY <2>2 DEF Farewell, Granted
  <2> QED BY <2>1, <2>2
<1>4. CASE Granted(Words(st, s))
  <2>1. PICK i \in 1 .. Len(Words(st, s)) : Words(st, s)[i].t = "claimed"
    BY <1>4 DEF Granted
  <2>2. Words(st, s)[i] \in T
    <3> HIDE DEF T
    <3> QED BY <1>1
  <2>3. Words(st, s)[i] = Word("claimed")
    BY <2>1, <2>2 DEF Sent, Word, About
  <2> QED BY <2>2, <2>3 DEF Candid
<1>5. CASE ~Granted(Words(st, s))
  <2> DEFINE x == Words(st, s) \o Farewell(st, s)
             a == w.down[s]
  <2> HIDE DEF T
  <2>1. ~Granted(x) /\ x \in Seq(Frames)
    BY <1>2, <1>3, <1>5, GrantedIn
  <2>2. Said(w, st)[s] = a \/ Said(w, st)[s] = a \o x
    BY DEF Said
  <2>3. a \in Seq(Frames)
    BY <1>2
  <2> HIDE DEF x, a
  <2>4. Granted(a \o x) => Granted(a)
    BY <2>1, <2>3, GrantedIn
  <2>5. Granted(a)
    BY <2>2, <2>4
  <2> QED BY <2>5 DEF a
<1> QED BY <1>4, <1>5

LEMMA MarkedFurther ==
  ASSUME NEW w \in Worlds, MarkedIn(w), NEW st \in Steps, NEW d, NEW e, Candid(d, e, st)
  PROVE  MarkedIn(Put(w, st)) /\ MarkedIn(Unscheduled(w, st)) /\ MarkedIn(ApplyStep(w, st))
PROOF
<1>1. MarkedIn(Put(w, st))
  BY PutIs DEF MarkedIn
<1>2. ASSUME NEW s \in DSocket, Closed(w, st)[s] = "open", OnClaim(s) \/ Granted(Said(w, st)[s])
      PROVE  s \in Marking(w, st) \ Shutting(st)
  <2>1. w.rt[s] = "open" /\ s \notin Shutting(st)
    BY <1>2, Distinct DEF Closed
  <2>2. s # None
    BY Distinct
  <2>3. OnClaim(s) \/ Granted(w.down[s]) \/ st.doc.slot = s
    BY <1>2, GrantsAre
  <2> QED BY <2>1, <2>2, <2>3 DEF MarkedIn, Marking
<1> QED BY <1>1, <1>2, UnscheduledIs, ApplyStepIs DEF MarkedIn

(* Whom a step lets in it answers. *)
LEMMA ToldFurther ==
  ASSUME NEW w \in Worlds, NEW S, ToldIn(w, S), NEW st \in Steps, NEW e, Candid(w.doc, e, st)
  PROVE  /\ ToldIn(Unscheduled(w, st), S) /\ ToldIn(ApplyStep(w, st), S)
         /\ ToldIn(Put(w, st), S \cup {c \in CSocket : Arriving(e, c)})
PROOF
<1>1. ASSUME NEW c \in st.doc.sessions, c \notin S, Heard(w, st)[c] = None
      PROVE  Closed(w, st)[c] # "open"
  <2>1. c \in CSocket /\ c \in Socket
    BY Distinct DEF Steps, Docs
  <2>2. CASE c \in Shutting(st) /\ w.rt[c] = "open"
    BY <2>1, <2>2 DEF Closed
  <2>3. CASE ~(c \in Shutting(st) /\ w.rt[c] = "open")
    <3>1. To(c, Word("ready")) \notin st.sends /\ w.told[c] = None
      BY <1>1, <2>1, <2>3, RendezvousAssumption DEF Heard
    <3>2. c \in w.doc.sessions
      BY <3>1 DEF Candid
    <3> QED BY <1>1, <2>1, <2>3, <3>1, <3>2 DEF ToldIn, Closed
  <2> QED BY <2>2, <2>3
<1>2. ToldIn(Put(w, st), S \cup {c \in CSocket : Arriving(e, c)})
  BY PutIs DEF Candid, ToldIn
<1> QED BY <1>1, <1>2, UnscheduledIs, ApplyStepIs DEF ToldIn

(* The world a handler sees, corrected or not. *)
LEMMA SeenIsCandid ==
  ASSUME Sound, HoldersAreMarked, SessionsWereTold, NEW w, OfNow(w), NEW e
  PROVE  MarkedIn(Seen(w, e)) /\ ToldIn(Seen(w, e), {})
PROOF
<1>1. MarkedIn(w) /\ ToldIn(w, {}) /\ w \in Worlds /\ w.doc = doc
  BY DEF OfNow, MarkedIn, ToldIn, HoldersAreMarked, SessionsWereTold
<1>2. Candid(doc, e, Reconcile(doc))
  BY ReconcileIsCandid DEF Sound
<1>3. CASE Seen(w, e) = w
  BY <1>1, <1>3
<1>4. CASE Seen(w, e) = ApplyStep(w, Reconcile(doc)) /\ Reconcile(doc) \in Steps
  BY <1>1, <1>2, <1>4, MarkedFurther, ToldFurther
<1> QED BY <1>3, <1>4, SeenIs
LEMMA HandlersAreCandid ==
  ASSUME Sound, HoldersAreMarked, SessionsWereTold, NEW e \in Events, Handle(e)
  PROVE  HoldersAreMarked' /\ SessionsWereTold'
PROOF
<1> DEFINE w == Seen(Due(e), e)
           st == Done(Due(e), e)
           z == ApplyStep(w, st)
<1>1. /\ w \in Worlds /\ st \in Steps
      /\ doc' = st.doc /\ rt' = Closed(w, st) /\ mark' = Marking(w, st) \ Shutting(st)
      /\ down' = Said(w, st) /\ told' = Heard(w, st)
  BY HandleIs DEF Sane
<1>2. MarkedIn(w) /\ ToldIn(w, {})
  BY WorldIs, SeenIsCandid
<1>3. Candid(w.doc, e, st)
  BY <1>1, ReduceIsCandid DEF Done, Worlds
<1> HIDE DEF w, st
<1>4. MarkedIn(z) /\ ToldIn(z, {})
  BY <1>1, <1>2, <1>3, MarkedFurther, ToldFurther
<1>5. doc' = z.doc /\ rt' = z.rt /\ mark' = z.mark /\ down' = z.down /\ told' = z.told
  BY <1>1, ApplyStepIs
<1>6. UNCHANGED link
  BY DEF Handle
<1> HIDE DEF z
<1> QED BY <1>4, <1>5, <1>6 DEF MarkedIn, ToldIn, HoldersAreMarked, SessionsWereTold, OnClaim

LEMMA HalvesAreCandid ==
  ASSUME Sound, HoldersAreMarked, SessionsWereTold, NEW e \in Events \cup {Event("none", None)},
         NEW w \in Halves(e)
  PROVE  MarkedIn(w) /\ ToldIn(w, {c \in CSocket : Arriving(e, c)})
PROOF
<1> DEFINE A == {c \in CSocket : Arriving(e, c)}
           v == Before(World, e)
           st == Done(World, e)
<1>1. OfNow(World) /\ World \in Worlds /\ World.doc = doc
  BY WorldIs DEF OfNow
<1>2. v \in Worlds /\ MarkedIn(v) /\ ToldIn(v, {})
  BY <1>1, SeenIs, SeenIsCandid DEF Seen
<1>3. st \in Steps /\ Candid(v.doc, e, st)
  BY <1>2, ReduceIsSane, ReduceIsCandid DEF Done, Seen, Worlds, Sane
<1>4. MarkedIn(World) /\ ToldIn(World, {})
  BY <1>1 DEF OfNow, MarkedIn, ToldIn, HoldersAreMarked, SessionsWereTold
<1>5. Reconcile(doc) \in Steps /\ Candid(doc, e, Reconcile(doc))
  BY ReconcileIsSane, ReconcileIsCandid DEF Sound
<1> HIDE DEF v, st
<1>6. /\ MarkedIn(Put(World, Reconcile(doc))) /\ MarkedIn(Put(v, st)) /\ MarkedIn(Unscheduled(v, st))
      /\ ToldIn(Unscheduled(v, st), {})
  BY <1>1, <1>2, <1>3, <1>4, <1>5, MarkedFurther, ToldFurther
<1>7. ToldIn(Put(World, Reconcile(doc)), {} \cup A) /\ ToldIn(Put(v, st), {} \cup A)
  BY <1>1, <1>2, <1>3, <1>4, <1>5, ToldFurther
<1>8. \A x : ToldIn(x, {}) => ToldIn(x, A)
  BY DEF ToldIn
<1>9. w \in {World, v, Put(World, Reconcile(doc)), Put(v, st), Unscheduled(v, st)}
  BY DEF Halves, v, st
<1>10. {} \cup A = A
  OBVIOUS
<1> HIDE DEF A
<1>11. MarkedIn(w) /\ ToldIn(w, A)
  BY <1>2, <1>4, <1>6, <1>7, <1>8, <1>9, <1>10
<1> QED BY <1>11 DEF A

LEMMA ResetIsCandid ==
  ASSUME Sound, HoldersAreMarked, SessionsWereTold, Reset
  PROVE  HoldersAreMarked' /\ SessionsWereTold'
PROOF
<1>1. PICK e \in Events \cup {Event("none", None)} : \E w \in Halves(e) :
        Becomes(CutOff(w, e)) /\ Cut(e) \subseteq Socket /\ UNCHANGED link
  BY ResetIs
<1>2. PICK w \in Halves(e) : Becomes(CutOff(w, e)) /\ Cut(e) \subseteq Socket /\ UNCHANGED link
  BY <1>1
<1>3. w \in Worlds /\ MarkedIn(w) /\ ToldIn(w, {c \in CSocket : Arriving(e, c)})
  BY HalvesAre, HalvesAreCandid
<1>4. CutOff(w, e) = [w EXCEPT !.rt = [s \in Socket |-> IF s \in Cut(e) THEN "gone" ELSE w.rt[s]],
                               !.mark = w.mark \ Cut(e)]
  BY <1>3 DEF CutOff, Worlds
<1>5. /\ doc' = w.doc /\ rt' = [s \in Socket |-> IF s \in Cut(e) THEN "gone" ELSE w.rt[s]]
      /\ mark' = w.mark \ Cut(e) /\ down' = w.down /\ told' = w.told
  BY <1>2, <1>3, <1>4 DEF Becomes, Worlds
<1>6. \A c \in CSocket : Arriving(e, c) => c \in Cut(e)
  BY DEF Arriving, Cut
<1>7. \A c \in w.doc.sessions : c \in CSocket /\ c \in Socket
  BY <1>3, Distinct DEF Worlds, Docs
<1>8. HoldersAreMarked'
  BY <1>2, <1>3, <1>5, Distinct DEF MarkedIn, HoldersAreMarked, OnClaim
<1>9. SessionsWereTold'
  BY <1>3, <1>5, <1>6, <1>7 DEF ToldIn, SessionsWereTold
<1> QED BY <1>8, <1>9

(* What a frame makes of a daemon's link. *)
LEMMA HearIs ==
  ASSUME Sound, NEW d \in Daemon, Hear(d)
  PROVE  LET s == link[d].sock
         IN  /\ s \in DSocket /\ down[s] # <<>> /\ UNCHANGED relay /\ UNCHANGED <<dead, told, trouble>>
             /\ \A x \in DSocket : down'[x] = down[x] \/ (x = s /\ down'[x] \in {<<>>, Tail(down[x])})
             /\ \A x \in Daemon : x # d => link'[x] = link[x]
             /\ \/ link'[d].sock = None
                \/ /\ link'[d].sock = s
                   /\ link'[d].claimed => link[d].claimed \/ Head(down[s]).t = "claimed"
PROOF
<1> DEFINE s == link[d].sock
           m == Head(down[s])
<1>1. s \in DSocket /\ s # None /\ down[s] # <<>> /\ LinkHears(d, m) /\ UNCHANGED relay
      /\ UNCHANGED <<dead, told, trouble>>
  BY Distinct DEF Hear, Sound
<1>2. \A x \in DSocket : down'[x] = down[x] \/ (x = s /\ down'[x] \in {<<>>, Tail(down[x])})
  BY <1>1 DEF Hear, Sound
<1> HIDE DEF m
<1>3. /\ \A x \in Daemon : x # d => link'[x] = link[x]
      /\ \/ link'[d].sock = None
         \/ /\ link'[d].sock = s
            /\ link'[d].claimed => link[d].claimed \/ m.t = "claimed"
  <2>1. CASE m.t = "claimed"
    <3> DEFINE l == [link[d] EXCEPT !.claimed = TRUE]
    <3>1. link' = [link EXCEPT ![d] = l]
      BY <1>1, <2>1 DEF LinkHears
    <3>2. l.sock = s
      BY DEF Sound
    <3> HIDE DEF l
    <3> QED BY <2>1, <3>1, <3>2 DEF Sound
  <2>2. CASE m.t = "open"
    <3> DEFINE l == [link[d] EXCEPT !.sess = @ \cup {m.s}, !.over = @ \ {m.s}]
    <3>1. link' = [link EXCEPT ![d] = l]
      BY <1>1, <2>2 DEF LinkHears
    <3>2. l.sock = s /\ l.claimed = link[d].claimed
      BY DEF Sound
    <3> HIDE DEF l
    <3> QED BY <3>1, <3>2 DEF Sound
  <2>3. CASE m.t = "closed"
    <3> DEFINE l == [link[d] EXCEPT !.sess = @ \ {m.s}]
    <3>1. link' = [link EXCEPT ![d] = l]
      BY <1>1, <2>3 DEF LinkHears
    <3>2. l.sock = s /\ l.claimed = link[d].claimed
      BY DEF Sound
    <3> HIDE DEF l
    <3> QED BY <3>1, <3>2 DEF Sound
  <2>4. CASE m.t \in {"challenge", "held"} \/ (m.t = "data" /\ m.s \in link[d].sess \cup link[d].over)
    <3>1. UNCHANGED link
      BY <1>1, <2>4 DEF LinkHears
    <3> QED BY <3>1
  <2>5. CASE /\ m.t \notin {"challenge", "claimed", "open", "closed", "held"}
             /\ ~(m.t = "data" /\ m.s \in link[d].sess \cup link[d].over)
    <3>1. PICK code : Ended(d, code)
      BY <1>1, <2>5 DEF LinkHears
    <3> QED BY <3>1 DEF Ended, NoLink, Sound
  <2> QED BY <2>1, <2>2, <2>3, <2>4, <2>5
<1> QED BY <1>1, <1>2, <1>3 DEF m

LEMMA CandidNext ==
  ASSUME Sound, HoldersAreMarked, SessionsWereTold, [Next]_vars
  PROVE  HoldersAreMarked' /\ SessionsWereTold'
PROOF
<1>1. CASE UNCHANGED <<doc, rt, mark, told, link, down>>
  BY <1>1 DEF HoldersAreMarked, SessionsWereTold, OnClaim
<1>2. CASE \E e \in Events : Handle(e)
  BY <1>2, HandlersAreCandid
<1>3. ASSUME NEW s \in Socket, Departed(s) \/ Delist(s) PROVE HoldersAreMarked' /\ SessionsWereTold'
  <2>1. /\ UNCHANGED <<doc, told, link, down>> /\ mark' = mark \ {s}
        /\ \E r \in {"reported", "gone"} : rt' = [rt EXCEPT ![s] = r]
    BY <1>3 DEF Departed, Delist, wire, ends
  <2> QED BY <2>1, Distinct DEF HoldersAreMarked, SessionsWereTold, OnClaim, Sound
<1>4. ASSUME NEW s \in Socket, Silence(s) PROVE HoldersAreMarked' /\ SessionsWereTold'
  <2>1. UNCHANGED <<doc, rt, mark, told, link>> /\ \A x \in DSocket : down'[x] \in {down[x], <<>>}
    BY <1>4 DEF Silence, relay, ends, Sound
  <2> QED BY <2>1, GrantedIn DEF HoldersAreMarked, SessionsWereTold, OnClaim, Granted
<1>5. CASE Reset
  BY <1>5, ResetIsCandid
<1>6. CASE Forget
  BY <1>6 DEF Forget, EmptyDoc, HoldersAreMarked, SessionsWereTold, OnClaim, wire, ends
<1>7. ASSUME NEW d \in Daemon, NEW s \in DSocket, Dial(d, s) PROVE HoldersAreMarked' /\ SessionsWereTold'
  <2>1. /\ UNCHANGED <<doc, mark, told>> /\ rt' = [rt EXCEPT ![s] = "open"] /\ Owner[s] = d
        /\ link' = [link EXCEPT ![d] = [NoLink EXCEPT !.sock = s]] /\ down' = [down EXCEPT ![s] = <<>>]
        /\ link[d].sock = None
    BY <1>7 DEF Dial, Dialled
  <2>2. s \notin doc.sessions
    BY <1>7 DEF Dial, Dialled, Fresh
  <2>3. ~Granted(<<>>)
    BY DEF Granted
  <2>4. \A x \in DSocket : OnClaim(x)' => OnClaim(x) /\ x # s
    BY <2>1, RendezvousAssumption, Distinct DEF OnClaim, NoLink, Sound
  <2>5. \A x \in DSocket : Granted(down'[x]) => Granted(down[x]) /\ x # s
    BY <2>1, <2>3 DEF Sound
  <2>6. HoldersAreMarked'
    BY <2>1, <2>4, <2>5, Distinct DEF HoldersAreMarked, Sound
  <2>7. SessionsWereTold'
    BY <2>1, <2>2 DEF SessionsWereTold, Sound
  <2> QED BY <2>6, <2>7
<1>8. ASSUME NEW d \in Daemon, Abandon(d) PROVE HoldersAreMarked' /\ SessionsWereTold'
  <2>1. /\ UNCHANGED <<doc, rt, mark, told>> /\ link' = [link EXCEPT ![d] = NoLink]
        /\ \A x \in DSocket : down'[x] \in {down[x], <<>>}
    BY <1>8 DEF Abandon, Ended, relay, Sound
  <2>2. \A x \in DSocket : OnClaim(x)' => OnClaim(x)
    BY <2>1, RendezvousAssumption, Distinct DEF OnClaim, NoLink, Sound
  <2>3. ~Granted(<<>>)
    BY DEF Granted
  <2> QED BY <2>1, <2>2, <2>3 DEF HoldersAreMarked, SessionsWereTold
<1>9. ASSUME NEW d \in Daemon, Hear(d) PROVE HoldersAreMarked' /\ SessionsWereTold'
  <2> DEFINE s == link[d].sock
  <2>1. /\ s \in DSocket /\ down[s] # <<>> /\ UNCHANGED relay /\ UNCHANGED <<dead, told, trouble>>
        /\ \A x \in DSocket : down'[x] = down[x] \/ (x = s /\ down'[x] \in {<<>>, Tail(down[x])})
        /\ \A x \in Daemon : x # d => link'[x] = link[x]
        /\ \/ link'[d].sock = None
           \/ /\ link'[d].sock = s
              /\ link'[d].claimed => link[d].claimed \/ Head(down[s]).t = "claimed"
    BY <1>9, HearIs
  <2>2. down[s] \in Seq(Frames)
    BY <2>1 DEF Sound
  <2>3. (Granted(Tail(down[s])) => Granted(down[s])) /\ ~Granted(<<>>)
        /\ (Head(down[s]).t = "claimed" => Granted(down[s]))
    BY <2>1, <2>2, GrantedIn
  <2>4. \A x \in DSocket : Granted(down'[x]) => Granted(down[x])
    BY <2>1, <2>3
  <2>5. \A x \in DSocket : OnClaim(x)' => OnClaim(x) \/ Granted(down[x])
    <3> SUFFICES ASSUME NEW x \in DSocket, link'[Owner[x]].sock = x, link'[Owner[x]].claimed
                 PROVE  OnClaim(x) \/ Granted(down[x])
      BY DEF OnClaim
    <3>1. Owner[x] \in Daemon /\ x # None
      BY RendezvousAssumption, Distinct
    <3>2. CASE Owner[x] # d
      BY <2>1, <3>1, <3>2 DEF OnClaim
    <3>3. CASE Owner[x] = d
      BY <2>1, <2>3, <3>1, <3>3 DEF OnClaim
    <3> QED BY <3>2, <3>3
  <2> QED BY <2>1, <2>4, <2>5 DEF HoldersAreMarked, SessionsWereTold, relay
<1>10. ASSUME NEW d \in Daemon, ProbeClaim(d) PROVE HoldersAreMarked' /\ SessionsWereTold'
  BY <1>1, <1>10 DEF ProbeClaim, relay, ends
<1>11. ASSUME NEW d \in Daemon, NEW c \in CSocket, Answer(d, c) PROVE HoldersAreMarked' /\ SessionsWereTold'
  BY <1>1, <1>11 DEF Answer, relay, ends
<1>12. ASSUME NEW d \in Daemon, NEW c \in CSocket, EndSession(d, c)
       PROVE  HoldersAreMarked' /\ SessionsWereTold'
  <2> DEFINE l == [link[d] EXCEPT !.sess = @ \ {c}, !.over = @ \cup {c}]
  <2>1. link' = [link EXCEPT ![d] = l] /\ UNCHANGED <<doc, rt, mark, told, down>>
    BY <1>12 DEF EndSession, relay, Sound
  <2>2. l.sock = link[d].sock /\ l.claimed = link[d].claimed
    BY DEF Sound
  <2> HIDE DEF l
  <2>3. \A x \in Daemon : link'[x].sock = link[x].sock /\ link'[x].claimed = link[x].claimed
    BY <2>1, <2>2 DEF Sound
  <2> QED BY <2>1, <2>3, RendezvousAssumption DEF HoldersAreMarked, SessionsWereTold, OnClaim
<1>13. ASSUME NEW c \in CSocket, ClientDials(c) PROVE HoldersAreMarked' /\ SessionsWereTold'
  <2>1. /\ UNCHANGED <<doc, mark, down, link>> /\ rt' = [rt EXCEPT ![c] = "open"]
        /\ told' = [told EXCEPT ![c] = None] /\ c \notin doc.sessions
    BY <1>13 DEF ClientDials, Dialled, Fresh
  <2>2. HoldersAreMarked'
    BY <2>1, Distinct DEF HoldersAreMarked, OnClaim, Sound
  <2>3. SessionsWereTold'
    BY <2>1 DEF SessionsWereTold, Sound, Docs
  <2> QED BY <2>2, <2>3
<1>14. ASSUME NEW c \in CSocket, ClientSends(c) \/ ClientLeaves(c) PROVE HoldersAreMarked' /\ SessionsWereTold'
  BY <1>1, <1>14 DEF ClientSends, ClientLeaves, relay, ends
<1>15. CASE UNCHANGED vars
  BY <1>1, <1>15 DEF vars, relay, wire, ends
<1> QED BY <1>2, <1>3, <1>4, <1>5, <1>6, <1>7, <1>8, <1>9, <1>10, <1>11, <1>12, <1>13, <1>14, <1>15 DEF Next
(* Who hears that the daemon is absent was a session's client, or no socket
   carries a mark. *)
LEMMA AbsentIsTrue ==
  ASSUME Sound, HoldersAreMarked, SessionsWereTold, NEW w, OfNow(w),
         NEW e \in Events \cup {Event("none", None)},
         NEW c \in CSocket, told[c] = None, NEW x \in DSocket, rt[x] = "open", OnClaim(x)
  PROVE  /\ Seen(w, e).told[c] # "daemonAbsent"
         /\ Heard(Seen(w, e), Reduce(Seen(w, e).doc, e))[c] # "daemonAbsent"
PROOF
<1> DEFINE v == Seen(w, e)
           st == Reduce(v.doc, e)
           rec == Reconcile(doc)
<1>1. c \in Socket /\ None # "daemonAbsent" /\ x \in mark /\ w \in Worlds
  BY RendezvousAssumption, Distinct DEF Code, HoldersAreMarked, OfNow
<1>2. v \in Worlds /\ Faded(v) /\ ToldIn(v, {})
  BY SeenIs, SeenIsCandid
<1>3. st \in Steps /\ Candid(v.doc, e, st)
  BY <1>2, ReduceIsSane, ReduceIsCandid DEF Worlds, Sane
<1>4. \/ ~Reconciles(e) /\ v = w
      \/ Reconciles(e) /\ v = ApplyStep(w, rec) /\ rec \in Steps
  BY SeenIs
<1>5. v.told[c] = None
  <2>1. CASE v = w
    BY <1>1, <2>1 DEF OfNow
  <2>2. CASE v = ApplyStep(w, rec) /\ rec \in Steps
    <3>1. c \in Shutting(rec) => c \in doc.sessions
      BY ReconcileIsCandid DEF Sound
    <3>2. To(c, Word("ready")) \notin rec.sends
      BY ReconcileIsCandid DEF Sound
    <3>3. ~(c \in Shutting(rec) /\ rt[c] = "open")
      BY <3>1 DEF SessionsWereTold
    <3> HIDE DEF rec
    <3>4. v.told = Heard(w, rec)
      BY <1>1, <2>2, ApplyStepIs
    <3>5. Heard(w, rec)[c] = w.told[c]
      BY <3>2, <3>3 DEF Heard, OfNow
    <3> QED BY <1>1, <3>4, <3>5 DEF OfNow
  <2> QED BY <1>4, <2>1, <2>2
<1>6. v.mark = {} => v.doc.slot # None
  <2>1. CASE v = w
    BY <1>1, <2>1 DEF OfNow
  <2>2. CASE v = ApplyStep(w, rec) /\ rec \in Steps
    <3>1. rec.doc.slot # None
      BY <1>1, ReconcileIsSane DEF Sound
    <3> HIDE DEF rec
    <3>2. v.doc = rec.doc
      BY <1>1, <2>2, ApplyStepIs
    <3> QED BY <3>1, <3>2
  <2> QED BY <1>4, <2>1, <2>2
<1>7. Arriving(e, c) => v.mark \subseteq {v.doc.slot}
  <2>1. Arriving(e, c) => e.kind = "frame"
    BY DEF Arriving
  <2> QED BY <2>1, Agreed
<1>8. v.mark \subseteq DSocket /\ None \notin DSocket
  BY <1>2, Distinct DEF Worlds
<1> HIDE DEF v, st
<1>9. ASSUME c \in Shutting(st), v.rt[c] = "open", CodeOf(st, c) = "daemonAbsent" PROVE FALSE
  <2>1. PICK y \in st.closes : y.to = c /\ y.code = "daemonAbsent"
    BY <1>3, <1>9, CodesAre
  <2>2. y = [to |-> c, code |-> "daemonAbsent"]
    BY <1>3, <2>1 DEF Steps, Closings
  <2>3. c \in v.doc.sessions \/ (Arriving(e, c) /\ v.doc.slot = None)
    BY <1>3, <2>1, <2>2 DEF Candid
  <2>4. CASE Arriving(e, c) /\ v.doc.slot = None
    BY <1>6, <1>7, <1>8, <2>4
  <2>5. CASE c \in v.doc.sessions
    BY <1>2, <1>5, <1>9, <2>5 DEF ToldIn
  <2> QED BY <2>3, <2>4, <2>5
<1>10. Heard(v, st)[c] # "daemonAbsent"
  BY <1>1, <1>5, <1>9 DEF Heard
<1> QED BY <1>1, <1>5, <1>10 DEF v, st
LEMMA AbsentNext ==
  ASSUME Sound, HoldersAreMarked, SessionsWereTold, [Next]_vars,
         NEW c \in CSocket, told[c] = None, told'[c] = "daemonAbsent"
  PROVE  ~\E s \in DSocket : Serving(s)
PROOF
<1> SUFFICES ASSUME NEW s \in DSocket, Serving(s) PROVE FALSE
  OBVIOUS
<1>1. rt[s] = "open" /\ OnClaim(s) /\ None # "daemonAbsent"
  BY RendezvousAssumption DEF Serving, OnClaim, Code
<1>2. ASSUME NEW e \in Events, Handle(e) PROVE FALSE
  <2>1. told' = Heard(Seen(Due(e), e), Done(Due(e), e)) /\ OfNow(Due(e))
    BY <1>2, HandleIs, WorldIs
  <2> QED BY <1>1, <2>1, AbsentIsTrue DEF Done
<1>3. CASE Reset
  <2>1. PICK e \in Events \cup {Event("none", None)} : \E w \in Halves(e) : Becomes(CutOff(w, e))
    BY <1>3, ResetIs
  <2>2. PICK w \in Halves(e) : Becomes(CutOff(w, e))
    BY <2>1
  <2>3. w \in Worlds /\ told' = w.told
    BY <2>2, HalvesAre DEF CutOff, Becomes, Worlds
  <2> DEFINE v == Seen(World, e)
             st == Reduce(v.doc, e)
             rec == Reconcile(doc)
  <2>4. OfNow(World) /\ v \in Worlds
    BY WorldIs, SeenIs
  <2>5. st \in Steps /\ rec \in Steps
    BY <2>4, ReduceIsSane, ReconcileIsSane DEF Worlds, Sane, Sound
  <2>6. v.told[c] # "daemonAbsent" /\ Heard(v, st)[c] # "daemonAbsent"
    BY <1>1, <2>4, AbsentIsTrue
  <2>7. w \in {World, v, Put(World, rec), Put(v, st), Unscheduled(v, st)}
    BY <2>2 DEF Halves, Done, Seen
  <2> HIDE DEF v, st, rec
  <2>8. /\ Put(World, rec).told = World.told /\ Put(v, st).told = v.told
        /\ Unscheduled(v, st).told = Heard(v, st) /\ World.told = told
    BY <2>4, <2>5, PutIs, UnscheduledIs DEF OfNow
  <2> QED BY <1>1, <2>3, <2>6, <2>7, <2>8
<1>4. ASSUME NEW x \in CSocket, ClientDials(x) PROVE FALSE
  BY <1>1, <1>4 DEF ClientDials, Sound
<1>5. CASE UNCHANGED told
  BY <1>1, <1>5
<1> QED
  BY <1>2, <1>3, <1>4, <1>5 DEF Next, vars, ends, Departed, Delist, Silence, Forget, Dial, Abandon, Hear,
     ProbeClaim, Answer, EndSession, ClientSends, ClientLeaves

(* Whatever the document lost and wherever the object was reset: a client that
   arrives is not told the daemon is absent while a daemon serves on a socket the
   relay had accepted as its own. *)
THEOREM DaemonIsFound == Spec => PhoneFindsDaemon
PROOF
<1>1. Init => HoldersAreMarked /\ SessionsWereTold
  BY Distinct DEF Init, HoldersAreMarked, SessionsWereTold, EmptyDoc
<1>2. Sound /\ HoldersAreMarked /\ SessionsWereTold /\ [Next]_vars => (HoldersAreMarked /\ SessionsWereTold)'
  BY CandidNext
<1>3. Sound /\ HoldersAreMarked /\ SessionsWereTold /\ [Next]_vars
        => [\A c \in CSocket : (told[c] = None /\ told'[c] = "daemonAbsent") => ~\E s \in DSocket : Serving(s)]_vars
  BY AbsentNext
<1> QED BY <1>1, <1>2, <1>3, SoundInit, SoundNext, PTL DEF Spec, PhoneFindsDaemon

-----------------------------------------------------------------------------
(* The document and the sockets, whatever a reset or a loss left of them. *)

Named(d) == ({d.slot} \cup d.pending \cup d.sessions) \ {None}

LEMMA ReconciledIsListed ==
  ASSUME NEW d \in Docs, mark \subseteq DSocket \cap Listed
  PROVE  Named(Reconcile(d).doc) \subseteq Listed
PROOF
<1> DEFINE pruned == [d EXCEPT !.pending = @ \cap Listed]
           bereft == IF d.slot # None /\ d.slot \notin Listed THEN DropDaemon(pruned) ELSE pruned
           absent == bereft.sessions \ Listed
           spared == EndedByRendezvous(bereft, absent)
           given == IF spared.slot = None /\ mark # {}
                    THEN [spared EXCEPT !.slot = CHOOSE s \in mark : TRUE, !.restored = TRUE]
                    ELSE spared
           S == TellDaemon(bereft, absent)
           C == Shut(d.sessions \ bereft.sessions, "daemonAbsent")
                  \cup Shut(mark \ {given.slot}, "claimLost")
<1>1. pruned \in Docs /\ pruned.slot = d.slot /\ pruned.pending \subseteq Listed
  BY DEF Docs
<1>2. bereft \in Docs /\ bereft.slot \in Listed \cup {None} /\ bereft.pending \subseteq Listed
  <2> HIDE DEF pruned
  <2>1. DropDaemon(pruned).pending = pruned.pending
    BY <1>1 DEF DropDaemon, Docs
  <2> QED BY <1>1, <2>1, DocTypes
<1>3. absent \in SUBSET CSocket
  <2> HIDE DEF bereft
  <2> QED BY <1>2 DEF Docs
<1>4. spared \in Docs /\ Named(spared) \subseteq Listed
  <2> HIDE DEF bereft
  <2>1. spared.slot = bereft.slot /\ spared.pending = bereft.pending /\ spared.sessions \subseteq Listed
    BY <1>2 DEF EndedByRendezvous, Docs
  <2> HIDE DEF absent
  <2> QED BY <1>2, <1>3, <2>1, DocTypes DEF Named
<1>5. Named(given) \subseteq Listed
  <2> HIDE DEF spared
  <2>1. CASE spared.slot = None /\ mark # {}
    <3>1. PICK x \in mark : x = (CHOOSE s \in mark : TRUE)
      BY <2>1
    <3>2. given.slot = x /\ given.pending = spared.pending /\ given.sessions = spared.sessions
      BY <1>4, <2>1, <3>1 DEF Docs
    <3> HIDE DEF given
    <3> QED BY <1>4, <3>2 DEF Named
  <2>2. CASE ~(spared.slot = None /\ mark # {})
    BY <1>4, <2>2
  <2> QED BY <2>1, <2>2
<1>6. Reconcile(d) = Swept(given, S, C)
  BY DEF Reconcile
<1> HIDE DEF given, S, C
<1> QED BY <1>5, <1>6, SweptIs

(* So is the document a frame's handler or the sweep goes by. *)
LEMMA SeenIsListed ==
  ASSUME Sound, NEW w, OfNow(w), NEW e, e.kind \in {"frame", "alarm"}
  PROVE  Named(Seen(w, e).doc) \subseteq Listed
PROOF
<1>1. Named(Reconcile(doc).doc) \subseteq Listed
  BY ReconciledIsListed, Distinct DEF Sound, Listed
<1>2. CASE ~Reconciles(e) /\ Seen(w, e) = w
  BY <1>1, <1>2 DEF Reconciles, Disagree, OfNow
<1>3. CASE Seen(w, e) = ApplyStep(w, Reconcile(doc)) /\ Reconcile(doc) \in Steps
  BY <1>1, <1>3, ApplyStepIs DEF OfNow
<1> QED BY <1>2, <1>3, SeenIs

(* A frame's handler names at most the socket it came on, the sweep none. *)
Names(d, st, X) == Named(st.doc) \subseteq Named(d) \cup X

LEMMA StepNames ==
  ASSUME NEW d, NEW n, NEW X, Named(n) \subseteq Named(d) \cup X, NEW S, NEW C
  PROVE  Names(d, Step(n, S, C), X) /\ Names(d, Swept(n, S, C), X)
BY SweptIs DEF Names

LEMMA FewerNamed ==
  ASSUME NEW d \in Docs, NEW C
  PROVE  /\ Named(EndedByRendezvous(d, C)) \subseteq Named(d)
         /\ Named([d EXCEPT !.sessions = @ \ C]) \subseteq Named(d)
         /\ Named(DropDaemon(d)) \subseteq Named(d)
         /\ Named(DropPending(d, C)) \subseteq Named(d)
         /\ Named([d EXCEPT !.pending = @ \ C]) \subseteq Named(d)
BY DEF Named, EndedByRendezvous, DropDaemon, DropPending, Docs

LEMMA FrameNames ==
  ASSUME NEW d \in Docs, NEW s \in Socket, NEW m
  PROVE  Names(d, OnFrame(d, s, m), {s})
PROOF
<1>1. \A S, C : Names(d, Step(d, S, C), {s})
  BY StepNames
<1>2. \A E, S, C : /\ Names(d, Step(EndedByRendezvous(d, E), S, C), {s})
                   /\ Names(d, Step([d EXCEPT !.sessions = @ \ E], S, C), {s})
  BY FewerNamed, StepNames
<1>3. \A x, S, C : Names(d, Step(DropPending(d, x), S, C), {s})
  BY FewerNamed, StepNames
<1>4. Names(d, OnDaemonFrame(d, m), {s})
  BY <1>1, <1>2 DEF OnDaemonFrame
<1>5. \A c : Names(d, OnClientFrame(d, c, m), {s})
  BY <1>1, <1>2 DEF OnClientFrame
<1> QED BY <1>1, <1>3, <1>4, <1>5 DEF OnFrame

LEMMA ArrivalNames ==
  ASSUME NEW d \in Docs, NEW s
  PROVE  Names(d, OnDaemonArrived(d, s), {s}) /\ Names(d, OnClientArrived(d, s), {s})
PROOF
<1>1. /\ Named([d EXCEPT !.pending = @ \cup {s}]) \subseteq Named(d) \cup {s}
      /\ Named([d EXCEPT !.sessions = @ \cup {s}]) \subseteq Named(d) \cup {s}
  BY DEF Named, Docs
<1>2. \A S, C : Names(d, Step(d, S, C), {s})
  BY StepNames
<1>3. \A S, C : /\ Names(d, Swept([d EXCEPT !.pending = @ \cup {s}], S, C), {s})
                /\ Names(d, Swept([d EXCEPT !.sessions = @ \cup {s}], S, C), {s})
  BY <1>1, StepNames
<1> QED BY <1>2, <1>3 DEF OnDaemonArrived, OnClientArrived

(* The sweep lets go of a mute daemon in the document and on its socket. *)
LEMMA SweepNames ==
  ASSUME NEW d \in Docs
  PROVE  /\ Names(d, OnAlarm(d), {})
         /\ d.slot \in dead => d.slot \in Shutting(OnAlarm(d))
PROOF
<1> DEFINE late == {s \in d.pending : Overdue(s)}
           pruned == [d EXCEPT !.pending = @ \ late]
           mute == {d.slot} \cap dead
           bereft == IF mute = {} THEN pruned ELSE DropDaemon(pruned)
           still == bereft.sessions \cap dead
           spared == EndedByRendezvous(bereft, still)
           S == TellDaemon(bereft, still)
           lost == (d.sessions \ bereft.sessions) \cup still \cup mute
           C == Shut(late, "claimTimeout") \cup Shut(lost, "heartbeatTimeout")
<1>1. pruned \in Docs /\ Named(pruned) \subseteq Named(d)
  <2>1. pruned \in Docs
    BY DEF Docs
  <2> HIDE DEF late
  <2> QED BY <2>1, FewerNamed
<1>2. bereft \in Docs /\ Named(bereft) \subseteq Named(d)
  <2> HIDE DEF pruned
  <2> QED BY <1>1, DocTypes, FewerNamed
<1>3. Named(spared) \subseteq Named(d)
  <2> HIDE DEF bereft, still
  <2> QED BY <1>2, FewerNamed
<1>4. d.slot \in dead => [to |-> d.slot, code |-> "heartbeatTimeout"] \in C
  <2>1. d.slot \in dead => d.slot \in lost
    OBVIOUS
  <2> HIDE DEF lost, late
  <2> QED BY <2>1 DEF Shut
<1>5. OnAlarm(d) = Swept(spared, S, C)
  BY DEF OnAlarm
<1> HIDE DEF spared, S, C
<1>6. OnAlarm(d).closes = C
  BY <1>5, SweptIs
<1>7. d.slot \in dead => d.slot \in Shutting(OnAlarm(d))
  BY <1>4, <1>6 DEF Shutting
<1> QED BY <1>3, <1>5, <1>7, StepNames

LEMMA ReduceNames ==
  ASSUME NEW d \in Docs, NEW e, e.kind \in {"frame", "alarm"}, e.kind = "frame" => e.s \in Socket
  PROVE  Names(d, Reduce(d, e), IF e.kind = "frame" THEN {e.s} ELSE {})
PROOF
<1>1. CASE e.kind = "alarm"
  BY <1>1, SweepNames DEF Reduce, IsClaim
<1>2. CASE e.kind = "frame"
  <2>1. \/ Reduce(d, e) = OnDaemonArrived(d, e.s) \/ Reduce(d, e) = OnClientArrived(d, e.s)
        \/ Reduce(d, e) = Step(d, {}, {}) \/ Reduce(d, e) = OnFrame(d, e.s, Head(up[e.s]))
    <3>1. CASE Head(up[e.s]).t = "arrive"
      BY <1>2, <3>1 DEF Reduce, IsClaim
    <3>2. CASE Head(up[e.s]).t # "arrive" /\ IsClaim(d, e)
      BY <1>2, <3>2 DEF Reduce
    <3>3. CASE Head(up[e.s]).t # "arrive" /\ ~IsClaim(d, e)
      BY <1>2, <3>3 DEF Reduce
    <3> QED BY <3>1, <3>2, <3>3
  <2>2. Names(d, Step(d, {}, {}), {e.s})
    BY StepNames
  <2> QED BY <1>2, <2>1, <2>2, ArrivalNames, FrameNames
<1> QED BY <1>1, <1>2

LEMMA HandlerAgrees ==
  ASSUME Sound, NEW e \in Events, Handle(e), e.kind \in {"frame", "alarm"}
  PROVE  StoresAgree'
PROOF
<1> DEFINE w == Seen(Due(e), e)
           st == Done(Due(e), e)
<1>1. /\ w \in Worlds /\ Faded(w) /\ Moved(w.doc, e, st)
      /\ doc' = st.doc /\ rt' = Closed(w, st) /\ mark' = Marking(w, st) \ Shutting(st)
      /\ st = Reduce(w.doc, e)
  BY HandleIs DEF Done
<1>2. w.mark \subseteq {w.doc.slot} /\ Named(w.doc) \subseteq Listed
  BY WorldIs, Agreed, SeenIsListed
<1>3. e.kind = "frame" => e.s \in Socket /\ rt[e.s] # "gone" /\ e.s \in Listed
  BY EventsAre DEF Listed
<1>4. w.doc \in Docs
  BY <1>1 DEF Worlds
<1> HIDE DEF w, st
<1>5. Named(doc') \subseteq Listed
  <2>1. Names(w.doc, st, IF e.kind = "frame" THEN {e.s} ELSE {})
    BY <1>1, <1>3, <1>4, ReduceNames
  <2> QED BY <1>1, <1>2, <1>3, <2>1 DEF Names
<1>6. Listed \subseteq Listed'
  <2>1. \A s \in Socket : rt[s] # "gone" => rt'[s] # "gone"
    BY <1>1 DEF Closed, Faded
  <2> QED BY <2>1 DEF Listed
<1>7. mark' \subseteq {doc'.slot}
  <2>1. mark' \subseteq {w.doc.slot, doc'.slot} \ Shutting(st)
    BY <1>1, <1>2 DEF Marking
  <2>2. CASE e.kind = "frame"
    BY <1>1, <2>1, <2>2 DEF Moved
  <2>3. CASE e.kind = "alarm"
    <3>1. st = OnAlarm(w.doc)
      BY <1>1, <2>3 DEF Reduce, IsClaim
    <3>2. w.doc.slot \in dead => w.doc.slot \in Shutting(st)
      BY <1>4, <3>1, SweepNames
    <3>3. w.doc.slot \notin dead => doc'.slot = w.doc.slot
      BY <1>1, <2>3 DEF Moved
    <3> QED BY <2>1, <3>2, <3>3
  <2> QED BY <2>2, <2>3
<1> QED BY <1>5, <1>6, <1>7 DEF StoresAgree, Named

(* Wherever a reset cut a handler off and whatever the document lost, the next
   frame or sweep leaves it naming no socket the runtime let go of, and no claim
   beside the slot's. *)
THEOREM HandlersReconcile == Spec => HandlersAgree
PROOF
<1>1. Sound /\ [Next]_vars
        => [ \/ StoresAgree'
             \/ ~\E e \in Events : e.kind \in {"frame", "alarm"} /\ Handle(e) ]_vars
  BY HandlerAgrees
<1> QED BY <1>1, SoundInit, SoundNext, PTL DEF Spec, HandlersAgree

=============================================================================
