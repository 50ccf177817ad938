--------------------------- MODULE RendezvousOrder ---------------------------
(***************************************************************************)
(* What crosses between the relay and a daemon, for every value of the     *)
(* constants: the order of what is in flight on each socket, what a daemon *)
(* then makes of it, and the sessions both ends come to run.               *)
(*                                                                         *)
(* A handler passes through several states before its step ends (document  *)
(* corrected, event taken, transition applied), and a reset may stop it    *)
(* between any two.  So the invariant is stated of a view, the document,   *)
(* the sockets, the daemons' ends and what is between them, and three      *)
(* lemmas carry it from one view to the next: an orderly transition keeps  *)
(* it (OrderIsKept), so does losing something (FewerOrder) and so does a   *)
(* move of one end of one socket (OneEnd).  The rest of the module shows   *)
(* that what the code does is one of the three.                            *)
(***************************************************************************)
EXTENDS RendezvousProofs

-----------------------------------------------------------------------------
(* Frames that cross.  A view is what is on its way between the relay and a
   daemon, with both its ends; a handler passes through several of them. *)

Views == [doc : Docs, rt : [Socket -> Runtime], mark : SUBSET DSocket,
          down : [DSocket -> Seq(Frames)], up : [Socket -> Seq(Frames)],
          ver : {None} \cup [sock : DSocket, replaces : DSocket \cup {None}],
          link : [Daemon -> LinkType], dead : SUBSET Socket]
View(w, u, v) == [doc |-> w.doc, rt |-> w.rt, mark |-> w.mark, down |-> w.down, up |-> u, ver |-> v,
                  link |-> link, dead |-> dead]
Now == View(World, up, verifying)

(* No frame of B comes after one of A. *)
Apart(q, A, B) == \A i, j \in DOMAIN q : i < j => ~(q[i] \in A /\ q[j] \in B)

Begin(c)  == About("open", c)
Finish(c) == About("closed", c)
Carry(c)  == About("data", c)
Of(c)     == {Begin(c), Finish(c), Carry(c)}
Opening   == {Word("arrive")} \cup {Claim(r) : r \in DSocket \cup {None}}
Upward    == Opening \cup {Word("probe")} \cup {Finish(c) : c \in CSocket} \cup {Carry(c) : c \in CSocket}
Farewells == {CloseFrame(k) : k \in Code}

(* The daemon's end of a socket, and whether a frame sent on it arrives. *)
On(y, s) == y.link[Owner[s]].sock = s
Linked(y, s) == y.rt[s] = "open" /\ s \notin y.dead /\ On(y, s)
End(y, s) == IF On(y, s) THEN y.link[Owner[s]] ELSE NoLink
Known(y, s) == End(y, s).sess \cup End(y, s).over
Silent(y, s, c) == Of(c) \cap (Within(y.down[s]) \cup Within(y.up[s])) = {}
Gone(y) == {c \in CSocket : y.rt[c] = "gone"}

(* To a daemon a session is opened once, before anything else is said of it and
   when nothing is on its way from it; data comes to a session that is known or
   opened and was not closed before.  From a daemon nothing follows the end of a
   session, and no session it runs has one coming. *)
DownInOrder(y, s) ==
  /\ y.down[s] # <<>> => On(y, s)
  /\ Apart(y.down[s], {Word("challenge")}, {Word("challenge")})
  /\ \A c \in CSocket :
       /\ Apart(y.down[s], Of(c), {Begin(c)}) /\ Apart(y.down[s], {Finish(c)}, {Carry(c)})
       /\ Begin(c) \in Within(y.down[s]) => c \notin Known(y, s) /\ Of(c) \cap Within(y.up[s]) = {}
       /\ Carry(c) \in Within(y.down[s]) => c \in Known(y, s) \/ Begin(c) \in Within(y.down[s])
UpInOrder(y, s) ==
  /\ Within(y.up[s]) \subseteq Upward
  /\ Apart(y.up[s], Opening, Opening)
  /\ \A c \in CSocket :
       /\ Apart(y.up[s], {Finish(c)}, Of(c))
       /\ Finish(c) \in Within(y.up[s]) => c \notin End(y, s).sess
QueuesInOrder(y) == \A s \in DSocket : DownInOrder(y, s) /\ UpInOrder(y, s)

(* Only what is no longer open was closed, and no holder of the claim has an
   error coming. *)
Claims(y, s) == End(y, s).claimed \/ Word("claimed") \in Within(y.down[s])
ClosesAreFair(y) ==
  \A s \in DSocket :
    /\ Within(y.down[s]) \cap Farewells # {} => y.rt[s] # "open"
    /\ Claims(y, s) => CloseFrame("protocolError") \notin Within(y.down[s])

(* Arrival, challenge, claim and verdict follow each other, and until then the
   socket is nothing to the relay and its daemon has no session on it. *)
Calls(y, s) == Within(y.up[s]) \cap Opening # {}
Challenged(y, s) == Word("challenge") \in Within(y.down[s])
Verified(y, s) == y.ver # None /\ y.ver.sock = s
Blank(y, s) ==
  /\ s \notin y.mark /\ s # y.doc.slot /\ ~Claims(y, s) /\ Known(y, s) = {}
  /\ \A c \in CSocket : Silent(y, s, c)
Apace(y, s) == ~(Calls(y, s) /\ Challenged(y, s)) /\ ~(Calls(y, s) /\ Verified(y, s))
               /\ ~(Challenged(y, s) /\ Verified(y, s))
Early(y, s) == Calls(y, s) \/ Challenged(y, s) \/ Verified(y, s)
ClaimComesFirst(y) == \A s \in DSocket : Apace(y, s) /\ (Early(y, s) => Blank(y, s))
Clear(y, s) == Blank(y, s) /\ ~Early(y, s)

(* Nobody knows a client that has yet to arrive. *)
Newcomer(y, c) == Word("arrive") \in Within(y.up[c])
Unknown(y, c) ==
  /\ c \notin y.doc.sessions \cup y.doc.ended
  /\ \A s \in DSocket : Silent(y, s, c) /\ c \notin Known(y, s)
NewcomersAreUnknown(y) ==
  \A c \in CSocket : /\ Apart(y.up[c], {Word("arrive")}, {Word("arrive")})
                     /\ Newcomer(y, c) => Unknown(y, c)
Stranger(y, c) == Unknown(y, c) /\ ~Newcomer(y, c)

(* The slot's daemon knows each session of the document, or is being told, but
   for the clients X. *)
Bare(o) == o.slot = None => o.sessions = {} /\ o.ended = {}
Unfinished(y) == \A c \in y.doc.sessions : \A s \in DSocket : Finish(c) \notin Within(y.down[s])
Opened(y, X) ==
  y.doc.slot # None /\ Linked(y, y.doc.slot) =>
    \A c \in y.doc.sessions \ X : c \in Known(y, y.doc.slot) \/ Begin(c) \in Within(y.down[y.doc.slot])

(* And the document remembers each session the slot's daemon can speak of. *)
SessionsAreKnown(y) ==
  y.doc.slot # None /\ ~y.doc.restored =>
    \A c \in CSocket :
      \/ c \in End(y, y.doc.slot).sess
      \/ Begin(c) \in Within(y.down[y.doc.slot])
      \/ Of(c) \cap Within(y.up[y.doc.slot]) # {}
      => c \in y.doc.sessions \cup y.doc.ended

Ordered(y, X) ==
  /\ QueuesInOrder(y) /\ ClosesAreFair(y) /\ ClaimComesFirst(y) /\ NewcomersAreUnknown(y)
  /\ Bare(y.doc) /\ Unfinished(y) /\ Opened(y, X) /\ SessionsAreKnown(y)

(* What a transition may send to daemons, and do to the document. *)
Spent(y, s, c) == c \notin End(y, s).sess /\ Begin(c) \notin Within(y.down[s])
                  /\ Of(c) \cap Within(y.up[s]) = {}
MaySend(y, st, X, s, m) ==
  /\ m = Word("challenge") => Clear(y, s) /\ s # st.doc.slot
  /\ m = Word("claimed") => Clear(y, s) /\ st.doc.slot = s
  /\ \A c \in CSocket :
       /\ m \in Of(c) => s = y.doc.slot /\ s = st.doc.slot
       /\ m = Begin(c) => Stranger(y, c) /\ c \in st.doc.sessions
       /\ m = Finish(c) => c \notin st.doc.sessions /\ ~Newcomer(y, c)
       /\ m = Carry(c) => c \in y.doc.sessions \ X /\ c \in st.doc.sessions
Terse(st) ==
  \A s \in DSocket : \/ \E m \in Sent : \A x \in Sent : To(s, x) \in st.sends => x = m
                     \/ \A x \in Sent : To(s, x) \in st.sends => \E c \in CSocket : x = Finish(c)
NewSlot(y, st) ==
  /\ st.doc.sessions = {} /\ st.doc.ended = {}
  /\ st.doc.slot # None => (Clear(y, st.doc.slot) /\ ~st.doc.restored) \/ (st.doc.slot \in y.mark /\ st.doc.restored)
  /\ y.doc.slot # None => y.doc.slot \in Shutting(st) \/ y.rt[y.doc.slot] # "open"
SameSlot(y, st) ==
  /\ st.doc.restored = y.doc.restored /\ y.doc.ended \subseteq st.doc.ended
  /\ \A c \in st.doc.sessions \ y.doc.sessions : Stranger(y, c) /\ To(y.doc.slot, Begin(c)) \in st.sends
  /\ \A c \in st.doc.ended \ y.doc.ended : ~Newcomer(y, c)
  /\ \A c \in y.doc.sessions \ st.doc.sessions : \/ c \in st.doc.ended /\ To(y.doc.slot, Finish(c)) \in st.sends
                                        \/ Spent(y, y.doc.slot, c)
Orderly(y, st, X) ==
  /\ Bare(st.doc) /\ Terse(st)
  /\ \A s \in DSocket : \A m \in Sent : To(s, m) \in st.sends => MaySend(y, st, X, s, m)
  /\ IF st.doc.slot = y.doc.slot THEN SameSlot(y, st) ELSE NewSlot(y, st)
  /\ \A s \in DSocket : [to |-> s, code |-> "protocolError"] \in st.closes /\ y.rt[s] = "open"
       => ~Claims(y, s) /\ To(s, Word("claimed")) \notin st.sends

(* Short of a reset or a loss: an open socket's mark is the slot's, the daemon
   was sent the end of every session it still runs that the document dropped,
   and the relay is being sent the end of every one the daemon is done with. *)
MarkIsSlots(y) ==
  /\ \A s \in y.mark : y.rt[s] = "open" => y.doc.slot = s
  /\ y.doc.restored /\ y.doc.slot # None => y.rt[y.doc.slot] # "open"
Answered(y) ==
  y.doc.slot # None /\ Linked(y, y.doc.slot) =>
    \A c \in CSocket : c \in End(y, y.doc.slot).sess \/ Begin(c) \in Within(y.down[y.doc.slot])
           => c \in y.doc.sessions \/ Finish(c) \in Within(y.down[y.doc.slot])
Echoed(y, P) ==
  y.doc.slot # None /\ Linked(y, y.doc.slot) =>
    \A c \in y.doc.sessions \ P : c \in End(y, y.doc.slot).over => Finish(c) \in Within(y.up[y.doc.slot])
Agreeing(y, P) == MarkIsSlots(y) /\ Opened(y, {}) /\ Answered(y) /\ Echoed(y, P)

-----------------------------------------------------------------------------
(* Queues. *)

LEMMA QueueNone ==
  Within(<<>>) = {} /\ \A A, B : Apart(<<>>, A, B)
BY DEF Within, Apart

LEMMA QueueTail ==
  ASSUME NEW q \in Seq(Frames), q # <<>>
  PROVE  /\ Within(q) = {Head(q)} \cup Within(Tail(q))
         /\ \A A, B : Apart(q, A, B) => /\ Apart(Tail(q), A, B)
                                        /\ Head(q) \in A => B \cap Within(Tail(q)) = {}
PROOF
<1>1. /\ DOMAIN q = 1 .. Len(q) /\ DOMAIN Tail(q) = 1 .. Len(Tail(q)) /\ Len(q) \in Nat \ {0}
      /\ Len(Tail(q)) = Len(q) - 1 /\ Head(q) = q[1]
      /\ \A i \in 1 .. Len(Tail(q)) : Tail(q)[i] = q[i + 1] /\ i + 1 \in 1 .. Len(q)
  OBVIOUS
<1>2. Within(q) \subseteq {Head(q)} \cup Within(Tail(q))
  <2> SUFFICES ASSUME NEW i \in 1 .. Len(q), i # 1 PROVE q[i] \in Within(Tail(q))
    BY <1>1 DEF Within
  <2>1. i - 1 \in 1 .. Len(Tail(q)) /\ Tail(q)[i - 1] = q[i]
    BY <1>1
  <2> QED BY <1>1, <2>1 DEF Within
<1>3. Within(q) = {Head(q)} \cup Within(Tail(q))
  <2>1. 1 \in DOMAIN q
    BY <1>1
  <2> QED BY <1>1, <1>2, <2>1 DEF Within
<1>4. ASSUME NEW A, NEW B, Apart(q, A, B)
      PROVE  Apart(Tail(q), A, B) /\ (Head(q) \in A => B \cap Within(Tail(q)) = {})
  <2>1. Apart(Tail(q), A, B)
    BY <1>1, <1>4 DEF Apart
  <2>2. ASSUME NEW i \in 1 .. Len(Tail(q)), q[1] \in A PROVE Tail(q)[i] \notin B
    BY <1>1, <1>4, <2>2 DEF Apart
  <2> QED BY <1>1, <2>1, <2>2 DEF Within
<1> QED BY <1>3, <1>4

LEMMA QueueAppend ==
  ASSUME NEW q \in Seq(Frames), NEW m \in Frames
  PROVE  /\ Within(Append(q, m)) = Within(q) \cup {m}
         /\ \A A, B : Apart(q, A, B) /\ (m \in B => A \cap Within(q) = {}) => Apart(Append(q, m), A, B)
PROOF
<1> DEFINE p == Append(q, m)
<1>1. /\ DOMAIN q = 1 .. Len(q) /\ DOMAIN p = 1 .. Len(q) + 1 /\ Len(q) \in Nat
      /\ p[Len(q) + 1] = m /\ \A i \in 1 .. Len(q) : p[i] = q[i]
  OBVIOUS
<1> HIDE DEF p
<1>2. Within(p) = Within(q) \cup {m}
  <2>1. \A i \in 1 .. Len(q) + 1 : i = Len(q) + 1 \/ i \in 1 .. Len(q)
    BY <1>1
  <2>2. Within(p) \subseteq Within(q) \cup {m}
    BY <1>1, <2>1 DEF Within
  <2>3. \A i \in 1 .. Len(q) : i \in 1 .. Len(q) + 1
    BY <1>1
  <2>4. Len(q) + 1 \in DOMAIN p
    BY <1>1
  <2>5. m \in Within(p)
    BY <1>1, <2>4 DEF Within
  <2>6. Within(q) \subseteq Within(p)
    BY <1>1, <2>3 DEF Within
  <2> QED BY <2>2, <2>5, <2>6
<1>3. ASSUME NEW A, NEW B, Apart(q, A, B), m \in B => A \cap Within(q) = {}
      PROVE  Apart(p, A, B)
  <2> SUFFICES ASSUME NEW i \in 1 .. Len(q) + 1, NEW j \in 1 .. Len(q) + 1, i < j, p[i] \in A, p[j] \in B
               PROVE  FALSE
    BY <1>1 DEF Apart
  <2>1. i \in 1 .. Len(q) /\ p[i] = q[i]
    BY <1>1
  <2>2. CASE j = Len(q) + 1
    BY <1>1, <1>3, <2>1, <2>2 DEF Within
  <2>3. CASE j # Len(q) + 1
    <3>1. j \in 1 .. Len(q) /\ p[j] = q[j]
      BY <1>1, <2>3
    <3> QED BY <1>1, <1>3, <2>1, <3>1 DEF Apart
  <2> QED BY <2>2, <2>3
<1> QED BY <1>2, <1>3 DEF p

LEMMA QueueJoin ==
  ASSUME NEW q \in Seq(Frames), NEW r \in Seq(Frames)
  PROVE  /\ Within(q \o r) = Within(q) \cup Within(r)
         /\ \A A, B : /\ Apart(q, A, B) /\ Apart(r, A, B)
                      /\ A \cap Within(q) = {} \/ B \cap Within(r) = {}
                      => Apart(q \o r, A, B)
PROOF
<1> DEFINE p == q \o r
<1>1. /\ DOMAIN q = 1 .. Len(q) /\ DOMAIN r = 1 .. Len(r) /\ Len(q) \in Nat /\ Len(r) \in Nat
      /\ DOMAIN p = 1 .. Len(q) + Len(r)
      /\ \A i \in 1 .. Len(q) : p[i] = q[i] /\ i \in 1 .. Len(q) + Len(r)
      /\ \A i \in 1 .. Len(r) : p[Len(q) + i] = r[i] /\ Len(q) + i \in 1 .. Len(q) + Len(r)
  OBVIOUS
<1> HIDE DEF p
<1>2. \A i \in DOMAIN p : \/ i \in 1 .. Len(q) /\ p[i] = q[i]
                          \/ i - Len(q) \in 1 .. Len(r) /\ p[i] = r[i - Len(q)]
  <2> SUFFICES ASSUME NEW i \in 1 .. Len(q) + Len(r), i \notin 1 .. Len(q)
               PROVE  i - Len(q) \in 1 .. Len(r) /\ p[i] = r[i - Len(q)]
    BY <1>1
  <2>1. i - Len(q) \in 1 .. Len(r) /\ Len(q) + (i - Len(q)) = i
    BY <1>1
  <2> QED BY <1>1, <2>1
<1>3. Within(p) = Within(q) \cup Within(r)
  <2>1. Within(p) \subseteq Within(q) \cup Within(r)
    BY <1>1, <1>2 DEF Within
  <2>2. Within(q) \subseteq Within(p)
    BY <1>1 DEF Within
  <2>3. Within(r) \subseteq Within(p)
    BY <1>1 DEF Within
  <2> QED BY <2>1, <2>2, <2>3
<1>4. ASSUME NEW A, NEW B, Apart(q, A, B), Apart(r, A, B), A \cap Within(q) = {} \/ B \cap Within(r) = {}
      PROVE  Apart(p, A, B)
  <2> SUFFICES ASSUME NEW i \in DOMAIN p, NEW j \in DOMAIN p, i < j, p[i] \in A, p[j] \in B PROVE FALSE
    BY DEF Apart
  <2>1. i \in Int /\ j \in Int
    BY <1>1
  <2>2. CASE i \in 1 .. Len(q) /\ j \in 1 .. Len(q)
    BY <1>1, <1>4, <2>2 DEF Apart
  <2>3. CASE i - Len(q) \in 1 .. Len(r) /\ p[i] = r[i - Len(q)] /\ j \in 1 .. Len(q)
    BY <1>1, <2>1, <2>3
  <2>4. CASE i \in 1 .. Len(q) /\ j - Len(q) \in 1 .. Len(r) /\ p[j] = r[j - Len(q)]
    <3>1. p[i] \in Within(q) /\ p[j] \in Within(r)
      BY <1>1, <2>4 DEF Within
    <3> QED BY <1>4, <3>1
  <2>5. CASE i - Len(q) \in 1 .. Len(r) /\ p[i] = r[i - Len(q)] /\ j - Len(q) \in 1 .. Len(r) /\ p[j] = r[j - Len(q)]
    <3>1. i - Len(q) < j - Len(q)
      BY <1>1, <2>1
    <3> QED BY <1>1, <1>4, <2>5, <3>1 DEF Apart
  <2> QED BY <1>2, <2>2, <2>3, <2>4, <2>5
<1> QED BY <1>3, <1>4 DEF p

(* Each word goes out once. *)
LEMMA WordsOnce ==
  ASSUME NEW st \in Steps, NEW s
  PROVE  /\ Words(st, s) \in Seq(Frames)
         /\ Within(Words(st, s)) = {m \in Sent : To(s, m) \in st.sends}
         /\ \A m : Apart(Words(st, s), {m}, {m})
PROOF
<1> DEFINE S == {e.msg : e \in {f \in st.sends : f.to = s}}
           T == {m \in Sent : To(s, m) \in st.sends}
           g == Words(st, s)
<1>1. S = T
  BY DEF Steps, Outgoing, To
<1>2. IsFiniteSet(S) /\ T \subseteq Frames
  BY <1>1, FinitelyMuch, FS_Subset
<1>3. g = SetToSeq(S)
  BY DEF Words
<1>10. g \in Seq(T)
  BY WordsAre
<1>11. \A m : To(s, m) \in st.sends => \E i \in 1 .. Len(g) : g[i] = m
  <2> HIDE DEF T, S
  <2> QED BY WordsAre, Zenon
<1>13. \A m \in T : To(s, m) \in st.sends
  OBVIOUS
<1> HIDE DEF S, T
<1>4. PICK n \in Nat : n = Cardinality(S) /\ ExistsBijection(1 .. n, S)
  BY <1>2, FS_CardinalityType
<1>5. PICK f \in Bijection(1 .. n, S) : TRUE
  BY <1>4 DEF ExistsBijection
<1>6. f \in [1 .. n -> S] /\ IsInjective(f)
  BY <1>5 DEF Bijection, Injection
<1>7. SetToSeq(S) \in [1 .. n -> S] /\ IsInjective(SetToSeq(S))
  BY <1>4, <1>6 DEF SetToSeq
<1> HIDE DEF g
<1>8. \A m : Apart(g, {m}, {m})
  <2>1. \A i, j \in DOMAIN g : g[i] = g[j] => i = j
    BY <1>3, <1>7 DEF IsInjective
  <2>2. DOMAIN g = 1 .. Len(g)
    BY <1>10
  <2> QED BY <2>1, <2>2 DEF Apart
<1>9. Within(g) = T
  <2>1. DOMAIN g = 1 .. Len(g) /\ \A i \in 1 .. Len(g) : g[i] \in T
    BY <1>10
  <2> QED BY <1>11, <1>13, <2>1 DEF Within
<1>12. g \in Seq(Frames)
  BY <1>2, <1>10
<1> QED BY <1>8, <1>9, <1>12 DEF g, T

LEMMA FramesDiffer ==
  /\ \A c \in CSocket : Of(c) \subseteq Frames /\ Begin(c) # Finish(c) /\ Begin(c) # Carry(c) /\ Finish(c) # Carry(c)
  /\ \A b, c : b # c => Of(b) \cap Of(c) = {}
  /\ \A c, k : CloseFrame(k) \notin Of(c)
  /\ \A c, t : Word(t) \notin Of(c)
  /\ \A c, r : Claim(r) \notin Of(c)
  /\ \A t, u : Word(t) = Word(u) => t = u
  /\ \A t, r : Word(t) # Claim(r)
  /\ \A t, k : Word(t) # CloseFrame(k)
  /\ \A j, k : CloseFrame(j) = CloseFrame(k) => j = k
  /\ \A r, k : Claim(r) # CloseFrame(k)
BY DEF Of, Begin, Finish, Carry, About, Word, Claim, CloseFrame, Frames

-----------------------------------------------------------------------------
(* From a view to the next: what a step, written or carried out, makes of the
   queues. *)

Speaks(st, s) == {m \in Sent : To(s, m) \in st.sends}
Goodbyes(st, s) == {CloseFrame(k) : k \in {j \in Code : [to |-> s, code |-> j] \in st.closes}}
Lengthened(y, z, st, s) ==
  /\ Within(y.down[s]) \subseteq Within(z.down[s])
  /\ \A m \in Within(z.down[s]) \ Within(y.down[s]) :
       /\ Linked(y, s)
       /\ m \in Speaks(st, s) \/ (z.rt[s] # "open" /\ m \in Goodbyes(st, s))
  /\ z.down[s] # <<>> => y.down[s] # <<>> \/ Linked(y, s)
  /\ \A A, B : /\ Apart(y.down[s], A, B) /\ B \cap Farewells = {} /\ (\A c \in CSocket : Finish(c) \notin B)
               /\ A \cap Within(y.down[s]) = {} \/ B \cap Speaks(st, s) = {} \/ ~Linked(y, s)
               => Apart(z.down[s], A, B)
Follows(y, z, st) ==
  /\ z.doc = st.doc /\ z.up = y.up /\ z.ver = y.ver /\ z.link = y.link /\ z.dead = y.dead
  /\ \A s \in Socket : /\ z.rt[s] = "open" => y.rt[s] = "open"
                       /\ z.rt[s] = "gone" <=> y.rt[s] = "gone"
  /\ z.mark \subseteq y.mark \cup {st.doc.slot}
  /\ \A s \in DSocket : Lengthened(y, z, st, s)
Arrives(y, z, st) == \A s \in DSocket : Linked(y, s) => Speaks(st, s) \subseteq Within(z.down[s])

Written(y, z, st) ==
  /\ z.doc = st.doc /\ z.up = y.up /\ z.ver = y.ver /\ z.link = y.link /\ z.dead = y.dead
  /\ z.rt = y.rt /\ z.mark = y.mark /\ z.down = y.down
Applied(y, z, st) ==
  /\ z.doc = st.doc /\ z.up = y.up /\ z.ver = y.ver /\ z.link = y.link /\ z.dead = y.dead
  /\ z.rt = Closed(y, st) /\ z.mark = Marking(y, st) \ Shutting(st)
  /\ \A s \in DSocket : z.down[s] = IF Linked(y, s) THEN y.down[s] \o (Words(st, s) \o Farewell(st, s))
                                    ELSE y.down[s]

LEMMA FarewellIs ==
  ASSUME NEW st \in Steps, NEW s \in DSocket
  PROVE  /\ Farewell(st, s) \in Seq(Frames) /\ Within(Farewell(st, s)) \subseteq Goodbyes(st, s)
         /\ s \notin Shutting(st) => Within(Farewell(st, s)) = {}
         /\ \A A, B : Apart(Farewell(st, s), A, B)
PROOF
<1>1. CASE s \notin Shutting(st)
  BY <1>1, QueueNone DEF Farewell
<1>2. CASE s \in Shutting(st)
  <2> DEFINE k == CodeOf(st, s)
             m == CloseFrame(k)
  <2>1. k \in Code /\ \E e \in st.closes : e.to = s /\ e.code = k
    BY <1>2, CodesAre
  <2> HIDE DEF k
  <2>2. [to |-> s, code |-> k] \in st.closes
    BY <2>1 DEF Steps, Outgoing, Closings
  <2>3. m \in Frames
    BY <2>1 DEF CloseFrame, Frames
  <2>4. Farewell(st, s) = <<m>>
    BY <1>2 DEF Farewell, k
  <2>5. m \in Goodbyes(st, s)
    BY <2>1, <2>2 DEF Goodbyes
  <2> HIDE DEF m
  <2>6. <<m>> \in Seq(Frames) /\ DOMAIN <<m>> = {1} /\ <<m>>[1] = m
    BY <2>3
  <2> QED BY <1>2, <2>4, <2>5, <2>6 DEF Within, Apart
<1> QED BY <1>1, <1>2

LEMMA SpeechIs ==
  ASSUME NEW st \in Steps, Terse(st), NEW s \in DSocket, NEW A, NEW B,
         B \cap Farewells = {}, \A c \in CSocket : Finish(c) \notin B
  PROVE  /\ Words(st, s) \o Farewell(st, s) \in Seq(Frames)
         /\ Within(Words(st, s) \o Farewell(st, s)) = Speaks(st, s) \cup Within(Farewell(st, s))
         /\ Apart(Words(st, s) \o Farewell(st, s), A, B)
         /\ B \cap Within(Words(st, s) \o Farewell(st, s)) = B \cap Speaks(st, s)
PROOF
<1> DEFINE v == Words(st, s)
           f == Farewell(st, s)
<1>1. v \in Seq(Frames) /\ Within(v) = Speaks(st, s) /\ \A m : Apart(v, {m}, {m})
  BY WordsOnce DEF Speaks
<1>2. f \in Seq(Frames) /\ Within(f) \subseteq Goodbyes(st, s) /\ Apart(f, A, B)
  BY FarewellIs
<1>3. Goodbyes(st, s) \subseteq Farewells
  BY DEF Goodbyes, Farewells
<1> HIDE DEF v, f
<1>4. Apart(v, A, B)
  <2>1. CASE \E m \in Sent : \A x \in Sent : To(s, x) \in st.sends => x = m
    <3>1. PICK m : \A x \in Within(v) : x = m
      BY <1>1, <2>1 DEF Speaks
    <3>2. \A i \in DOMAIN v : v[i] \in {m}
      BY <3>1 DEF Within
    <3> QED BY <1>1, <3>2 DEF Apart
  <2>2. CASE \A x \in Sent : To(s, x) \in st.sends => \E c \in CSocket : x = Finish(c)
    <3>1. \A x \in Within(v) : x \notin B
      BY <1>1, <2>2 DEF Speaks
    <3>2. \A i \in DOMAIN v : v[i] \notin B
      BY <3>1 DEF Within
    <3> QED BY <3>2 DEF Apart
  <2> QED BY <2>1, <2>2 DEF Terse
<1>5. Within(v \o f) = Within(v) \cup Within(f)
  BY <1>1, <1>2, QueueJoin
<1>6. Apart(v \o f, A, B)
  <2>1. B \cap Within(f) = {}
    BY <1>2, <1>3
  <2> QED BY <1>1, <1>2, <1>4, <2>1, QueueJoin
<1>7. v \o f \in Seq(Frames)
  BY <1>1, <1>2
<1> QED BY <1>1, <1>2, <1>3, <1>5, <1>6, <1>7 DEF v, f

LEMMA AppliedFollows ==
  ASSUME NEW y \in Views, NEW z \in Views, NEW st \in Steps, Applied(y, z, st), Terse(st)
  PROVE  Follows(y, z, st) /\ Arrives(y, z, st)
PROOF
<1>1. \A s \in Socket : /\ z.rt[s] = "open" => y.rt[s] = "open" /\ s \notin Shutting(st)
                        /\ z.rt[s] = "gone" <=> y.rt[s] = "gone"
  BY DEF Applied, Closed
<1>2. z.mark \subseteq y.mark \cup {st.doc.slot}
  BY DEF Applied, Marking
<1>3. ASSUME NEW s \in DSocket
      PROVE  Lengthened(y, z, st, s) /\ (Linked(y, s) => Speaks(st, s) \subseteq Within(z.down[s]))
  <2> DEFINE x == Words(st, s) \o Farewell(st, s)
             q == y.down[s]
  <2>0. q \in Seq(Frames) /\ s \in Socket
    BY Distinct DEF Views
  <2>1. CASE ~Linked(y, s)
    <3>1. z.down[s] = q
      BY <2>1 DEF Applied
    <3> QED BY <2>1, <3>1 DEF Lengthened
  <2>2. CASE Linked(y, s)
    <3>1. z.down[s] = q \o x
      BY <2>2 DEF Applied
    <3>2. x \in Seq(Frames) /\ Within(x) = Speaks(st, s) \cup Within(Farewell(st, s))
      BY SpeechIs
    <3>3. Within(Farewell(st, s)) \subseteq Goodbyes(st, s) /\ (z.rt[s] = "open" => Within(Farewell(st, s)) = {})
      BY <1>1, <2>0, FarewellIs
    <3>4. ASSUME NEW A, NEW B, Apart(q, A, B), B \cap Farewells = {}, \A c \in CSocket : Finish(c) \notin B,
                 A \cap Within(q) = {} \/ B \cap Speaks(st, s) = {}
          PROVE  Apart(z.down[s], A, B)
      <4>1. Apart(x, A, B) /\ B \cap Within(x) = B \cap Speaks(st, s)
        BY <3>4, SpeechIs
      <4> HIDE DEF x, q
      <4>2. A \cap Within(q) = {} \/ B \cap Within(x) = {}
        BY <3>4, <4>1
      <4> QED BY <2>0, <3>1, <3>2, <3>4, <4>1, <4>2, QueueJoin
    <3> HIDE DEF x
    <3>5. Within(z.down[s]) = Within(q) \cup Within(x)
      BY <2>0, <3>1, <3>2, QueueJoin
    <3>6. /\ Within(q) \subseteq Within(z.down[s]) /\ Speaks(st, s) \subseteq Within(z.down[s])
          /\ \A m \in Within(z.down[s]) \ Within(q) :
               m \in Speaks(st, s) \/ (z.rt[s] # "open" /\ m \in Goodbyes(st, s))
      BY <3>2, <3>3, <3>5
    <3> HIDE DEF q
    <3>7. \A A, B : /\ Apart(q, A, B) /\ B \cap Farewells = {} /\ (\A c \in CSocket : Finish(c) \notin B)
                    /\ A \cap Within(q) = {} \/ B \cap Speaks(st, s) = {} \/ ~Linked(y, s)
                    => Apart(z.down[s], A, B)
      BY <2>2, <3>4
    <3> QED BY <2>2, <3>6, <3>7 DEF Lengthened, q
  <2> QED BY <2>1, <2>2
<1> QED BY <1>1, <1>2, <1>3 DEF Follows, Arrives, Applied

LEMMA WrittenFollows ==
  ASSUME NEW y \in Views, NEW z \in Views, NEW st \in Steps, Written(y, z, st)
  PROVE  Follows(y, z, st)
BY DEF Written, Follows, Lengthened

-----------------------------------------------------------------------------
(* Every part of the order survives an orderly step. *)

LEMMA SpokenIs ==
  ASSUME NEW y \in Views, NEW z \in Views, NEW st \in Steps, NEW X, Orderly(y, st, X), Follows(y, z, st),
         NEW s \in DSocket, NEW m \in Within(z.down[s]), m \notin Within(y.down[s])
  PROVE  /\ Linked(y, s)
         /\ \/ m \in Sent /\ To(s, m) \in st.sends /\ MaySend(y, st, X, s, m)
            \/ z.rt[s] # "open" /\ m \notin Sent /\ \E k \in Code : m = CloseFrame(k) /\ [to |-> s, code |-> k] \in st.closes
PROOF
<1>1. \A k : CloseFrame(k) \notin Sent
  BY DEF Sent, Word, About, CloseFrame
<1>2. /\ Linked(y, s)
      /\ m \in Speaks(st, s) \/ (z.rt[s] # "open" /\ m \in Goodbyes(st, s))
  BY DEF Follows, Lengthened
<1>3. m \in Speaks(st, s) => m \in Sent /\ To(s, m) \in st.sends /\ MaySend(y, st, X, s, m)
  BY DEF Speaks, Orderly
<1>4. m \in Goodbyes(st, s) => m \notin Sent /\ \E k \in Code : m = CloseFrame(k) /\ [to |-> s, code |-> k] \in st.closes
  BY <1>1 DEF Goodbyes
<1> QED BY <1>2, <1>3, <1>4

LEMMA SameEnds ==
  ASSUME NEW y, NEW z, NEW st, Follows(y, z, st)
  PROVE  \A s : /\ On(z, s) <=> On(y, s)
                /\ End(z, s) = End(y, s) /\ Known(z, s) = Known(y, s)
                /\ z.up = y.up /\ z.ver = y.ver /\ z.doc = st.doc
                /\ s \in Socket => /\ Linked(z, s) => Linked(y, s)
                                   /\ z.rt[s] = "open" => y.rt[s] = "open"
BY DEF Follows, On, End, Known, Linked

(* A frame about a session reached a daemon before the step, or is of the slot. *)
LEMMA SpokenOf ==
  ASSUME NEW y \in Views, NEW z \in Views, NEW st \in Steps, NEW X, Orderly(y, st, X), Follows(y, z, st),
         NEW s \in DSocket, NEW c \in CSocket, NEW m \in Of(c), m \in Within(z.down[s]), m \notin Within(y.down[s])
  PROVE  /\ Linked(y, s) /\ s = y.doc.slot /\ s = st.doc.slot /\ To(s, m) \in st.sends
         /\ m = Begin(c) => Stranger(y, c) /\ c \in st.doc.sessions
         /\ m = Finish(c) => c \notin st.doc.sessions /\ ~Newcomer(y, c)
         /\ m = Carry(c) => c \in y.doc.sessions \ X /\ c \in st.doc.sessions
PROOF
<1>1. \A k : m # CloseFrame(k)
  BY FramesDiffer
<1>2. /\ Linked(y, s)
      /\ \/ m \in Sent /\ To(s, m) \in st.sends /\ MaySend(y, st, X, s, m)
         \/ z.rt[s] # "open" /\ m \notin Sent /\ \E k \in Code : m = CloseFrame(k) /\ [to |-> s, code |-> k] \in st.closes
  BY SpokenIs, Zenon
<1> QED BY <1>1, <1>2 DEF MaySend

LEMMA StaysInOrder ==
  ASSUME NEW y \in Views, NEW z \in Views, NEW st \in Steps, NEW X, Ordered(y, X), Orderly(y, st, X),
         Follows(y, z, st)
  PROVE  QueuesInOrder(z)
PROOF
<1> SUFFICES ASSUME NEW s \in DSocket PROVE DownInOrder(z, s) /\ UpInOrder(z, s)
  BY DEF QueuesInOrder
<1>1. DownInOrder(y, s) /\ UpInOrder(y, s) /\ s \in Socket
  BY Distinct DEF Ordered, QueuesInOrder
<1>2. /\ On(z, s) <=> On(y, s)
      /\ End(z, s) = End(y, s) /\ Known(z, s) = Known(y, s) /\ z.up = y.up
  BY SameEnds
<1>3. Lengthened(y, z, st, s)
  BY DEF Follows
<1>4. UpInOrder(z, s)
  BY <1>1, <1>2 DEF UpInOrder
<1>5. z.down[s] # <<>> => On(z, s)
  BY <1>1, <1>2, <1>3 DEF Lengthened, DownInOrder, Linked
<1>6. ASSUME NEW A, NEW m \in Frames, Apart(y.down[s], A, {m}), m \notin Farewells, \A c \in CSocket : m # Finish(c),
             m \in Speaks(st, s) /\ Linked(y, s) => A \cap Within(y.down[s]) = {}
      PROVE  Apart(z.down[s], A, {m})
  <2>1. {m} \cap Farewells = {} /\ \A c \in CSocket : Finish(c) \notin {m}
    BY <1>6
  <2>2. A \cap Within(y.down[s]) = {} \/ {m} \cap Speaks(st, s) = {} \/ ~Linked(y, s)
    BY <1>6
  <2>3. Apart(y.down[s], A, {m})
    BY <1>6
  <2> QED BY <1>3, <2>1, <2>2, <2>3 DEF Lengthened
<1>7. \A m \in Speaks(st, s) : MaySend(y, st, X, s, m)
  BY DEF Speaks, Orderly
<1>8. Apart(z.down[s], {Word("challenge")}, {Word("challenge")})
  <2>1. Word("challenge") \in Frames /\ Word("challenge") \notin Farewells
    BY FrameTypes, FramesDiffer DEF Farewells
  <2>2. \A c \in CSocket : Word("challenge") # Finish(c)
    BY FramesDiffer DEF Of
  <2>3. Word("challenge") \in Speaks(st, s) => Word("challenge") \notin Within(y.down[s])
    BY <1>7 DEF MaySend, Clear, Early, Challenged
  <2>4. Apart(y.down[s], {Word("challenge")}, {Word("challenge")})
    BY <1>1 DEF DownInOrder
  <2> QED BY <1>6, <2>1, <2>2, <2>3, <2>4
<1>9. ASSUME NEW c \in CSocket
      PROVE  /\ Apart(z.down[s], Of(c), {Begin(c)}) /\ Apart(z.down[s], {Finish(c)}, {Carry(c)})
             /\ Begin(c) \in Within(z.down[s]) => c \notin Known(z, s) /\ Of(c) \cap Within(z.up[s]) = {}
             /\ Carry(c) \in Within(z.down[s]) => c \in Known(z, s) \/ Begin(c) \in Within(z.down[s])
  <2>1. /\ Begin(c) \in Of(c) /\ Carry(c) \in Of(c) /\ Begin(c) \in Frames /\ Carry(c) \in Frames
        /\ Begin(c) \notin Farewells /\ Carry(c) \notin Farewells
    BY FramesDiffer DEF Of, Farewells
  <2>2. \A b \in CSocket : Begin(c) # Finish(b) /\ Carry(c) # Finish(b)
    BY DEF Begin, Carry, Finish, About
  <2>3. /\ Apart(y.down[s], Of(c), {Begin(c)}) /\ Apart(y.down[s], {Finish(c)}, {Carry(c)})
        /\ Begin(c) \in Within(y.down[s]) => c \notin Known(y, s) /\ Of(c) \cap Within(y.up[s]) = {}
        /\ Carry(c) \in Within(y.down[s]) => c \in Known(y, s) \/ Begin(c) \in Within(y.down[s])
    BY <1>1 DEF DownInOrder
  <2>4. Begin(c) \in Speaks(st, s) => Stranger(y, c)
    BY <1>7, <2>1 DEF MaySend
  <2>5. Stranger(y, c) => Silent(y, s, c) /\ c \notin Known(y, s)
    BY DEF Stranger, Unknown
  <2>6. Apart(z.down[s], Of(c), {Begin(c)})
    <3>1. Begin(c) \in Speaks(st, s) => Of(c) \cap Within(y.down[s]) = {}
      BY <2>4, <2>5 DEF Silent
    <3> QED BY <1>6, <2>1, <2>2, <2>3, <3>1
  <2>7. Carry(c) \in Speaks(st, s) => c \in y.doc.sessions \ X /\ s = y.doc.slot
    BY <1>7, <2>1 DEF MaySend
  <2>8. Apart(z.down[s], {Finish(c)}, {Carry(c)})
    <3>1. Carry(c) \in Speaks(st, s) => {Finish(c)} \cap Within(y.down[s]) = {}
      BY <2>7 DEF Ordered, Unfinished
    <3> QED BY <1>6, <2>1, <2>2, <2>3, <3>1
  <2>9. Begin(c) \in Within(z.down[s]) => c \notin Known(z, s) /\ Of(c) \cap Within(z.up[s]) = {}
    <3>1. CASE Begin(c) \in Within(y.down[s])
      BY <1>2, <2>3, <3>1
    <3>2. CASE Begin(c) \notin Within(y.down[s])
      <4>1. Begin(c) \in Within(z.down[s]) => Stranger(y, c)
        BY <2>1, <3>2, SpokenOf
      <4> QED BY <1>2, <2>5, <4>1 DEF Silent
    <3> QED BY <3>1, <3>2
  <2>10. Carry(c) \in Within(z.down[s]) => c \in Known(z, s) \/ Begin(c) \in Within(z.down[s])
    <3>1. Within(y.down[s]) \subseteq Within(z.down[s])
      BY <1>3 DEF Lengthened
    <3>2. CASE Carry(c) \in Within(y.down[s])
      BY <1>2, <2>3, <3>1, <3>2
    <3>3. CASE Carry(c) \notin Within(y.down[s])
      <4>1. Carry(c) \in Within(z.down[s]) => Linked(y, s) /\ s = y.doc.slot /\ c \in y.doc.sessions \ X
        BY <2>1, <3>3, SpokenOf
      <4>2. s # None
        BY Distinct
      <4> QED BY <1>2, <3>1, <4>1, <4>2 DEF Ordered, Opened
    <3> QED BY <3>2, <3>3
  <2> QED BY <2>6, <2>8, <2>9, <2>10
<1> QED BY <1>4, <1>5, <1>8, <1>9 DEF DownInOrder

LEMMA StaysFair ==
  ASSUME NEW y \in Views, NEW z \in Views, NEW st \in Steps, NEW X, Ordered(y, X), Orderly(y, st, X),
         Follows(y, z, st)
  PROVE  ClosesAreFair(z)
PROOF
<1> DEFINE error == CloseFrame("protocolError")
<1> SUFFICES ASSUME NEW s \in DSocket
             PROVE  /\ Within(z.down[s]) \cap Farewells # {} => z.rt[s] # "open"
                    /\ Claims(z, s) => error \notin Within(z.down[s])
  BY DEF ClosesAreFair
<1>1. /\ Within(y.down[s]) \cap Farewells # {} => y.rt[s] # "open"
      /\ Claims(y, s) => error \notin Within(y.down[s])
  BY DEF Ordered, ClosesAreFair
<1>2. /\ z.rt[s] = "open" => y.rt[s] = "open"
      /\ End(z, s) = End(y, s)
  BY SameEnds, Distinct
<1>3. ASSUME NEW m \in Within(z.down[s]), m \in Farewells PROVE z.rt[s] # "open"
  <2>1. CASE m \in Within(y.down[s])
    BY <1>1, <1>2, <1>3, <2>1
  <2>2. CASE m \notin Within(y.down[s])
    <3>1. m \notin Sent
      BY <1>3 DEF Farewells, Sent, Word, About, CloseFrame
    <3> QED BY <1>3, <2>2, <3>1, SpokenIs
  <2> QED BY <2>1, <2>2
<1>4. ASSUME Claims(z, s), error \in Within(z.down[s]) PROVE FALSE
  <2>1. error \in Farewells
    BY DEF Farewells, Code
  <2>2. error \notin Sent /\ \A k : error = CloseFrame(k) => k = "protocolError"
    BY DEF Sent, Word, About, CloseFrame
  <2>3. CASE error \in Within(y.down[s])
    <3>1. y.rt[s] # "open" /\ ~Claims(y, s)
      BY <1>1, <2>1, <2>3
    <3>2. Word("claimed") \in Within(z.down[s]) /\ Word("claimed") \notin Within(y.down[s])
      BY <1>2, <1>4, <3>1 DEF Claims
    <3> QED BY <3>1, <3>2, SpokenIs DEF Linked
  <2>4. CASE error \notin Within(y.down[s])
    <3>0. Linked(y, s) /\ \E k \in Code : error = CloseFrame(k) /\ [to |-> s, code |-> k] \in st.closes
      <4> HIDE DEF error
      <4>1. error \notin Sent /\ error \in Within(z.down[s])
        BY <1>4, <2>2
      <4> QED BY <2>4, <4>1, SpokenIs
    <3>1. Linked(y, s) /\ [to |-> s, code |-> "protocolError"] \in st.closes
      BY <2>2, <3>0
    <3>2. ~Claims(y, s) /\ To(s, Word("claimed")) \notin st.sends
      BY <3>1 DEF Orderly, Linked
    <3>3. Word("claimed") \in Within(z.down[s]) /\ Word("claimed") \notin Within(y.down[s])
      BY <1>2, <1>4, <3>2 DEF Claims
    <3>4. Word("claimed") \in Sent
      BY DEF Sent
    <3> QED BY <3>2, <3>3, <3>4, SpokenIs
  <2> QED BY <2>3, <2>4
<1> QED BY <1>3, <1>4

LEMMA StaysEarly ==
  ASSUME NEW y \in Views, NEW z \in Views, NEW st \in Steps, NEW X, Ordered(y, X), Orderly(y, st, X),
         Follows(y, z, st)
  PROVE  ClaimComesFirst(z)
PROOF
<1> SUFFICES ASSUME NEW s \in DSocket PROVE Apace(z, s) /\ (Early(z, s) => Blank(z, s))
  BY DEF ClaimComesFirst
<1>1. Apace(y, s) /\ (Early(y, s) => Blank(y, s)) /\ s # None /\ s \in Socket
  BY Distinct DEF Ordered, ClaimComesFirst
<1>2. /\ End(z, s) = End(y, s) /\ Known(z, s) = Known(y, s)
      /\ z.up = y.up /\ z.ver = y.ver /\ z.doc = st.doc
  BY SameEnds
<1>3. /\ Calls(z, s) <=> Calls(y, s)
      /\ Verified(z, s) <=> Verified(y, s)
  BY <1>2 DEF Calls, Verified
<1>4. ASSUME Challenged(z, s), ~Challenged(y, s) PROVE Clear(y, s) /\ s # st.doc.slot
  <2>1. Word("challenge") \in Within(z.down[s]) /\ Word("challenge") \notin Within(y.down[s])
        /\ Word("challenge") \in Sent
    BY <1>4 DEF Challenged, Sent
  <2> QED BY <2>1, SpokenIs DEF MaySend
<1>5. Apace(z, s)
  BY <1>1, <1>3, <1>4 DEF Apace, Clear, Early
<1>6. ASSUME Early(z, s) PROVE Blank(z, s)
  <2>1. Blank(y, s)
    BY <1>1, <1>3, <1>4, <1>6 DEF Early, Clear
  <2>2. s # st.doc.slot
    <3>1. CASE Challenged(z, s) /\ ~Challenged(y, s)
      BY <1>4, <3>1
    <3>2. CASE Early(y, s)
      <4>1. CASE st.doc.slot = y.doc.slot
        BY <2>1, <4>1 DEF Blank
      <4>2. CASE st.doc.slot # y.doc.slot
        <5>1. NewSlot(y, st)
          BY <4>2 DEF Orderly
        <5> QED BY <1>1, <2>1, <3>2, <5>1 DEF NewSlot, Clear, Blank
      <4> QED BY <4>1, <4>2
    <3> QED BY <1>3, <1>6, <3>1, <3>2 DEF Early
  <2>3. s \notin z.mark
    BY <2>1, <2>2 DEF Follows, Blank
  <2>4. ~Claims(z, s)
    <3>1. Word("claimed") \in Within(z.down[s]) => Word("claimed") \in Within(y.down[s])
      <4>1. Word("claimed") \in Sent
        BY DEF Sent
      <4> QED BY <2>2, <4>1, SpokenIs DEF MaySend
    <3> QED BY <1>2, <2>1, <3>1 DEF Blank, Claims
  <2>5. ASSUME NEW c \in CSocket PROVE Silent(z, s, c)
    <3>1. \A m \in Of(c) : m \in Within(z.down[s]) => m \in Within(y.down[s])
      BY <2>2, SpokenOf
    <3> QED BY <1>2, <2>1, <3>1 DEF Blank, Silent
  <2> QED BY <1>2, <2>1, <2>2, <2>3, <2>4, <2>5 DEF Blank
<1> QED BY <1>5, <1>6

LEMMA StaysUnknown ==
  ASSUME NEW y \in Views, NEW z \in Views, NEW st \in Steps, NEW X, Ordered(y, X), Orderly(y, st, X),
         Follows(y, z, st)
  PROVE  NewcomersAreUnknown(z)
PROOF
<1> SUFFICES ASSUME NEW c \in CSocket
             PROVE  /\ Apart(z.up[c], {Word("arrive")}, {Word("arrive")})
                    /\ Newcomer(z, c) => Unknown(z, c)
  BY DEF NewcomersAreUnknown
<1>1. /\ Apart(y.up[c], {Word("arrive")}, {Word("arrive")})
      /\ Newcomer(y, c) => Unknown(y, c)
  BY DEF Ordered, NewcomersAreUnknown
<1>2. z.up = y.up /\ z.doc = st.doc /\ \A s : Known(z, s) = Known(y, s)
  BY SameEnds
<1>3. ASSUME Newcomer(z, c) PROVE Unknown(z, c)
  <2>1. Newcomer(y, c) /\ Unknown(y, c) /\ ~Stranger(y, c)
    BY <1>1, <1>2, <1>3 DEF Newcomer, Stranger
  <2>2. c \notin st.doc.sessions \cup st.doc.ended
    <3>1. CASE st.doc.slot = y.doc.slot
      BY <2>1, <3>1 DEF Orderly, SameSlot, Unknown
    <3>2. CASE st.doc.slot # y.doc.slot
      BY <3>2 DEF Orderly, NewSlot
    <3> QED BY <3>1, <3>2
  <2>3. ASSUME NEW s \in DSocket, NEW m \in Of(c), m \in Within(z.down[s]) PROVE m \in Within(y.down[s])
    <3>1. c \notin y.doc.sessions
      BY <2>1 DEF Unknown
    <3>2. m \in {Begin(c), Finish(c), Carry(c)}
      BY DEF Of
    <3> QED BY <2>1, <2>3, <3>1, <3>2, SpokenOf
  <2>4. \A s \in DSocket : Silent(z, s, c)
    BY <1>2, <2>1, <2>3 DEF Silent, Unknown
  <2> QED BY <1>2, <2>1, <2>2, <2>4 DEF Unknown
<1> QED BY <1>1, <1>2, <1>3

LEMMA StaysUnfinished ==
  ASSUME NEW y \in Views, NEW z \in Views, NEW st \in Steps, NEW X, Ordered(y, X), Orderly(y, st, X),
         Follows(y, z, st)
  PROVE  Unfinished(z) /\ Bare(z.doc)
PROOF
<1>1. z.doc = st.doc /\ Bare(st.doc) /\ st.doc \in Docs
  BY SameEnds DEF Orderly, Steps
<1> SUFFICES ASSUME NEW c \in st.doc.sessions, NEW s \in DSocket, Finish(c) \in Within(z.down[s]) PROVE FALSE
  BY <1>1 DEF Unfinished
<1>2. c \in CSocket /\ Finish(c) \in Of(c)
  BY <1>1 DEF Docs, Of
<1>3. Finish(c) \in Within(y.down[s])
  BY <1>2, SpokenOf
<1>4. SameSlot(y, st)
  BY DEF Orderly, NewSlot
<1>5. CASE c \in y.doc.sessions
  BY <1>3, <1>5 DEF Ordered, Unfinished
<1>6. CASE c \notin y.doc.sessions
  BY <1>2, <1>3, <1>4, <1>6 DEF SameSlot, Stranger, Unknown, Silent
<1> QED BY <1>5, <1>6

(* What the step tells the slot's daemon reaches it. *)
LEMMA StaysOpened ==
  ASSUME NEW y \in Views, NEW z \in Views, NEW st \in Steps, NEW X, NEW U, Opened(y, U), Orderly(y, st, X),
         Follows(y, z, st)
  PROVE  /\ Arrives(y, z, st) => Opened(z, U)
         /\ Opened(z, U \cup (st.doc.sessions \ y.doc.sessions))
PROOF
<1>1. z.doc = st.doc /\ st.doc \in Docs
  BY SameEnds DEF Steps
<1> SUFFICES ASSUME NEW c \in st.doc.sessions, c \notin U, z.doc.slot # None, Linked(z, z.doc.slot),
                    c \in y.doc.sessions \/ Arrives(y, z, st)
             PROVE  c \in Known(z, z.doc.slot) \/ Begin(c) \in Within(z.down[z.doc.slot])
  BY <1>1 DEF Opened
<1> DEFINE s == st.doc.slot
<1>2. s \in DSocket /\ s \in Socket /\ c \in CSocket
  BY <1>1, Distinct DEF Docs
<1>3. SameSlot(y, st) /\ s = y.doc.slot
  BY DEF Orderly, NewSlot
<1>4. Linked(y, s) /\ Known(z, s) = Known(y, s)
  BY <1>1, <1>2, SameEnds
<1>5. CASE c \in y.doc.sessions
  <2>1. c \in Known(y, s) \/ Begin(c) \in Within(y.down[s])
    BY <1>1, <1>3, <1>4, <1>5 DEF Opened
  <2> QED BY <1>1, <1>2, <1>4, <2>1 DEF Follows, Lengthened
<1>6. CASE c \notin y.doc.sessions
  <2>1. To(s, Begin(c)) \in st.sends
    BY <1>3, <1>6 DEF SameSlot
  <2>2. Begin(c) \in Sent
    BY <1>2 DEF Sent, Begin
  <2> QED BY <1>1, <1>2, <1>4, <1>6, <2>1, <2>2 DEF Arrives, Speaks
<1> QED BY <1>5, <1>6

LEMMA StaysKnown ==
  ASSUME NEW y \in Views, NEW z \in Views, NEW st \in Steps, NEW X, Ordered(y, X), Orderly(y, st, X),
         Follows(y, z, st)
  PROVE  SessionsAreKnown(z)
PROOF
<1>1. z.doc = st.doc /\ st.doc \in Docs /\ z.up = y.up /\ \A x : End(z, x) = End(y, x)
  BY SameEnds DEF Steps
<1> DEFINE s == st.doc.slot
<1> SUFFICES ASSUME s # None, ~st.doc.restored, NEW c \in CSocket,
                    \/ c \in End(z, s).sess
                    \/ Begin(c) \in Within(z.down[s])
                    \/ Of(c) \cap Within(z.up[s]) # {}
             PROVE  c \in st.doc.sessions \cup st.doc.ended
  BY <1>1 DEF SessionsAreKnown
<1>2. s \in DSocket /\ Begin(c) \in Of(c)
  BY <1>1 DEF Docs, Of
<1>3. CASE Begin(c) \in Within(z.down[s]) /\ Begin(c) \notin Within(y.down[s])
  BY <1>2, <1>3, SpokenOf
<1>4. CASE \/ c \in End(y, s).sess
           \/ Begin(c) \in Within(y.down[s])
           \/ Of(c) \cap Within(y.up[s]) # {}
  <2>1. CASE s = y.doc.slot
    <3>1. SameSlot(y, st)
      BY <2>1 DEF Orderly
    <3>2. c \in y.doc.sessions \cup y.doc.ended
      BY <1>4, <2>1, <3>1 DEF Ordered, SessionsAreKnown, SameSlot
    <3>3. ~Spent(y, s, c)
      BY <1>4 DEF Spent
    <3> QED BY <2>1, <3>1, <3>2, <3>3 DEF SameSlot
  <2>2. CASE s # y.doc.slot
    <3>1. Clear(y, s)
      BY <2>2 DEF Orderly, NewSlot
    <3>2. c \notin Known(y, s) /\ Silent(y, s, c)
      BY <3>1 DEF Clear, Blank
    <3> QED BY <1>2, <1>4, <3>2 DEF Known, Silent
  <2> QED BY <2>1, <2>2
<1> QED BY <1>1, <1>3, <1>4

LEMMA OrderIsKept ==
  ASSUME NEW y \in Views, NEW z \in Views, NEW st \in Steps, NEW X, Ordered(y, X), Orderly(y, st, X),
         Follows(y, z, st)
  PROVE  /\ Arrives(y, z, st) => Ordered(z, X)
         /\ Ordered(z, X \cup (st.doc.sessions \ y.doc.sessions))
PROOF
<1>1. QueuesInOrder(z) /\ ClosesAreFair(z) /\ ClaimComesFirst(z)
  BY StaysInOrder, StaysFair, StaysEarly
<1>2. NewcomersAreUnknown(z) /\ Bare(z.doc) /\ Unfinished(z) /\ SessionsAreKnown(z)
  BY StaysUnknown, StaysUnfinished, StaysKnown
<1>3. /\ Arrives(y, z, st) => Opened(z, X)
      /\ Opened(z, X \cup (st.doc.sessions \ y.doc.sessions))
  <2>1. Opened(y, X)
    BY DEF Ordered
  <2> QED BY <2>1, StaysOpened
<1> QED BY <1>1, <1>2, <1>3 DEF Ordered

(* Short of faults the marks, the ends of sessions and their echoes survive it
   too. *)
LEMMA AgreementIsKept ==
  ASSUME NEW y \in Views, NEW z \in Views, NEW st \in Steps, NEW X, Orderly(y, st, X), Applied(y, z, st),
         NEW P, P \cap st.doc.sessions = {}, Agreeing(y, P)
  PROVE  Agreeing(z, {})
PROOF
<1>1. Follows(y, z, st) /\ Arrives(y, z, st)
  BY AppliedFollows DEF Orderly
<1>2. z.doc = st.doc /\ st.doc \in Docs /\ z.up = y.up /\ \A x : End(z, x) = End(y, x) /\ Known(z, x) = Known(y, x)
  BY <1>1, SameEnds DEF Steps
<1> DEFINE s == st.doc.slot
<1>3. \A x \in Socket : z.rt[x] = "open" => y.rt[x] = "open" /\ x \notin Shutting(st)
  BY DEF Applied, Closed
<1>4. y.mark \subseteq DSocket /\ None \notin Socket /\ DSocket \subseteq Socket
  BY Distinct DEF Views
<1>5. MarkIsSlots(z)
  <2>1. ASSUME NEW x \in z.mark, z.rt[x] = "open" PROVE x = st.doc.slot
    <3>1. x \in Marking(y, st)
      BY <2>1 DEF Applied
    <3>2. CASE x = st.doc.slot
      BY <3>2
    <3>3. CASE x # st.doc.slot
      <4>1. x \in y.mark /\ x \in Socket
        BY <1>4, <3>1, <3>3 DEF Marking
      <4>2. y.rt[x] = "open" /\ x \notin Shutting(st)
        BY <1>3, <2>1, <4>1
      <4>3. y.doc.slot = x /\ x # None
        BY <1>4, <4>1, <4>2 DEF Agreeing, MarkIsSlots
      <4> QED BY <3>3, <4>2, <4>3 DEF Orderly, NewSlot
    <3> QED BY <3>2, <3>3
  <2>2. ASSUME st.doc.restored, s # None PROVE z.rt[s] # "open"
    <3>1. s \in DSocket /\ s \in Socket
      BY <1>2, <1>4, <2>2 DEF Docs
    <3>2. CASE s = y.doc.slot
      <4>1. y.doc.restored
        BY <2>2, <3>2 DEF Orderly, SameSlot
      <4> QED BY <1>3, <2>2, <3>1, <3>2, <4>1 DEF Agreeing, MarkIsSlots
    <3>3. CASE s # y.doc.slot
      <4>1. s \in y.mark
        BY <2>2, <3>3 DEF Orderly, NewSlot
      <4> QED BY <1>3, <3>1, <3>3, <4>1 DEF Agreeing, MarkIsSlots
    <3> QED BY <3>2, <3>3
  <2> QED BY <1>2, <2>1, <2>2 DEF MarkIsSlots
<1>6. Opened(z, {})
  BY <1>1, StaysOpened DEF Agreeing
<1>7. ASSUME s # None, Linked(z, s), s # y.doc.slot PROVE Clear(y, s)
  <2>1. s \in DSocket /\ s \in Socket
    BY <1>2, <1>4, <1>7 DEF Docs
  <2>2. y.rt[s] = "open"
    BY <1>3, <1>7, <2>1 DEF Linked
  <2>3. s \notin y.mark
    BY <1>7, <2>2 DEF Agreeing, MarkIsSlots
  <2> QED BY <1>7, <2>3 DEF Orderly, NewSlot
<1>8. Answered(z)
  <2> SUFFICES ASSUME s # None, Linked(z, s), NEW c \in CSocket,
                      c \in End(y, s).sess \/ Begin(c) \in Within(z.down[s]), c \notin st.doc.sessions
               PROVE  Finish(c) \in Within(z.down[s])
    BY <1>2 DEF Answered
  <2>1. s \in DSocket /\ Linked(y, s) /\ Begin(c) \in Of(c)
    <3>1. s \in DSocket /\ s \in Socket
      BY <1>2, <1>4 DEF Docs
    <3> QED BY <1>1, <3>1, SameEnds DEF Of
  <2>2. c \in End(y, s).sess \/ Begin(c) \in Within(y.down[s])
    BY <1>1, <2>1, SpokenOf
  <2>3. s = y.doc.slot
    BY <1>7, <2>1, <2>2 DEF Clear, Blank, Known, Silent
  <2>4. Within(y.down[s]) \subseteq Within(z.down[s])
    BY <1>1, <2>1 DEF Follows, Lengthened
  <2>5. c \in y.doc.sessions \/ Finish(c) \in Within(y.down[s])
    BY <2>1, <2>2, <2>3 DEF Agreeing, Answered
  <2>6. c \in y.doc.sessions => To(s, Finish(c)) \in st.sends
    BY <2>2, <2>3 DEF Orderly, SameSlot, Spent
  <2>7. Finish(c) \in Sent
    BY DEF Sent, Finish
  <2> QED BY <1>1, <2>1, <2>4, <2>5, <2>6, <2>7 DEF Arrives, Speaks
<1>9. Echoed(z, {})
  <2> SUFFICES ASSUME s # None, Linked(z, s), NEW c \in st.doc.sessions, c \in End(y, s).over
               PROVE  Finish(c) \in Within(y.up[s])
    BY <1>2 DEF Echoed
  <2>1. s = y.doc.slot /\ SameSlot(y, st)
    BY DEF Orderly, NewSlot
  <2>2. s \in DSocket /\ Linked(y, s) /\ c \notin P
    <3>1. s \in DSocket /\ s \in Socket
      BY <1>2, <1>4 DEF Docs
    <3> QED BY <1>1, <3>1, SameEnds
  <2>3. c \in y.doc.sessions
    BY <2>1, <2>2 DEF SameSlot, Stranger, Unknown, Known
  <2> QED BY <2>1, <2>2, <2>3 DEF Agreeing, Echoed
<1> QED BY <1>5, <1>6, <1>8, <1>9 DEF Agreeing

-----------------------------------------------------------------------------
(* Less on its way leaves the order as it was. *)

Fewer(y, z) ==
  /\ z.doc \in {y.doc, EmptyDoc} /\ z.mark \subseteq y.mark /\ z.ver \in {y.ver, None} /\ y.dead \subseteq z.dead
  /\ \A s \in Socket : /\ z.rt[s] = "open" => y.rt[s] = "open"
                       /\ \/ z.up[s] \in {y.up[s], <<>>}
                          \/ y.up[s] # <<>> /\ z.up[s] = Tail(y.up[s])
  /\ \A x \in Daemon : z.link[x] \in {y.link[x], NoLink}
  /\ \A s \in DSocket : \/ z.down[s] = y.down[s] /\ z.link[Owner[s]] = y.link[Owner[s]]
                        \/ z.down[s] = <<>> /\ ~Linked(z, s)

LEMMA FewerUp ==
  ASSUME NEW y \in Views, NEW z \in Views, Fewer(y, z), NEW s \in Socket
  PROVE  /\ Within(z.up[s]) \subseteq Within(y.up[s])
         /\ \A A, B : Apart(y.up[s], A, B) => Apart(z.up[s], A, B)
PROOF
<1>1. CASE z.up[s] \in {y.up[s], <<>>}
  BY <1>1, QueueNone
<1>2. CASE y.up[s] # <<>> /\ z.up[s] = Tail(y.up[s])
  <2>1. y.up[s] \in Seq(Frames)
    BY DEF Views
  <2> QED BY <1>2, <2>1, QueueTail
<1> QED BY <1>1, <1>2 DEF Fewer

LEMMA FewerEnds ==
  ASSUME NEW y \in Views, NEW z \in Views, Fewer(y, z), NEW s \in DSocket
  PROVE  /\ Linked(z, s) => Linked(y, s)
         /\ End(z, s) = End(y, s) \/ End(z, s) = NoLink
         /\ End(z, s).sess \subseteq End(y, s).sess /\ Known(z, s) \subseteq Known(y, s)
         /\ End(z, s).claimed => End(y, s).claimed
         /\ \/ /\ z.down[s] = y.down[s] /\ End(z, s) = End(y, s) /\ Known(z, s) = Known(y, s)
               /\ On(y, s) => On(z, s)
            \/ z.down[s] = <<>> /\ ~Linked(z, s)
         /\ Within(z.down[s]) \subseteq Within(y.down[s])
PROOF
<1>1. Owner[s] \in Daemon /\ s \in Socket /\ s # None
  BY RendezvousAssumption, Distinct
<1>2. z.link[Owner[s]] = y.link[Owner[s]] \/ z.link[Owner[s]] = NoLink
  BY <1>1 DEF Fewer
<1>3. NoLink.sock # s /\ NoLink.sess = {} /\ NoLink.over = {} /\ NoLink.claimed = FALSE
  BY <1>1 DEF NoLink
<1>4. On(z, s) => z.link[Owner[s]] = y.link[Owner[s]] /\ On(y, s)
  BY <1>2, <1>3 DEF On
<1>5. End(z, s) = End(y, s) \/ End(z, s) = NoLink
  BY <1>4 DEF End
<1>6. z.link[Owner[s]] = y.link[Owner[s]] => /\ On(y, s) <=> On(z, s)
                                             /\ End(z, s) = End(y, s)
  BY DEF On, End
<1>7. Linked(z, s) => Linked(y, s)
  BY <1>1, <1>4 DEF Linked, Fewer
<1>8. \/ z.down[s] = y.down[s] /\ z.link[Owner[s]] = y.link[Owner[s]]
      \/ z.down[s] = <<>> /\ ~Linked(z, s)
  BY DEF Fewer
<1>9. Within(z.down[s]) \subseteq Within(y.down[s])
  BY <1>8, QueueNone
<1> QED BY <1>3, <1>5, <1>6, <1>7, <1>8, <1>9 DEF Known

LEMMA FewerOrder ==
  ASSUME NEW y \in Views, NEW z \in Views, Fewer(y, z), NEW X, NEW U, Ordered(y, X), X \subseteq U
  PROVE  Ordered(z, U)
PROOF
<1>0. \A s \in DSocket : s \in Socket /\ s # None
  BY Distinct
<1>1. z.doc.slot # None => z.doc = y.doc
  BY DEF Fewer, EmptyDoc
<1>2. z.doc.slot = None \/ z.doc = y.doc
  BY DEF Fewer, EmptyDoc
<1>3. z.doc.sessions \subseteq y.doc.sessions /\ z.doc.ended \subseteq y.doc.ended
  BY DEF Fewer, EmptyDoc
<1>4. QueuesInOrder(z)
  <2> SUFFICES ASSUME NEW s \in DSocket PROVE DownInOrder(z, s) /\ UpInOrder(z, s)
    BY DEF QueuesInOrder
  <2>1. DownInOrder(y, s) /\ UpInOrder(y, s)
    BY DEF Ordered, QueuesInOrder
  <2>2. /\ Within(z.up[s]) \subseteq Within(y.up[s]) /\ End(z, s).sess \subseteq End(y, s).sess
        /\ \A A, B : Apart(y.up[s], A, B) => Apart(z.up[s], A, B)
    BY <1>0, FewerUp, FewerEnds
  <2>3. UpInOrder(z, s)
    BY <2>1, <2>2 DEF UpInOrder
  <2>4. CASE z.down[s] = <<>>
    BY <2>3, <2>4, QueueNone DEF DownInOrder
  <2>5. CASE z.down[s] = y.down[s] /\ Known(z, s) = Known(y, s) /\ (On(y, s) => On(z, s))
    BY <2>1, <2>2, <2>3, <2>5 DEF DownInOrder
  <2> QED BY <2>3, <2>4, <2>5, FewerEnds
<1>5. ClosesAreFair(z)
  <2> SUFFICES ASSUME NEW s \in DSocket
               PROVE  /\ Within(z.down[s]) \cap Farewells # {} => z.rt[s] # "open"
                      /\ Claims(z, s) => CloseFrame("protocolError") \notin Within(z.down[s])
    BY DEF ClosesAreFair
  <2>1. /\ Within(y.down[s]) \cap Farewells # {} => y.rt[s] # "open"
        /\ Claims(y, s) => CloseFrame("protocolError") \notin Within(y.down[s])
    BY DEF Ordered, ClosesAreFair
  <2>2. Within(z.down[s]) \subseteq Within(y.down[s]) /\ (End(z, s).claimed => End(y, s).claimed)
        /\ (z.rt[s] = "open" => y.rt[s] = "open")
    BY <1>0, FewerEnds DEF Fewer
  <2> QED BY <2>1, <2>2 DEF Claims
<1>6. ClaimComesFirst(z)
  <2> SUFFICES ASSUME NEW s \in DSocket PROVE Apace(z, s) /\ (Early(z, s) => Blank(z, s))
    BY DEF ClaimComesFirst
  <2>1. Apace(y, s) /\ (Early(y, s) => Blank(y, s))
    BY DEF Ordered, ClaimComesFirst
  <2>2. /\ Within(z.down[s]) \subseteq Within(y.down[s]) /\ Within(z.up[s]) \subseteq Within(y.up[s])
        /\ Known(z, s) \subseteq Known(y, s) /\ (End(z, s).claimed => End(y, s).claimed)
    BY <1>0, FewerUp, FewerEnds
  <2>3. (Calls(z, s) => Calls(y, s)) /\ (Challenged(z, s) => Challenged(y, s)) /\ (Verified(z, s) => Verified(y, s))
    BY <2>2 DEF Calls, Challenged, Verified, Fewer
  <2>4. Blank(y, s) => Blank(z, s)
    <3>1. s \notin y.mark => s \notin z.mark
      BY DEF Fewer
    <3>2. s # y.doc.slot => s # z.doc.slot
      BY <1>0, <1>2
    <3>3. \A c \in CSocket : Silent(y, s, c) => Silent(z, s, c)
      BY <2>2 DEF Silent
    <3>4. Claims(z, s) => Claims(y, s)
      BY <2>2 DEF Claims
    <3> QED BY <2>2, <3>1, <3>2, <3>3, <3>4 DEF Blank
  <2> QED BY <2>1, <2>3, <2>4 DEF Apace, Early
<1>7. NewcomersAreUnknown(z)
  <2> SUFFICES ASSUME NEW c \in CSocket
               PROVE  /\ Apart(z.up[c], {Word("arrive")}, {Word("arrive")})
                      /\ Newcomer(z, c) => Unknown(z, c)
    BY DEF NewcomersAreUnknown
  <2>1. /\ Apart(y.up[c], {Word("arrive")}, {Word("arrive")})
        /\ Newcomer(y, c) => Unknown(y, c)
    BY DEF Ordered, NewcomersAreUnknown
  <2>2. /\ Within(z.up[c]) \subseteq Within(y.up[c])
        /\ Apart(y.up[c], {Word("arrive")}, {Word("arrive")}) => Apart(z.up[c], {Word("arrive")}, {Word("arrive")})
    BY Distinct, FewerUp
  <2>3. \A s \in DSocket : /\ Within(z.down[s]) \subseteq Within(y.down[s]) /\ Within(z.up[s]) \subseteq Within(y.up[s])
                           /\ Known(z, s) \subseteq Known(y, s)
    BY <1>0, FewerUp, FewerEnds
  <2>4. Unknown(y, c) => Unknown(z, c)
    BY <1>3, <2>3 DEF Unknown, Silent
  <2> QED BY <2>1, <2>2, <2>4 DEF Newcomer
<1>8. Bare(z.doc)
  BY DEF Ordered, Bare, Fewer, EmptyDoc
<1>9. Unfinished(z)
  BY <1>3, FewerEnds DEF Ordered, Unfinished
<1>10. Opened(z, U)
  <2> DEFINE s == z.doc.slot
  <2> SUFFICES ASSUME s # None, Linked(z, s), NEW c \in z.doc.sessions \ U
               PROVE  c \in Known(z, s) \/ Begin(c) \in Within(z.down[s])
    BY DEF Opened
  <2>1. z.doc = y.doc /\ s \in DSocket
    BY <1>1 DEF Views, Docs
  <2>2. Linked(y, s) /\ z.down[s] = y.down[s] /\ Known(z, s) = Known(y, s)
    BY <2>1, FewerEnds
  <2> QED BY <2>1, <2>2 DEF Ordered, Opened
<1>11. SessionsAreKnown(z)
  <2> SUFFICES ASSUME z.doc.slot # None PROVE SessionsAreKnown(z)
    BY DEF SessionsAreKnown
  <2>1. z.doc = y.doc /\ z.doc.slot \in DSocket
    BY <1>1 DEF Views, Docs
  <2>2. \A s \in DSocket : /\ Within(z.down[s]) \subseteq Within(y.down[s]) /\ Within(z.up[s]) \subseteq Within(y.up[s])
                           /\ End(z, s).sess \subseteq End(y, s).sess
    BY <1>0, FewerUp, FewerEnds
  <2> QED BY <2>1, <2>2 DEF Ordered, SessionsAreKnown
<1> QED BY <1>4, <1>5, <1>6, <1>7, <1>8, <1>9, <1>10, <1>11 DEF Ordered

(* While the slot's socket keeps what is on its way, what was agreed stays so. *)
LEMMA FewerAgreement ==
  ASSUME NEW y \in Views, NEW z \in Views, Fewer(y, z), z.doc = y.doc, NEW P, Agreeing(y, P),
         y.doc.slot # None /\ Linked(z, y.doc.slot) =>
           \A c \in y.doc.sessions \ P : Finish(c) \in Within(y.up[y.doc.slot]) => Finish(c) \in Within(z.up[y.doc.slot])
  PROVE  Agreeing(z, P)
PROOF
<1> DEFINE s == y.doc.slot
<1>1. s # None => s \in DSocket /\ s \in Socket
  BY Distinct DEF Views, Docs
<1>2. \A x \in z.mark : x \in Socket /\ x \in y.mark
  BY Distinct DEF Fewer, Views
<1>3. MarkIsSlots(z)
  BY <1>1, <1>2 DEF Agreeing, MarkIsSlots, Fewer
<1>4. s # None /\ Linked(z, s) => /\ Linked(y, s) /\ z.down[s] = y.down[s] /\ Known(z, s) = Known(y, s)
                                  /\ End(z, s) = End(y, s)
  BY <1>1, FewerEnds
<1>5. Opened(z, {})
  BY <1>4 DEF Agreeing, Opened
<1>6. Answered(z)
  BY <1>4 DEF Agreeing, Answered
<1>7. Echoed(z, P)
  BY <1>4 DEF Agreeing, Echoed
<1> QED BY <1>3, <1>5, <1>6, <1>7 DEF Agreeing

-----------------------------------------------------------------------------
(* Every transition of the reducer is orderly. *)

Mild(C) == \A s \in DSocket : [to |-> s, code |-> "protocolError"] \notin C

LEMMA MildShut ==
  ASSUME NEW S
  PROVE  /\ Mild({}) /\ Mild(Shut(S, "daemonAbsent")) /\ Mild(Shut(S, "claimLost")) /\ Mild(Shut(S, "said"))
         /\ Mild(Shut(S, "rendezvousClaimed")) /\ Mild(Shut(S, "rendezvousBusy"))
         /\ Mild(Shut(S, "claimTimeout")) /\ Mild(Shut(S, "heartbeatTimeout"))
         /\ \A A, B : Mild(A) /\ Mild(B) => Mild(A \cup B)
BY DEF Mild, Shut

LEMMA TellsEnds ==
  ASSUME NEW o, NEW C, NEW s, NEW m, To(s, m) \in TellDaemon(o, C)
  PROVE  o.slot # None /\ s = o.slot /\ \E c \in C : m = Finish(c)
BY DEF TellDaemon, To, Finish

(* A step that says one thing to one daemon, or nothing. *)
LEMMA OneWord ==
  ASSUME NEW st, NEW s, NEW m \in Sent, \A x \in DSocket : \A n \in Sent : To(x, n) \in st.sends => x = s /\ n = m
  PROVE  Terse(st)
BY DEF Terse

(* Ending sessions of the document and telling its daemon. *)
LEMMA EndingIsOrderly ==
  ASSUME NEW y \in Views, NEW X, Ordered(y, X), NEW st, NEW C \in SUBSET y.doc.sessions,
         st.doc.slot = y.doc.slot, st.doc.restored = y.doc.restored,
         st.doc.sessions = y.doc.sessions \ C, st.doc.ended = y.doc.ended \cup C,
         NEW o, o.slot = y.doc.slot, st.sends = TellDaemon(o, C), Mild(st.closes)
  PROVE  Orderly(y, st, X)
PROOF
<1>1. \A s \in DSocket : \A m \in Sent : To(s, m) \in st.sends => s = y.doc.slot /\ \E c \in C : m = Finish(c)
  BY TellsEnds
<1>2. C \subseteq CSocket /\ y.doc.sessions \subseteq CSocket
  BY DEF Views, Docs
<1>3. Terse(st)
  BY <1>1, <1>2 DEF Terse
<1>4. ASSUME NEW c \in CSocket, c \in y.doc.sessions PROVE ~Newcomer(y, c)
  BY <1>4 DEF Ordered, NewcomersAreUnknown, Unknown
<1>5. ASSUME NEW s \in DSocket, NEW m \in Sent, To(s, m) \in st.sends PROVE MaySend(y, st, X, s, m)
  <2>1. PICK b \in C : m = Finish(b)
    BY <1>1, <1>5
  <2>2. b \in CSocket /\ Finish(b) \in Of(b)
    BY <1>2 DEF Of
  <2>3. m # Word("challenge") /\ m # Word("claimed") /\ \A c \in CSocket : m # Begin(c) /\ m # Carry(c)
    BY <2>1 DEF Word, Begin, Carry, Finish, About
  <2>4. \A c \in CSocket : m = Finish(c) => c = b
    BY <2>1 DEF Finish, About
  <2>5. b \notin st.doc.sessions /\ ~Newcomer(y, b)
    BY <1>2, <1>4
  <2> QED BY <1>1, <1>5, <2>3, <2>4, <2>5 DEF MaySend
<1>6. SameSlot(y, st)
  <2>1. \A c \in st.doc.ended \ y.doc.ended : ~Newcomer(y, c)
    BY <1>2, <1>4
  <2>2. ASSUME NEW c \in y.doc.sessions \ st.doc.sessions PROVE c \in st.doc.ended /\ To(y.doc.slot, Finish(c)) \in st.sends
    <3>1. c \in C
      BY <2>2
    <3>2. y.doc.slot # None
      BY <2>2 DEF Ordered, Bare
    <3> QED BY <3>1, <3>2 DEF TellDaemon, Finish
  <2> QED BY <2>1, <2>2 DEF SameSlot
<1>7. Bare(st.doc)
  BY <1>2 DEF Ordered, Bare
<1> QED BY <1>3, <1>5, <1>6, <1>7 DEF Orderly, Mild

(* The slot's socket is lost with its sessions. *)
LEMMA LosingIsOrderly ==
  ASSUME NEW y \in Views, NEW X, NEW st, st.sends = {}, Mild(st.closes), y.doc.slot # None,
         st.doc.sessions = {}, st.doc.ended = {}, st.doc.slot # y.doc.slot,
         st.doc.slot = None \/ (st.doc.slot \in y.mark /\ st.doc.restored),
         y.doc.slot \in Shutting(st) \/ y.rt[y.doc.slot] # "open"
  PROVE  Orderly(y, st, X)
PROOF
<1>1. Terse(st) /\ Bare(st.doc)
  BY DEF Terse, Bare, Sent
<1>2. NewSlot(y, st)
  BY DEF NewSlot
<1> QED BY <1>1, <1>2 DEF Orderly, Mild

LEMMA IdleIsOrderly ==
  ASSUME NEW y \in Views, NEW X, Ordered(y, X), NEW st, st.sends = {}, Mild(st.closes),
         st.doc.slot = y.doc.slot, st.doc.restored = y.doc.restored,
         st.doc.sessions = y.doc.sessions, st.doc.ended = y.doc.ended
  PROVE  Orderly(y, st, X)
PROOF
<1>1. TellDaemon(y.doc, {}) = {}
  BY DEF TellDaemon
<1>2. {} \in SUBSET y.doc.sessions /\ y.doc.sessions = y.doc.sessions \ {} /\ y.doc.ended = y.doc.ended \cup {}
  OBVIOUS
<1> QED BY <1>1, <1>2, EndingIsOrderly

LEMMA NowIs ==
  ASSUME Sound
  PROVE  /\ Now \in Views /\ Now.doc = doc /\ Now.rt = rt /\ Now.mark = mark /\ Now.down = down
         /\ Now.up = up /\ Now.ver = verifying /\ Now.link = link /\ Now.dead = dead
         /\ \A w : OfNow(w) => View(w, up, verifying) = Now
PROOF
<1>1. /\ Now = [doc |-> doc, rt |-> rt, mark |-> mark, down |-> down, up |-> up, ver |-> verifying,
                link |-> link, dead |-> dead]
  BY DEF Now, View, World
<1>2. \A w : OfNow(w) => View(w, up, verifying) = Now
  BY <1>1 DEF OfNow, View
<1>3. verifying \in {None} \cup [sock : DSocket, replaces : DSocket \cup {None}]
  BY DEF Sound
<1>4. link \in [Daemon -> LinkType]
  BY DEF Sound, LinkType
<1>5. Now \in Views
  BY <1>1, <1>3, <1>4 DEF Views, Sound
<1> QED BY <1>1, <1>2, <1>5

LEMMA ReconcileIsOrderly ==
  ASSUME Sound, Ordered(Now, Gone(Now))
  PROVE  Orderly(Now, Reconcile(doc), Gone(Now))
PROOF
<1> DEFINE d == doc
           y == Now
           X == Gone(Now)
           pruned == [d EXCEPT !.pending = @ \cap Listed]
           bereft == IF d.slot # None /\ d.slot \notin Listed THEN DropDaemon(pruned) ELSE pruned
           absent == bereft.sessions \ Listed
           spared == EndedByRendezvous(bereft, absent)
           given == IF spared.slot = None /\ mark # {}
                    THEN [spared EXCEPT !.slot = CHOOSE s \in mark : TRUE, !.restored = TRUE]
                    ELSE spared
           others == mark \ {given.slot}
           S == TellDaemon(bereft, absent)
           lost == d.sessions \ bereft.sessions
           C == Shut(lost, "daemonAbsent") \cup Shut(others, "claimLost")
           st == Reconcile(d)
<1>0. d \in Docs /\ y \in Views /\ y.doc = d /\ y.mark = mark /\ y.rt = rt /\ None \notin mark
  BY NowIs, Distinct DEF Sound
<1>1. st.doc = given /\ st.sends = S /\ st.closes = C
  <2>1. Reconcile(d) = Swept(given, S, C)
    BY DEF Reconcile
  <2> HIDE DEF given, S, C
  <2> QED BY <2>1, SweptIs
<1>2. Mild(C)
  <2> HIDE DEF lost, others
  <2> QED BY MildShut
<1>3. /\ pruned.slot = d.slot /\ pruned.restored = d.restored /\ pruned.sessions = d.sessions /\ pruned.ended = d.ended
      /\ pruned \in Docs
  BY <1>0 DEF Docs
<1> HIDE DEF pruned, C, y, X
<1>4. CASE d.slot # None /\ d.slot \notin Listed
  <2>1. /\ bereft = [pruned EXCEPT !.slot = None, !.restored = FALSE, !.sessions = {}, !.ended = {}]
        /\ bereft.slot = None /\ bereft.sessions = {} /\ bereft.ended = {} /\ bereft \in Docs
    BY <1>3, <1>4 DEF DropDaemon, Docs
  <2> HIDE DEF bereft
  <2>2. absent = {} /\ S = {}
    BY <2>1 DEF TellDaemon
  <2> HIDE DEF absent, S
  <2>3. spared.slot = None /\ spared.sessions = {} /\ spared.ended = {} /\ spared \in Docs
    BY <2>1, <2>2 DEF EndedByRendezvous, Docs
  <2> HIDE DEF spared
  <2>4. given.sessions = {} /\ given.ended = {} /\ (given.slot = None \/ (given.slot \in mark /\ given.restored))
    BY <2>3 DEF Docs
  <2> HIDE DEF given
  <2>5. d.slot \in Socket /\ rt[d.slot] = "gone"
    BY <1>0, <1>4, Distinct DEF Docs, Listed
  <2>6. given.slot # d.slot
    BY <1>4, <2>4, <2>5 DEF Sound
  <2> QED BY <1>0, <1>1, <1>2, <1>4, <2>2, <2>4, <2>5, <2>6, LosingIsOrderly DEF X, y
<1>5. CASE d.slot = None
  <2>1. d.sessions = {} /\ d.ended = {}
    BY <1>0, <1>5 DEF Ordered, Bare, y
  <2>2. bereft = pruned
    BY <1>5
  <2> HIDE DEF bereft
  <2>3. absent = {} /\ S = {}
    BY <1>3, <2>1, <2>2 DEF TellDaemon
  <2> HIDE DEF absent, S
  <2>4. spared.slot = None /\ spared.restored = d.restored /\ spared.sessions = {} /\ spared.ended = {} /\ spared \in Docs
    BY <1>3, <1>5, <2>1, <2>2, <2>3 DEF EndedByRendezvous, Docs
  <2> HIDE DEF spared
  <2>5. CASE mark = {}
    <3>1. given = spared
      BY <2>5
    <3> QED BY <1>0, <1>1, <1>2, <1>5, <2>1, <2>3, <2>4, <3>1, IdleIsOrderly DEF X, y
  <2>6. CASE mark # {}
    <3>1. given.sessions = {} /\ given.ended = {} /\ given.slot \in mark /\ given.restored
      BY <2>4, <2>6 DEF Docs
    <3> HIDE DEF given
    <3>2. Terse(st) /\ Bare(st.doc) /\ st.sends = {}
      BY <1>1, <2>3, <3>1 DEF Terse, Bare, Sent
    <3>3. NewSlot(y, st) /\ st.doc.slot # y.doc.slot
      BY <1>0, <1>1, <1>5, <3>1 DEF NewSlot
    <3> QED BY <1>1, <1>2, <3>2, <3>3 DEF Orderly, Mild, X, y
  <2> QED BY <2>5, <2>6
<1>6. CASE d.slot # None /\ d.slot \in Listed
  <2>1. bereft = pruned
    BY <1>6
  <2> HIDE DEF bereft
  <2>2. absent \in SUBSET d.sessions /\ bereft.slot = d.slot
    BY <1>3, <2>1
  <2> HIDE DEF absent
  <2>3. /\ spared.slot = d.slot /\ spared.restored = d.restored /\ spared.sessions = d.sessions \ absent
        /\ spared.ended = d.ended \cup absent
    BY <1>3, <2>1 DEF EndedByRendezvous, Docs
  <2> HIDE DEF spared
  <2>4. given = spared
    BY <1>6, <2>3
  <2> HIDE DEF given
  <2> QED BY <1>0, <1>1, <1>2, <2>2, <2>3, <2>4, EndingIsOrderly DEF X, y
<1> QED BY <1>4, <1>5, <1>6

LEMMA FrameShapes ==
  ASSUME NEW m \in Frames
  PROVE  /\ m.t = "arrive" => m = Word("arrive")
         /\ m.t = "data" => m = Carry(m.s) /\ m.s \in CSocket
         /\ m.t = "closed" => m = Finish(m.s) /\ m.s \in CSocket
BY DEF Frames, Word, Carry, Finish, About

LEMMA ArrivalsAreOrderly ==
  ASSUME NEW y \in Views, NEW X, Ordered(y, X), NEW s \in Socket
  PROVE  /\ s \in DSocket /\ Clear(y, s) => Orderly(y, OnDaemonArrived(y.doc, s), X)
         /\ s \in CSocket /\ Stranger(y, s) => Orderly(y, OnClientArrived(y.doc, s), X)
PROOF
<1> DEFINE d == y.doc
<1>0. d \in Docs
  BY DEF Views
<1>1. ASSUME s \in DSocket, Clear(y, s) PROVE Orderly(y, OnDaemonArrived(d, s), X)
  <2>1. CASE Cardinality(d.pending) >= MaxPending
    <3> DEFINE st == Step(d, {}, Shut({s}, "rendezvousBusy"))
    <3>1. st.doc = d /\ st.sends = {} /\ st.closes = Shut({s}, "rendezvousBusy")
      BY DEF Step
    <3>2. Mild(st.closes)
      BY <3>1, MildShut
    <3> HIDE DEF st
    <3>3. Orderly(y, st, X)
      BY <3>1, <3>2, IdleIsOrderly
    <3> QED BY <2>1, <3>3 DEF OnDaemonArrived, st
  <2>2. CASE ~(Cardinality(d.pending) >= MaxPending)
    <3> DEFINE n == [d EXCEPT !.pending = @ \cup {s}]
               st == Swept(n, {To(s, Word("challenge"))}, {})
    <3>1. n.slot = d.slot /\ n.restored = d.restored /\ n.sessions = d.sessions /\ n.ended = d.ended
      BY <1>0 DEF Docs
    <3>2. st.doc = n /\ st.sends = {To(s, Word("challenge"))} /\ st.closes = {}
      BY SweptIs
    <3> HIDE DEF n, st
    <3>3. Word("challenge") \in Sent
      BY DEF Sent
    <3>4. \A x \in DSocket : \A m \in Sent : To(x, m) \in st.sends => x = s /\ m = Word("challenge")
      BY <3>2 DEF To
    <3>5. MaySend(y, st, X, s, Word("challenge"))
      <4>1. \A c : Word("challenge") \notin Of(c)
        BY FramesDiffer
      <4>2. Word("challenge") # Word("claimed")
        BY DEF Word
      <4>3. s # st.doc.slot
        BY <1>1, <3>1, <3>2 DEF Clear, Blank
      <4> QED BY <1>1, <4>1, <4>2, <4>3 DEF MaySend, Of
    <3>6. SameSlot(y, st) /\ Bare(st.doc)
      BY <3>1, <3>2 DEF SameSlot, Ordered, Bare
    <3>7. Terse(st)
      BY <3>3, <3>4, OneWord
    <3>8. Orderly(y, st, X)
      BY <3>1, <3>2, <3>4, <3>5, <3>6, <3>7 DEF Orderly
    <3> QED BY <2>2, <3>8 DEF OnDaemonArrived, st, n
  <2> QED BY <2>1, <2>2
<1>2. ASSUME s \in CSocket, Stranger(y, s) PROVE Orderly(y, OnClientArrived(d, s), X)
  <2>1. CASE d.slot = None \/ Cardinality(d.sessions) >= MaxSessions
    <3> DEFINE C == IF d.slot = None THEN Shut({s}, "daemonAbsent") ELSE Shut({s}, "rendezvousBusy")
               st == Step(d, {}, C)
    <3>1. st.doc = d /\ st.sends = {} /\ st.closes = C
      BY DEF Step
    <3>2. Mild(C)
      BY MildShut
    <3> HIDE DEF C
    <3>3. Orderly(y, st, X)
      <4> HIDE DEF st
      <4> QED BY <3>1, <3>2, IdleIsOrderly
    <3>4. OnClientArrived(d, s) = st
      <4>1. CASE d.slot = None
        BY <4>1 DEF OnClientArrived, C
      <4>2. CASE d.slot # None
        BY <2>1, <4>2 DEF OnClientArrived, C
      <4> QED BY <4>1, <4>2
    <3> QED BY <3>3, <3>4
  <2>2. CASE ~(d.slot = None \/ Cardinality(d.sessions) >= MaxSessions)
    <3> DEFINE n == [d EXCEPT !.sessions = @ \cup {s}]
               S == {To(s, Word("ready")), To(d.slot, About("open", s))}
               st == Swept(n, S, {})
    <3>1. n.slot = d.slot /\ n.restored = d.restored /\ n.sessions = d.sessions \cup {s} /\ n.ended = d.ended
      BY <1>0 DEF Docs
    <3>2. st.doc = n /\ st.sends = S /\ st.closes = {}
      BY SweptIs
    <3>3. OnClientArrived(d, s) = st
      BY <2>2 DEF OnClientArrived
    <3> HIDE DEF n, st
    <3>4. Begin(s) \in Sent /\ d.slot \in DSocket /\ s \notin DSocket
      BY <1>0, <1>2, <2>2, Distinct DEF Sent, Begin, Docs
    <3>5. \A x \in DSocket : \A m \in Sent : To(x, m) \in st.sends => x = d.slot /\ m = Begin(s)
      BY <3>2, <3>4 DEF To, Begin
    <3>6. MaySend(y, st, X, d.slot, Begin(s))
      <4>1. Begin(s) # Word("challenge") /\ Begin(s) # Word("claimed")
        BY DEF Word, Begin, About
      <4>2. \A c : Begin(s) # Finish(c) /\ Begin(s) # Carry(c)
        BY DEF Begin, Finish, Carry, About
      <4>3. \A c : Begin(s) = Begin(c) => c = s
        BY DEF Begin, About
      <4> QED BY <1>2, <3>1, <3>2, <4>1, <4>2, <4>3 DEF MaySend
    <3>7. SameSlot(y, st)
      <4>1. To(d.slot, Begin(s)) \in st.sends
        BY <3>2 DEF Begin
      <4> QED BY <1>2, <3>1, <3>2, <4>1 DEF SameSlot
    <3>8. Bare(st.doc)
      BY <2>2, <3>1, <3>2 DEF Bare
    <3>9. Terse(st)
      BY <3>4, <3>5 DEF Terse
    <3> QED BY <3>1, <3>2, <3>3, <3>5, <3>6, <3>7, <3>8, <3>9 DEF Orderly
  <2> QED BY <2>1, <2>2
<1> QED BY <1>1, <1>2

LEMMA VerdictIsOrderly ==
  ASSUME NEW y \in Views, NEW X, Ordered(y, X), NEW s \in DSocket, Clear(y, s), NEW r
  PROVE  Orderly(y, OnClaimVerdict(y.doc, s, r), X)
PROOF
<1> DEFINE d == y.doc
           rest == DropPending(d, s)
           base == IF d.slot = None THEN rest ELSE DropDaemon(rest)
<1>0. d \in Docs /\ s # d.slot /\ s # None
  BY Distinct DEF Views, Clear, Blank
<1>1. /\ rest.slot = d.slot /\ rest.restored = d.restored /\ rest.sessions = d.sessions /\ rest.ended = d.ended
      /\ rest \in Docs
  BY <1>0 DEF DropPending, Docs
<1>2. CASE s \notin d.pending
  <2>1. OnClaimVerdict(d, s, r) = Step(d, {}, {})
    BY <1>2 DEF OnClaimVerdict
  <2> QED BY <2>1, MildShut, IdleIsOrderly DEF Step
<1>3. CASE s \in d.pending /\ d.slot # None /\ ~Supersedes(d, r)
  <2> DEFINE st == Step(rest, {}, Shut({s}, "rendezvousClaimed"))
  <2>1. OnClaimVerdict(d, s, r) = st
    BY <1>3 DEF OnClaimVerdict
  <2> HIDE DEF rest
  <2>2. st.doc = rest /\ st.sends = {} /\ Mild(st.closes)
    BY MildShut DEF Step
  <2> HIDE DEF st
  <2> QED BY <1>1, <2>1, <2>2, IdleIsOrderly
<1>4. CASE s \in d.pending /\ ~(d.slot # None /\ ~Supersedes(d, r))
  <2> DEFINE n == [base EXCEPT !.slot = s, !.restored = FALSE]
             C == Shut(d.sessions, "daemonAbsent") \cup Shut({d.slot} \ {None}, "claimLost")
             S == {To(s, Word("claimed"))}
             st == Swept(n, S, C)
  <2>1. OnClaimVerdict(d, s, r) = st
    BY <1>4 DEF OnClaimVerdict
  <2>2. n.slot = s /\ n.restored = FALSE /\ n.sessions = {} /\ n.ended = {}
    <3> HIDE DEF rest
    <3>1. CASE d.slot = None
      BY <1>1, <3>1 DEF Ordered, Bare, Docs
    <3>2. CASE d.slot # None
      BY <1>1, <3>2 DEF DropDaemon, Docs
    <3> QED BY <3>1, <3>2
  <2> HIDE DEF base, n
  <2>3. st.doc = n /\ st.sends = S /\ st.closes = C
    <3> HIDE DEF S, C
    <3> QED BY SweptIs
  <2>4. Mild(C) /\ (d.slot # None => d.slot \in Shutting(st))
    <3>1. d.slot # None => [to |-> d.slot, code |-> "claimLost"] \in C
      BY DEF Shut
    <3>2. \A k : [to |-> d.slot, code |-> k].to = d.slot
      OBVIOUS
    <3> HIDE DEF C
    <3>3. d.slot # None => d.slot \in Shutting(st)
      BY <2>3, <3>1, <3>2 DEF Shutting
    <3> QED BY <3>3, MildShut DEF C
  <2> HIDE DEF st, C
  <2>5. Word("claimed") \in Sent
    BY DEF Sent
  <2>6. \A x \in DSocket : \A m \in Sent : To(x, m) \in st.sends => x = s /\ m = Word("claimed")
    BY <2>3 DEF To
  <2>7. MaySend(y, st, X, s, Word("claimed"))
    <3>1. \A c : Word("claimed") \notin Of(c)
      BY FramesDiffer
    <3>2. Word("challenge") # Word("claimed")
      BY DEF Word
    <3> QED BY <2>2, <2>3, <3>1, <3>2 DEF MaySend, Of
  <2>8. NewSlot(y, st) /\ Bare(st.doc)
    BY <2>2, <2>3, <2>4 DEF NewSlot, Bare
  <2>9. Terse(st)
    BY <2>5, <2>6, OneWord
  <2> QED BY <1>0, <2>1, <2>2, <2>3, <2>4, <2>6, <2>7, <2>8, <2>9 DEF Orderly, Mild
<1> QED BY <1>2, <1>3, <1>4

(* What a daemon's frame may be. *)
Apt(y, m) ==
  /\ m \in Upward \ Opening
  /\ \A c \in CSocket : /\ m \in Of(c) /\ ~y.doc.restored => c \in y.doc.sessions \cup y.doc.ended
                        /\ m = Finish(c) => Spent(y, y.doc.slot, c) /\ ~Newcomer(y, c)
                        /\ m = Carry(c) => ~Newcomer(y, c)

LEMMA DaemonFrameIsOrderly ==
  ASSUME NEW y \in Views, NEW X, Ordered(y, X), y.doc.slot # None, NEW m, Apt(y, m)
  PROVE  Orderly(y, OnDaemonFrame(y.doc, m), X)
PROOF
<1> DEFINE d == y.doc
           st == OnDaemonFrame(d, m)
<1>0. d \in Docs /\ d.slot \in DSocket
  BY DEF Views, Docs
<1>1. CASE m = Word("probe")
  <2> DEFINE S == {To(d.slot, Word("held"))}
  <2>1. st = Step(d, S, {})
    BY <1>1, Distinct DEF OnDaemonFrame
  <2>2. st.doc = d /\ st.sends = S /\ st.closes = {}
    BY <2>1 DEF Step
  <2> HIDE DEF st
  <2>3. Word("held") \in Sent
    BY DEF Sent
  <2>4. \A x \in DSocket : \A n \in Sent : To(x, n) \in st.sends => x = d.slot /\ n = Word("held")
    BY <2>2 DEF To
  <2>5. MaySend(y, st, X, d.slot, Word("held"))
    <3>1. \A c : Word("held") \notin Of(c)
      BY FramesDiffer
    <3>2. Word("held") # Word("challenge") /\ Word("held") # Word("claimed")
      BY DEF Word
    <3> QED BY <3>1, <3>2 DEF MaySend, Of
  <2>6. SameSlot(y, st) /\ Bare(st.doc)
    BY <2>2 DEF SameSlot, Ordered, Bare
  <2>7. Terse(st)
    BY <2>3, <2>4 DEF Terse
  <2>8. Orderly(y, st, X)
    BY <2>2, <2>4, <2>5, <2>6, <2>7 DEF Orderly
  <2> QED BY <2>8 DEF st
<1>2. ASSUME NEW c \in CSocket, m \in {Carry(c), Finish(c)} PROVE Orderly(y, st, X)
  <2>0. /\ m.s = c /\ m.t \in {"data", "closed"} /\ m.t # "probe"
        /\ m.t = "data" <=> m = Carry(c)
        /\ m.t = "closed" <=> m = Finish(c)
        /\ m \in Of(c)
    BY <1>2 DEF Carry, Finish, About, Of
  <2>1. CASE (m = Carry(c) /\ c \in d.sessions) \/ (c \notin d.sessions /\ c \in d.ended)
    <3>1. st = Step(d, {}, {})
      BY <2>0, <2>1 DEF OnDaemonFrame
    <3> QED BY <3>1, MildShut, IdleIsOrderly DEF Step
  <2>2. CASE m = Finish(c) /\ c \in d.sessions
    <3> DEFINE n == [d EXCEPT !.sessions = @ \ {c}]
    <3>1. st = Step(n, {}, Shut({c}, "said"))
      <4>1. m.t = "closed" /\ m.t # "data" /\ m.t # "probe" /\ m.s = c
        BY <2>0, <2>2
      <4> QED BY <2>2, <4>1 DEF OnDaemonFrame
    <3>2. n.slot = d.slot /\ n.restored = d.restored /\ n.sessions = d.sessions \ {c} /\ n.ended = d.ended
      BY <1>0 DEF Docs
    <3> HIDE DEF n
    <3>3. st.doc = n /\ st.sends = {} /\ Mild(st.closes)
      BY <3>1, MildShut DEF Step
    <3> HIDE DEF st
    <3>4. Spent(y, d.slot, c)
      BY <2>2 DEF Apt
    <3>5. SameSlot(y, st) /\ Bare(st.doc)
      BY <3>2, <3>3, <3>4 DEF SameSlot, Bare
    <3>6. Terse(st)
      BY <3>3 DEF Terse, Sent
    <3>7. Orderly(y, st, X)
      BY <3>2, <3>3, <3>5, <3>6 DEF Orderly, Mild
    <3> QED BY <3>7 DEF st
  <2>3. CASE c \notin d.sessions \cup d.ended
    <3> DEFINE n == EndedByRendezvous(d, {c})
               S == TellDaemon(d, {c})
    <3>1. d.restored /\ ~Newcomer(y, c)
      BY <1>2, <2>0, <2>3 DEF Apt
    <3>2. st = Step(n, S, {})
      BY <2>0, <2>3, <3>1 DEF OnDaemonFrame
    <3>3. /\ n.slot = d.slot /\ n.restored = d.restored /\ n.sessions = d.sessions
          /\ n.ended = d.ended \cup {c}
      BY <1>0, <2>3 DEF Docs, EndedByRendezvous
    <3> HIDE DEF n
    <3>4. st.doc = n /\ st.sends = S /\ st.closes = {}
      BY <3>2 DEF Step
    <3> HIDE DEF st
    <3>5. Finish(c) \in Sent
      BY DEF Sent, Finish
    <3>6. \A x \in DSocket : \A k \in Sent : To(x, k) \in st.sends => x = d.slot /\ k = Finish(c)
      BY <3>4, TellsEnds
    <3>7. MaySend(y, st, X, d.slot, Finish(c))
      <4>1. Finish(c) # Word("challenge") /\ Finish(c) # Word("claimed")
        BY DEF Word, Finish, About
      <4>2. \A b : Finish(c) # Begin(b) /\ Finish(c) # Carry(b)
        BY DEF Begin, Finish, Carry, About
      <4>3. \A b : Finish(c) = Finish(b) => b = c
        BY DEF Finish, About
      <4> QED BY <2>3, <3>1, <3>3, <3>4, <4>1, <4>2, <4>3 DEF MaySend
    <3>8. SameSlot(y, st) /\ Bare(st.doc)
      BY <3>1, <3>3, <3>4 DEF SameSlot, Bare
    <3>9. Terse(st)
      BY <3>5, <3>6 DEF Terse
    <3>10. Orderly(y, st, X)
      BY <3>3, <3>4, <3>6, <3>7, <3>8, <3>9 DEF Orderly
    <3> QED BY <3>10 DEF st
  <2> QED BY <1>2, <2>1, <2>2, <2>3
<1>3. m = Word("probe") \/ \E c \in CSocket : m \in {Carry(c), Finish(c)}
  BY DEF Apt, Upward
<1> HIDE DEF st
<1> QED BY <1>1, <1>2, <1>3 DEF st

LEMMA ClientFrameIsOrderly ==
  ASSUME NEW y \in Views, NEW X, Ordered(y, X), NEW c \in y.doc.sessions \ X, NEW m
  PROVE  Orderly(y, OnClientFrame(y.doc, c, m), X)
PROOF
<1> DEFINE d == y.doc
           st == OnClientFrame(d, c, m)
<1>0. d \in Docs /\ d.slot # None /\ c \in CSocket /\ d.slot \in DSocket
  BY DEF Views, Docs, Ordered, Bare
<1>1. CASE m.t = "data"
  <2> DEFINE S == {To(d.slot, About("data", c))}
  <2>1. st = Step(d, S, {})
    BY <1>0, <1>1 DEF OnClientFrame
  <2>2. st.doc = d /\ st.sends = S /\ st.closes = {}
    BY <2>1 DEF Step
  <2> HIDE DEF st
  <2>3. Carry(c) \in Sent
    BY <1>0 DEF Sent, Carry
  <2>4. \A x \in DSocket : \A n \in Sent : To(x, n) \in st.sends => x = d.slot /\ n = Carry(c)
    BY <2>2 DEF To, Carry
  <2>5. MaySend(y, st, X, d.slot, Carry(c))
    <3>1. Carry(c) # Word("challenge") /\ Carry(c) # Word("claimed")
      BY DEF Word, Carry, About
    <3>2. \A b : Carry(c) # Begin(b) /\ Carry(c) # Finish(b)
      BY DEF Begin, Finish, Carry, About
    <3>3. \A b : Carry(c) = Carry(b) => b = c
      BY DEF Carry, About
    <3> QED BY <2>2, <3>1, <3>2, <3>3 DEF MaySend
  <2>6. SameSlot(y, st) /\ Bare(st.doc)
    BY <2>2 DEF SameSlot, Ordered, Bare
  <2>7. Terse(st)
    BY <2>3, <2>4 DEF Terse
  <2>8. Orderly(y, st, X)
    BY <2>2, <2>4, <2>5, <2>6, <2>7 DEF Orderly
  <2> QED BY <2>8 DEF st
<1>2. CASE m.t # "data"
  <2> DEFINE n == EndedByRendezvous(d, {c})
  <2>1. st = Step(n, TellDaemon(d, {c}), Shut({c}, "said"))
    BY <1>0, <1>2 DEF OnClientFrame
  <2>2. n.slot = d.slot /\ n.restored = d.restored /\ n.sessions = d.sessions \ {c} /\ n.ended = d.ended \cup {c}
    BY <1>0 DEF Docs, EndedByRendezvous
  <2> HIDE DEF n
  <2>3. st.doc = n /\ st.sends = TellDaemon(d, {c}) /\ st.closes = Shut({c}, "said")
    BY <2>1 DEF Step
  <2>4. Mild(st.closes) /\ {c} \in SUBSET d.sessions
    BY <2>3, MildShut
  <2> HIDE DEF st
  <2>5. Orderly(y, st, X)
    BY <2>2, <2>3, <2>4, EndingIsOrderly
  <2> QED BY <2>5 DEF st
<1> QED BY <1>1, <1>2

LEMMA FrameIsOrderly ==
  ASSUME NEW y \in Views, NEW X, Ordered(y, X), NEW s \in Socket, NEW m,
         s = y.doc.slot => Apt(y, m), s \in CSocket => s \notin X,
         s \in DSocket /\ s # y.doc.slot /\ y.rt[s] = "open" => ~Claims(y, s)
  PROVE  Orderly(y, OnFrame(y.doc, s, m), X)
PROOF
<1> DEFINE d == y.doc
<1>0. d \in Docs
  BY DEF Views
<1>1. CASE s = d.slot
  <2>1. OnFrame(d, s, m) = OnDaemonFrame(d, m) /\ d.slot # None
    BY <1>1, Distinct DEF OnFrame
  <2> QED BY <1>1, <2>1, DaemonFrameIsOrderly
<1>2. CASE s \notin d.pending \cup {d.slot} /\ s \in d.sessions
  <2>1. OnFrame(d, s, m) = OnClientFrame(d, s, m) /\ s \in CSocket
    BY <1>0, <1>2 DEF OnFrame, Docs
  <2> QED BY <1>2, <2>1, ClientFrameIsOrderly
<1>3. CASE s \notin d.pending \cup {d.slot} /\ s \notin d.sessions
  <2> DEFINE C == Shut({s}, IF m.t = "probe" THEN "claimLost" ELSE "protocolError")
             st == Step(d, {}, C)
  <2>1. OnFrame(d, s, m) = st
    BY <1>3 DEF OnFrame
  <2>2. \A x : [to |-> x, code |-> "protocolError"] \in C => x = s
    BY DEF Shut
  <2> HIDE DEF C
  <2>3. st.doc = d /\ st.sends = {} /\ st.closes = C
    BY DEF Step
  <2> HIDE DEF st
  <2>4. Terse(st) /\ Bare(st.doc) /\ SameSlot(y, st)
    BY <2>3 DEF Terse, Sent, Ordered, Bare, SameSlot
  <2>5. Orderly(y, st, X)
    BY <1>3, <2>2, <2>3, <2>4 DEF Orderly
  <2> QED BY <2>1, <2>5
<1>4. CASE s \in d.pending \ {d.slot}
  <2> DEFINE n == DropPending(d, s)
             C == Shut({s}, "protocolError")
             st == Step(n, {}, C)
  <2>1. OnFrame(d, s, m) = st
    BY <1>4 DEF OnFrame
  <2>2. \A x : [to |-> x, code |-> "protocolError"] \in C => x = s
    BY DEF Shut
  <2>3. n.slot = d.slot /\ n.restored = d.restored /\ n.sessions = d.sessions /\ n.ended = d.ended
    BY <1>0 DEF DropPending, Docs
  <2> HIDE DEF C, n
  <2>4. st.doc = n /\ st.sends = {} /\ st.closes = C
    BY DEF Step
  <2> HIDE DEF st
  <2>5. Terse(st) /\ Bare(st.doc) /\ SameSlot(y, st)
    BY <2>3, <2>4 DEF Terse, Sent, Ordered, Bare, SameSlot
  <2>6. Orderly(y, st, X)
    BY <1>4, <2>2, <2>3, <2>4, <2>5 DEF Orderly
  <2> QED BY <2>1, <2>6
<1> QED BY <1>1, <1>2, <1>3, <1>4

LEMMA CloseIsOrderly ==
  ASSUME NEW y \in Views, NEW X, Ordered(y, X), NEW s \in Socket, y.rt[s] # "open"
  PROVE  Orderly(y, OnSocketClosed(y.doc, s), X)
PROOF
<1> DEFINE d == y.doc
           st == OnSocketClosed(d, s)
<1>0. d \in Docs /\ s # None
  BY Distinct DEF Views
<1>5. /\ s \in d.pending => s \notin d.sessions
      /\ s = d.slot => s \notin d.sessions
  BY <1>0, Distinct DEF Docs
<1>1. CASE s \in d.pending
  <2> DEFINE n == DropPending(d, s)
  <2>1. st = Step(n, {}, {})
    BY <1>1, <1>5 DEF OnSocketClosed
  <2>2. n.slot = d.slot /\ n.restored = d.restored /\ n.sessions = d.sessions /\ n.ended = d.ended
    BY <1>0 DEF DropPending, Docs
  <2> HIDE DEF n
  <2>3. st.doc = n /\ st.sends = {} /\ Mild(st.closes)
    BY <2>1, MildShut DEF Step
  <2> HIDE DEF st
  <2> QED BY <2>2, <2>3, IdleIsOrderly DEF st
<1>2. CASE s \notin d.pending /\ s = d.slot
  <2> DEFINE n == DropDaemon(d)
  <2>1. st = Step(n, {}, Shut(d.sessions, "daemonAbsent"))
    BY <1>2, <1>5 DEF OnSocketClosed
  <2>2. n.slot = None /\ n.sessions = {} /\ n.ended = {}
    BY <1>0 DEF DropDaemon, Docs
  <2> HIDE DEF n
  <2>3. st.doc = n /\ st.sends = {} /\ Mild(st.closes)
    BY <2>1, MildShut DEF Step
  <2> HIDE DEF st
  <2>4. Orderly(y, st, X)
    BY <1>0, <1>2, <2>2, <2>3, LosingIsOrderly
  <2> QED BY <2>4 DEF st
<1>3. CASE s \notin d.pending /\ s # d.slot /\ s \in d.sessions
  <2> DEFINE n == EndedByRendezvous(d, {s})
  <2>1. st = Step(n, TellDaemon(d, {s}), {})
    BY <1>3 DEF OnSocketClosed
  <2>2. n.slot = d.slot /\ n.restored = d.restored /\ n.sessions = d.sessions \ {s} /\ n.ended = d.ended \cup {s}
    BY <1>0 DEF Docs, EndedByRendezvous
  <2> HIDE DEF n
  <2>3. st.doc = n /\ st.sends = TellDaemon(d, {s}) /\ Mild(st.closes) /\ {s} \in SUBSET d.sessions
    BY <1>3, <2>1, MildShut DEF Step
  <2> HIDE DEF st
  <2>4. Orderly(y, st, X)
    BY <2>2, <2>3, EndingIsOrderly
  <2> QED BY <2>4 DEF st
<1>4. CASE s \notin d.pending /\ s # d.slot /\ s \notin d.sessions
  <2>1. st = Step(d, {}, {})
    BY <1>4 DEF OnSocketClosed
  <2> QED BY <2>1, MildShut, IdleIsOrderly DEF Step
<1> HIDE DEF st
<1> QED BY <1>1, <1>2, <1>3, <1>4 DEF st

LEMMA SweepIsOrderly ==
  ASSUME NEW y \in Views, NEW X, Ordered(y, X), dead \subseteq Socket
  PROVE  Orderly(y, OnAlarm(y.doc), X)
PROOF
<1> DEFINE d == y.doc
           late == {s \in d.pending : Overdue(s)}
           pruned == [d EXCEPT !.pending = @ \ late]
           mute == {d.slot} \cap dead
           bereft == IF mute = {} THEN pruned ELSE DropDaemon(pruned)
           still == bereft.sessions \cap dead
           spared == EndedByRendezvous(bereft, still)
           S == TellDaemon(bereft, still)
           lost == (d.sessions \ bereft.sessions) \cup still \cup mute
           C == Shut(late, "claimTimeout") \cup Shut(lost, "heartbeatTimeout")
           st == OnAlarm(d)
<1>0. d \in Docs
  BY DEF Views
<1>1. /\ pruned.slot = d.slot /\ pruned.restored = d.restored /\ pruned.sessions = d.sessions /\ pruned.ended = d.ended
      /\ pruned \in Docs
  BY <1>0 DEF Docs
<1>2. st.doc = spared /\ st.sends = S /\ st.closes = C
  <2>1. OnAlarm(d) = Swept(spared, S, C)
    BY DEF OnAlarm
  <2> HIDE DEF spared, S, C
  <2> QED BY <2>1, SweptIs
<1>3. Mild(C)
  <2> HIDE DEF lost, late
  <2> QED BY MildShut
<1> HIDE DEF pruned, st
<1>4. CASE mute = {}
  <2>1. bereft = pruned
    BY <1>4
  <2> HIDE DEF bereft, C
  <2>2. still \in SUBSET d.sessions /\ bereft.slot = d.slot
    BY <1>1, <2>1
  <2> HIDE DEF still
  <2>3. /\ spared.slot = d.slot /\ spared.restored = d.restored /\ spared.sessions = d.sessions \ still
        /\ spared.ended = d.ended \cup still
    BY <1>1, <2>1 DEF EndedByRendezvous, Docs
  <2> HIDE DEF spared
  <2>4. Orderly(y, st, X)
    BY <1>2, <1>3, <2>2, <2>3, EndingIsOrderly
  <2> QED BY <2>4 DEF st
<1>5. CASE mute # {}
  <2>1. bereft.slot = None /\ bereft.sessions = {} /\ bereft.ended = {} /\ bereft \in Docs
    BY <1>1, <1>5 DEF DropDaemon, Docs
  <2>2. mute = {d.slot} /\ mute \subseteq lost
    BY <1>5
  <2>7. d.slot # None
    BY <2>2, Distinct
  <2> HIDE DEF bereft, mute
  <2>3. still = {} /\ S = {}
    BY <2>1 DEF TellDaemon
  <2>4. d.slot \in Shutting(st)
    <3> HIDE DEF lost, late
    <3>1. [to |-> d.slot, code |-> "heartbeatTimeout"] \in C
      BY <2>2 DEF Shut
    <3>2. [to |-> d.slot, code |-> "heartbeatTimeout"].to = d.slot
      OBVIOUS
    <3> HIDE DEF C
    <3> QED BY <1>2, <3>1, <3>2 DEF Shutting
  <2> HIDE DEF still, S, C, lost
  <2>5. spared.slot = None /\ spared.sessions = {} /\ spared.ended = {}
    BY <2>1, <2>3 DEF EndedByRendezvous, Docs
  <2> HIDE DEF spared
  <2>6. CASE d.slot # None
    <3>1. Orderly(y, st, X)
      BY <1>2, <1>3, <2>3, <2>4, <2>5, <2>6, LosingIsOrderly
    <3> QED BY <3>1 DEF st
  <2> QED BY <2>6, <2>7
<1> QED BY <1>4, <1>5

-----------------------------------------------------------------------------
(* A handler takes its event off the queue, then runs its transition. *)

TakenFrom(x, y, e) ==
  /\ y.doc = x.doc /\ y.rt = x.rt /\ y.mark = x.mark /\ y.down = x.down /\ y.ver = None
  /\ y.link = x.link /\ y.dead = x.dead
  /\ \A s \in Socket : y.up[s] = IF e.kind = "frame" /\ e.s = s THEN Tail(x.up[s]) ELSE x.up[s]
  /\ e.kind = "frame" => e.s \in Socket /\ x.up[e.s] # <<>>

LEMMA TakenIsFewer ==
  ASSUME NEW x \in Views, NEW y \in Views, NEW e, TakenFrom(x, y, e)
  PROVE  /\ Fewer(x, y)
         /\ \A s : End(y, s) = End(x, s) /\ Known(y, s) = Known(x, s) /\ (Linked(y, s) <=> Linked(x, s))
         /\ \A s : Claims(y, s) <=> Claims(x, s)
         /\ \A s \in Socket : Within(y.up[s]) \subseteq Within(x.up[s])
PROOF
<1>1. Fewer(x, y)
  BY DEF TakenFrom, Fewer
<1>2. \A s : On(y, s) <=> On(x, s)
  BY DEF TakenFrom, On
<1>3. \A s : End(y, s) = End(x, s)
  BY <1>2 DEF TakenFrom, End
<1>4. \A s : (Linked(y, s) <=> Linked(x, s)) /\ (Claims(y, s) <=> Claims(x, s))
  BY <1>2, <1>3 DEF TakenFrom, Linked, Claims
<1> QED BY <1>1, <1>3, <1>4, FewerUp DEF Known

(* What the event taken finds. *)
Fits(y, X, e, m) ==
  /\ e.kind = "frame" =>
       /\ e.s \in Socket /\ m \in Frames
       /\ m = Word("arrive") => IF e.s \in DSocket THEN Clear(y, e.s) ELSE Stranger(y, e.s)
       /\ e.s = y.doc.slot => Apt(y, m)
       /\ e.s \in CSocket => e.s \notin X
       /\ e.s \in DSocket /\ e.s # y.doc.slot /\ y.rt[e.s] = "open" => ~Claims(y, e.s)
  /\ e.kind = "verdict" => e.s \in DSocket /\ Clear(y, e.s)
  /\ e.kind = "closed" => e.s \in Socket /\ y.rt[e.s] # "open"

LEMMA ClearAfter ==
  ASSUME NEW x \in Views, NEW y \in Views, NEW e, TakenFrom(x, y, e), NEW X, Ordered(x, X),
         NEW s \in DSocket, Verified(x, s) \/ (e.kind = "frame" /\ e.s = s /\ Head(x.up[s]) \in Opening)
  PROVE  Clear(y, s)
PROOF
<1>1. Apace(x, s) /\ (Early(x, s) => Blank(x, s)) /\ UpInOrder(x, s) /\ s \in Socket
  BY Distinct DEF Ordered, ClaimComesFirst, QueuesInOrder
<1>2. /\ \A t : End(y, t) = End(x, t) /\ Known(y, t) = Known(x, t)
      /\ \A t : Claims(y, t) <=> Claims(x, t)
      /\ Within(y.up[s]) \subseteq Within(x.up[s])
  BY <1>1, TakenIsFewer
<1>3. ~Challenged(y, s) /\ ~Calls(y, s) /\ Early(x, s)
  <2>1. CASE Verified(x, s)
    <3>1. ~Calls(x, s) /\ ~Challenged(x, s) /\ Early(x, s)
      BY <1>1, <2>1 DEF Apace, Early
    <3> QED BY <1>2, <3>1 DEF Calls, Challenged, TakenFrom
  <2>2. CASE e.kind = "frame" /\ e.s = s /\ Head(x.up[s]) \in Opening
    <3>1. x.up[s] \in Seq(Frames) /\ x.up[s] # <<>> /\ y.up[s] = Tail(x.up[s])
      BY <1>1, <2>2 DEF Views, TakenFrom
    <3>2. /\ Head(x.up[s]) \in Within(x.up[s])
          /\ Apart(x.up[s], Opening, Opening) => Opening \cap Within(y.up[s]) = {}
      BY <2>2, <3>1, QueueTail
    <3>3. Calls(x, s) /\ ~Calls(y, s)
      BY <1>1, <2>2, <3>2 DEF Calls, UpInOrder
    <3>4. ~Challenged(x, s) /\ Early(x, s)
      BY <1>1, <3>3 DEF Apace, Early
    <3> QED BY <3>3, <3>4 DEF Challenged, TakenFrom
  <2> QED BY <2>1, <2>2
<1>4. Blank(x, s)
  BY <1>1, <1>3
<1>5. Blank(y, s)
  BY <1>2, <1>4 DEF Blank, Silent, TakenFrom
<1>6. ~Verified(y, s)
  BY DEF Verified, TakenFrom
<1> QED BY <1>3, <1>5, <1>6 DEF Clear, Early

LEMMA StrangerAfter ==
  ASSUME NEW x \in Views, NEW y \in Views, NEW e, TakenFrom(x, y, e), NEW X, Ordered(x, X),
         NEW c \in CSocket, e.kind = "frame", e.s = c, Head(x.up[c]) = Word("arrive")
  PROVE  Stranger(y, c)
PROOF
<1>1. x.up[c] \in Seq(Frames) /\ x.up[c] # <<>> /\ y.up[c] = Tail(x.up[c])
  BY Distinct DEF Views, TakenFrom
<1>2. /\ Head(x.up[c]) \in Within(x.up[c])
      /\ Apart(x.up[c], {Word("arrive")}, {Word("arrive")}) => {Word("arrive")} \cap Within(y.up[c]) = {}
  BY <1>1, QueueTail
<1>3. Newcomer(x, c) /\ Apart(x.up[c], {Word("arrive")}, {Word("arrive")}) /\ Unknown(x, c)
  BY <1>2 DEF Ordered, NewcomersAreUnknown, Newcomer
<1>4. ~Newcomer(y, c)
  BY <1>2, <1>3 DEF Newcomer
<1>5. \A s \in DSocket : Known(y, s) = Known(x, s) /\ Within(y.up[s]) \subseteq Within(x.up[s])
  BY Distinct, TakenIsFewer
<1>6. Unknown(y, c)
  BY <1>3, <1>5 DEF Unknown, Silent, TakenFrom
<1> QED BY <1>4, <1>6 DEF Stranger

LEMMA AptAfter ==
  ASSUME NEW x \in Views, NEW y \in Views, NEW e, TakenFrom(x, y, e), NEW X, Ordered(x, X),
         e.kind = "frame", e.s = x.doc.slot, x.doc.slot # None
  PROVE  Apt(y, Head(x.up[e.s]))
PROOF
<1> DEFINE s == x.doc.slot
           m == Head(x.up[s])
<1>1. s \in DSocket /\ s \in Socket
  BY Distinct DEF Views, Docs
<1>2. UpInOrder(x, s) /\ DownInOrder(x, s)
  BY <1>1 DEF Ordered, QueuesInOrder
<1>3. x.up[s] \in Seq(Frames) /\ x.up[s] # <<>> /\ y.up[s] = Tail(x.up[s])
  BY <1>1 DEF Views, TakenFrom
<1>4. /\ m \in Within(x.up[s])
      /\ \A A, B : Apart(x.up[s], A, B) => (m \in A => B \cap Within(y.up[s]) = {})
  BY <1>3, QueueTail
<1>5. End(y, s) = End(x, s) /\ y.down = x.down /\ y.doc = x.doc
  BY TakenIsFewer DEF TakenFrom
<1> HIDE DEF m
<1>6. m \in Upward \ Opening
  <2>1. m \in Opening => Clear(y, s)
    BY <1>1, ClearAfter DEF m
  <2> QED BY <1>2, <1>4, <1>5, <2>1 DEF UpInOrder, Clear, Blank
<1>7. ASSUME NEW c \in CSocket, m \in Of(c)
      PROVE  /\ ~y.doc.restored => c \in y.doc.sessions \cup y.doc.ended
             /\ ~Newcomer(y, c)
             /\ m = Finish(c) => Spent(y, s, c)
  <2>1. Of(c) \cap Within(x.up[s]) # {} /\ ~Silent(x, s, c)
    BY <1>4, <1>7 DEF Silent
  <2>2. ~y.doc.restored => c \in y.doc.sessions \cup y.doc.ended
    BY <1>5, <2>1 DEF Ordered, SessionsAreKnown
  <2>3. ~Newcomer(y, c)
    <3>1. ~Newcomer(x, c)
      BY <1>1, <2>1 DEF Ordered, NewcomersAreUnknown, Unknown
    <3>2. Within(y.up[c]) \subseteq Within(x.up[c])
      BY TakenIsFewer, Distinct
    <3> QED BY <3>1, <3>2 DEF Newcomer
  <2>4. ASSUME m = Finish(c) PROVE Spent(y, s, c)
    <3>1. c \notin End(x, s).sess /\ Apart(x.up[s], {Finish(c)}, Of(c))
      BY <1>2, <1>4, <2>4 DEF UpInOrder
    <3>2. Begin(c) \notin Within(x.down[s])
      BY <1>2, <2>1 DEF DownInOrder
    <3>3. Of(c) \cap Within(y.up[s]) = {}
      BY <1>4, <2>4, <3>1
    <3> QED BY <1>5, <3>1, <3>2, <3>3 DEF Spent
  <2> QED BY <2>2, <2>3, <2>4
<1>8. \A c \in CSocket : Finish(c) \in Of(c) /\ Carry(c) \in Of(c)
  BY DEF Of
<1>9. Apt(y, m)
  <2>1. y.doc.slot = s
    BY <1>5
  <2> HIDE DEF s
  <2> QED BY <1>6, <1>7, <1>8, <2>1 DEF Apt
<1> QED BY <1>9 DEF m

LEMMA TakenFits ==
  ASSUME Sound, NEW x \in Views, NEW y \in Views, NEW e \in Events \cup {Event("none", None)}, TakenFrom(x, y, e),
         NEW X, Ordered(x, X), x.up = up, x.ver = verifying,
         e.kind = "frame" => x.mark \subseteq {x.doc.slot} /\ e.s \notin X,
         \A s \in DSocket : x.rt[s] = "open" /\ Claims(x, s) => s \in x.mark,
         e.kind = "closed" => x.rt[e.s] # "open"
  PROVE  Fits(y, X, e, Head(up[e.s]))
PROOF
<1> DEFINE m == Head(up[e.s])
<1>1. CASE e.kind = "frame"
  <2>1. e.s \in Socket /\ m \in Frames
    BY <1>1, EventsAre DEF Event
  <2>2. ASSUME m = Word("arrive") PROVE IF e.s \in DSocket THEN Clear(y, e.s) ELSE Stranger(y, e.s)
    <3>1. Word("arrive") \in Opening
      BY DEF Opening
    <3>2. CASE e.s \in DSocket
      <4>1. Clear(y, e.s)
        BY <1>1, <2>2, <3>1, <3>2, ClearAfter
      <4> QED BY <3>2, <4>1
    <3>3. CASE e.s \notin DSocket
      <4>1. e.s \in CSocket
        BY <2>1, <3>3, Distinct
      <4>2. Stranger(y, e.s)
        BY <1>1, <2>2, <4>1, StrangerAfter
      <4> QED BY <3>3, <4>2
    <3> QED BY <3>2, <3>3
  <2>3. e.s = y.doc.slot => Apt(y, m)
    <3>1. y.doc = x.doc /\ e.s # None
      BY <2>1, Distinct DEF TakenFrom
    <3> QED BY <1>1, <3>1, AptAfter
  <2>4. e.s \in DSocket /\ e.s # y.doc.slot /\ y.rt[e.s] = "open" => ~Claims(y, e.s)
    <3>1. y.doc = x.doc /\ y.rt = x.rt /\ (Claims(y, e.s) <=> Claims(x, e.s))
      BY TakenIsFewer DEF TakenFrom
    <3> QED BY <1>1, <3>1
  <2> HIDE DEF m
  <2> QED BY <1>1, <2>1, <2>2, <2>3, <2>4 DEF Fits, m
<1>2. CASE e.kind = "verdict"
  <2>1. verifying # None /\ e.s = verifying.sock /\ e.s \in DSocket
    BY <1>2, EventsAre DEF Event
  <2>2. Verified(x, e.s)
    BY <2>1 DEF Verified
  <2>3. Clear(y, e.s)
    BY <2>1, <2>2, ClearAfter
  <2> QED BY <1>2, <2>1, <2>3 DEF Fits
<1>3. CASE e.kind = "closed"
  <2>1. e.s \in departing /\ e.s \in Socket
    BY <1>3, EventsAre DEF Event, Sound
  <2>2. y.rt = x.rt
    BY DEF TakenFrom
  <2> QED BY <1>3, <2>1, <2>2 DEF Fits
<1> QED BY <1>1, <1>2, <1>3 DEF Fits

LEMMA ReduceIsOrderly ==
  ASSUME Sound, NEW e \in Events \cup {Event("none", None)}, NEW y \in Views, NEW X, Ordered(y, X),
         Fits(y, X, e, Head(up[e.s]))
  PROVE  Orderly(y, Reduce(y.doc, e), X)
PROOF
<1> DEFINE m == Head(up[e.s])
           d == y.doc
<1>1. Orderly(y, Step(d, {}, {}), X)
  BY MildShut, IdleIsOrderly DEF Step
<1>2. CASE e.kind = "none"
  BY <1>1, <1>2 DEF Reduce
<1>3. CASE e.kind = "alarm"
  <2>1. Orderly(y, OnAlarm(d), X)
    BY SweepIsOrderly DEF Sound
  <2> QED BY <1>3, <2>1 DEF Reduce, IsClaim
<1>4. CASE e.kind = "closed"
  <2>1. Orderly(y, OnSocketClosed(d, e.s), X)
    BY <1>4, CloseIsOrderly DEF Fits
  <2> QED BY <1>4, <2>1 DEF Reduce, IsClaim
<1>5. CASE e.kind = "verdict"
  <2>1. Orderly(y, OnClaimVerdict(d, e.s, verifying.replaces), X)
    BY <1>5, VerdictIsOrderly DEF Fits
  <2> QED BY <1>5, <2>1 DEF Reduce, IsClaim
<1>6. CASE e.kind = "frame"
  <2>1. e.s \in Socket /\ m \in Frames
    BY <1>6 DEF Fits
  <2>2. CASE m.t = "arrive"
    <3>1. IF e.s \in DSocket THEN Clear(y, e.s) ELSE Stranger(y, e.s)
      BY <1>6, <2>1, <2>2, FrameShapes DEF Fits
    <3>2. CASE e.s \in DSocket
      <4>1. Orderly(y, OnDaemonArrived(d, e.s), X)
        BY <2>1, <3>1, <3>2, ArrivalsAreOrderly
      <4> QED BY <1>6, <2>2, <3>2, <4>1 DEF Reduce, IsClaim
    <3>3. CASE e.s \notin DSocket
      <4>1. Orderly(y, OnClientArrived(d, e.s), X)
        BY <2>1, <3>1, <3>3, ArrivalsAreOrderly, Distinct
      <4> QED BY <1>6, <2>2, <3>3, <4>1 DEF Reduce, IsClaim
    <3> QED BY <3>2, <3>3
  <2>3. CASE m.t # "arrive" /\ IsClaim(d, e)
    BY <1>1, <1>6, <2>3 DEF Reduce
  <2>4. CASE m.t # "arrive" /\ ~IsClaim(d, e)
    <3>1. Orderly(y, OnFrame(d, e.s, m), X)
      BY <1>6, <2>1, FrameIsOrderly DEF Fits
    <3> QED BY <1>6, <2>4, <3>1 DEF Reduce
  <2> QED BY <2>2, <2>3, <2>4
<1>7. e.kind \in {"none", "alarm", "closed", "verdict", "frame"}
  <2>1. CASE e \in Events
    BY <2>1, EventsAre
  <2>2. CASE e = Event("none", None)
    BY <2>2 DEF Event
  <2> QED BY <2>1, <2>2
<1> HIDE DEF m, d
<1> QED BY <1>2, <1>3, <1>4, <1>5, <1>6, <1>7 DEF d

-----------------------------------------------------------------------------
(* The order survives a handler, whole or cut short by a reset. *)

Popped(e) == IF e.kind = "frame" THEN [up EXCEPT ![e.s] = Tail(up[e.s])] ELSE up
Queues == [Socket -> Seq(Frames)]
Verdicts == {None} \cup [sock : DSocket, replaces : DSocket \cup {None}]

LEMMA PoppedIs ==
  ASSUME Sound, NEW e \in Events \cup {Event("none", None)}
  PROVE  /\ Popped(e) \in Queues /\ up \in Queues /\ verifying \in Verdicts /\ None \in Verdicts
         /\ e.kind = "frame" => e.s \in Socket /\ up[e.s] # <<>>
         /\ \A s \in Socket : Popped(e)[s] = IF e.kind = "frame" /\ e.s = s THEN Tail(up[s]) ELSE up[s]
         /\ \A s \in Socket : e = Event("frame", s) <=> e.kind = "frame" /\ e.s = s
PROOF
<1>1. up \in Queues /\ verifying \in Verdicts /\ None \in Verdicts
  BY DEF Sound, Queues, Verdicts
<1>2. e.kind = "frame" => /\ e.s \in Socket /\ up[e.s] # <<>> /\ Tail(up[e.s]) \in Seq(Frames)
                          /\ e = Event("frame", e.s)
  <2>1. CASE e \in Events
    BY <2>1, EventsAre
  <2>2. CASE e = Event("none", None)
    BY <2>2 DEF Event
  <2> QED BY <2>1, <2>2
<1>3. Popped(e) \in Queues /\ \A s \in Socket : Popped(e)[s] = IF e.kind = "frame" /\ e.s = s THEN Tail(up[s]) ELSE up[s]
  <2>1. CASE e.kind = "frame"
    BY <1>1, <1>2, <2>1 DEF Popped, Queues
  <2>2. CASE e.kind # "frame"
    BY <1>1, <2>2 DEF Popped
  <2> QED BY <2>1, <2>2
<1>4. \A s \in Socket : e = Event("frame", s) <=> e.kind = "frame" /\ e.s = s
  BY <1>2 DEF Event
<1> QED BY <1>1, <1>2, <1>3, <1>4

LEMMA ViewIs ==
  ASSUME Sound, NEW w \in Worlds, NEW u \in Queues, NEW v \in Verdicts
  PROVE  /\ View(w, u, v) \in Views
         /\ View(w, u, v).doc = w.doc /\ View(w, u, v).rt = w.rt /\ View(w, u, v).mark = w.mark
         /\ View(w, u, v).down = w.down /\ View(w, u, v).up = u /\ View(w, u, v).ver = v
         /\ View(w, u, v).link = link /\ View(w, u, v).dead = dead
         /\ \A s \in DSocket : Linked(View(w, u, v), s) <=> Reaches(w, s)
PROOF
<1>1. View(w, u, v) = [doc |-> w.doc, rt |-> w.rt, mark |-> w.mark, down |-> w.down, up |-> u, ver |-> v,
                       link |-> link, dead |-> dead]
  BY DEF View
<1>2. link \in [Daemon -> LinkType] /\ dead \subseteq Socket
  BY DEF Sound, LinkType
<1>3. View(w, u, v) \in Views
  BY <1>1, <1>2 DEF Views, Worlds, Queues, Verdicts
<1>4. \A s \in DSocket : Linked(View(w, u, v), s) <=> Reaches(w, s)
  BY <1>1 DEF Linked, On, Reaches
<1> QED BY <1>1, <1>3, <1>4

LEMMA StepsOfViews ==
  ASSUME Sound, NEW w \in Worlds, NEW st \in Steps, NEW u \in Queues, NEW v \in Verdicts
  PROVE  /\ Applied(View(w, u, v), View(ApplyStep(w, st), u, v), st)
         /\ Applied(View(w, u, v), View(Unscheduled(w, st), u, v), st)
         /\ Written(View(w, u, v), View(Put(w, st), u, v), st)
         /\ View(ApplyStep(w, st), u, v) \in Views /\ View(Unscheduled(w, st), u, v) \in Views
         /\ View(Put(w, st), u, v) \in Views
PROOF
<1> DEFINE y == View(w, u, v)
<1>1. ASSUME NEW x \in Worlds, x.doc = st.doc, x.rt = Closed(w, st), x.mark = Marking(w, st) \ Shutting(st),
             x.down = Said(w, st)
      PROVE  Applied(y, View(x, u, v), st) /\ View(x, u, v) \in Views
  <2> DEFINE z == View(x, u, v)
  <2>1. /\ z \in Views /\ z.doc = x.doc /\ z.rt = x.rt /\ z.mark = x.mark /\ z.down = x.down /\ z.up = u /\ z.ver = v
        /\ z.link = link /\ z.dead = dead
    BY <1>1, ViewIs
  <2>2. /\ y.doc = w.doc /\ y.rt = w.rt /\ y.mark = w.mark /\ y.down = w.down /\ y.up = u /\ y.ver = v
        /\ y.link = link /\ y.dead = dead /\ \A s \in DSocket : Linked(y, s) <=> Reaches(w, s)
    BY ViewIs
  <2> HIDE DEF z, y
  <2>3. Closed(y, st) = Closed(w, st) /\ Marking(y, st) = Marking(w, st)
    BY <2>2 DEF Closed, Marking
  <2>4. \A s \in DSocket : Said(w, st)[s] = IF Linked(y, s) THEN y.down[s] \o (Words(st, s) \o Farewell(st, s))
                                            ELSE y.down[s]
    BY <2>2 DEF Said
  <2>5. Applied(y, z, st)
    BY <1>1, <2>1, <2>2, <2>3, <2>4 DEF Applied
  <2> QED BY <2>1, <2>5 DEF z
<1>2. Written(y, View(Put(w, st), u, v), st) /\ View(Put(w, st), u, v) \in Views
  <2> DEFINE x == Put(w, st)
             z == View(x, u, v)
  <2>0. x \in Worlds /\ x.doc = st.doc /\ x.rt = w.rt /\ x.mark = w.mark /\ x.down = w.down
    BY PutIs
  <2> HIDE DEF x
  <2>1. /\ z \in Views /\ z.doc = x.doc /\ z.rt = x.rt /\ z.mark = x.mark /\ z.down = x.down /\ z.up = u /\ z.ver = v
        /\ z.link = link /\ z.dead = dead
    BY <2>0, ViewIs
  <2>2. /\ y.doc = w.doc /\ y.rt = w.rt /\ y.mark = w.mark /\ y.down = w.down /\ y.up = u /\ y.ver = v
        /\ y.link = link /\ y.dead = dead
    BY ViewIs
  <2> HIDE DEF z, y
  <2>3. Written(y, z, st) /\ z \in Views
    BY <2>0, <2>1, <2>2 DEF Written
  <2> QED BY <2>3 DEF z, x, y
<1> HIDE DEF y
<1>3. Applied(y, View(ApplyStep(w, st), u, v), st) /\ View(ApplyStep(w, st), u, v) \in Views
  <2> DEFINE x == ApplyStep(w, st)
  <2>1. x \in Worlds /\ x.doc = st.doc /\ x.rt = Closed(w, st) /\ x.mark = Marking(w, st) \ Shutting(st) /\ x.down = Said(w, st)
    BY ApplyStepIs
  <2> HIDE DEF x
  <2>2. Applied(y, View(x, u, v), st) /\ View(x, u, v) \in Views
    BY <1>1, <2>1
  <2> QED BY <2>2 DEF x
<1>4. Applied(y, View(Unscheduled(w, st), u, v), st) /\ View(Unscheduled(w, st), u, v) \in Views
  <2> DEFINE x == Unscheduled(w, st)
  <2>1. x \in Worlds /\ x.doc = st.doc /\ x.rt = Closed(w, st) /\ x.mark = Marking(w, st) \ Shutting(st) /\ x.down = Said(w, st)
    BY UnscheduledIs
  <2> HIDE DEF x
  <2>2. Applied(y, View(x, u, v), st) /\ View(x, u, v) \in Views
    BY <1>1, <2>1
  <2> QED BY <2>2 DEF x
<1> QED BY <1>2, <1>3, <1>4 DEF y

LEMMA TakenView ==
  ASSUME Sound, NEW w \in Worlds, NEW e \in Events \cup {Event("none", None)}
  PROVE  /\ TakenFrom(View(w, up, verifying), View(w, Popped(e), None), e)
         /\ View(w, up, verifying) \in Views /\ View(w, Popped(e), None) \in Views
PROOF
<1> DEFINE x == View(w, up, verifying)
           y == View(w, Popped(e), None)
<1>1. /\ Popped(e) \in Queues /\ up \in Queues /\ verifying \in Verdicts /\ None \in Verdicts
      /\ e.kind = "frame" => e.s \in Socket /\ up[e.s] # <<>>
      /\ \A s \in Socket : Popped(e)[s] = IF e.kind = "frame" /\ e.s = s THEN Tail(up[s]) ELSE up[s]
  BY PoppedIs
<1>2. /\ x \in Views /\ x.doc = w.doc /\ x.rt = w.rt /\ x.mark = w.mark /\ x.down = w.down /\ x.up = up
      /\ x.link = link /\ x.dead = dead
  BY <1>1, ViewIs
<1>3. /\ y \in Views /\ y.doc = w.doc /\ y.rt = w.rt /\ y.mark = w.mark /\ y.down = w.down /\ y.up = Popped(e)
      /\ y.link = link /\ y.dead = dead /\ y.ver = None
  BY <1>1, ViewIs
<1> HIDE DEF x, y
<1>4. TakenFrom(x, y, e)
  BY <1>1, <1>2, <1>3 DEF TakenFrom
<1> QED BY <1>2, <1>3, <1>4 DEF x, y

LEMMA ReconciledInOrder ==
  ASSUME Sound, Ordered(Now, Gone(Now)), NEW w, OfNow(w), NEW e
  PROVE  Ordered(View(Seen(w, e), up, verifying), Gone(Now))
PROOF
<1>1. View(w, up, verifying) = Now /\ Now \in Views /\ up \in Queues /\ verifying \in Verdicts /\ w \in Worlds
  BY NowIs DEF OfNow, Sound, Queues, Verdicts
<1>2. CASE Seen(w, e) = w
  BY <1>1, <1>2
<1>3. CASE Seen(w, e) = ApplyStep(w, Reconcile(doc)) /\ Reconcile(doc) \in Steps
  <2> DEFINE st == Reconcile(doc)
             z == View(ApplyStep(w, st), up, verifying)
  <2>1. Orderly(Now, st, Gone(Now))
    BY ReconcileIsOrderly
  <2> HIDE DEF st
  <2>2. Applied(Now, z, st) /\ z \in Views /\ st \in Steps
    BY <1>1, <1>3, StepsOfViews DEF st
  <2> HIDE DEF z
  <2>3. Follows(Now, z, st) /\ Arrives(Now, z, st)
    BY <1>1, <2>1, <2>2, AppliedFollows DEF Orderly
  <2>4. Ordered(z, Gone(Now))
    BY <1>1, <2>1, <2>2, <2>3, OrderIsKept
  <2> QED BY <1>3, <2>4 DEF z, st
<1> QED BY <1>2, <1>3, SeenIs

LEMMA SeenInOrder ==
  ASSUME Sound, HoldersAreMarked, SessionsWereTold, Ordered(Now, Gone(Now)), NEW w, OfNow(w),
         NEW e \in Events \cup {Event("none", None)}
  PROVE  LET n == Seen(w, e)
             y == View(n, Popped(e), None)
         IN  /\ n \in Worlds /\ y \in Views /\ y.doc = n.doc
             /\ Ordered(y, Gone(Now)) /\ Fits(y, Gone(Now), e, Head(up[e.s]))
             /\ Reduce(n.doc, e) \in Steps /\ Orderly(y, Reduce(n.doc, e), Gone(Now))
PROOF
<1> DEFINE n == Seen(w, e)
           x == View(n, up, verifying)
           y == View(n, Popped(e), None)
           X == Gone(Now)
<1>1. n \in Worlds /\ Faded(n) /\ MarkedIn(n) /\ Ordered(x, X)
  BY SeenIs, SeenIsCandid, ReconciledInOrder
<1>2. e.kind = "frame" => n.mark \subseteq {n.doc.slot} /\ e.s \notin X
  <2>1. e.kind = "frame" => n.mark \subseteq {n.doc.slot}
    BY Agreed
  <2>2. e.kind = "frame" => rt[e.s] # "gone"
    <3>1. CASE e \in Events
      BY <3>1, EventsAre
    <3>2. CASE e = Event("none", None)
      BY <3>2 DEF Event
    <3> QED BY <3>1, <3>2
  <2> QED BY <2>1, <2>2, NowIs DEF Gone
<1>3. e.kind = "closed" => n.rt[e.s] # "open"
  <2>1. e.kind = "closed" => e.s \in departing
    <3>1. CASE e \in Events
      BY <3>1, EventsAre
    <3>2. CASE e = Event("none", None)
      BY <3>2 DEF Event
    <3> QED BY <3>1, <3>2
  <2> QED BY <1>1, <2>1 DEF Faded, Sound
<1>4. up \in Queues /\ verifying \in Verdicts
  BY DEF Sound, Queues, Verdicts
<1> HIDE DEF n
<1>5. /\ TakenFrom(x, y, e) /\ x \in Views /\ y \in Views
  BY <1>1, TakenView
<1>6. x.up = up /\ x.ver = verifying /\ x.doc = n.doc /\ x.rt = n.rt /\ x.mark = n.mark /\ x.down = n.down /\ x.link = link
  BY <1>1, <1>4, ViewIs
<1> HIDE DEF x, y, X
<1>7. y.doc = n.doc
  BY <1>5, <1>6 DEF TakenFrom
<1>8. Ordered(y, X)
  BY <1>1, <1>5, TakenIsFewer, FewerOrder
<1>9. ASSUME NEW s \in DSocket, x.rt[s] = "open", Claims(x, s) PROVE s \in x.mark
  <2>1. End(x, s).claimed => OnClaim(s)
    BY <1>6 DEF End, On, OnClaim, NoLink
  <2>2. Word("claimed") \in Within(x.down[s]) => Granted(n.down[s])
    <3>1. n.down[s] \in Seq(Frames)
      BY <1>1 DEF Worlds
    <3>2. DOMAIN n.down[s] = 1 .. Len(n.down[s])
      BY <3>1
    <3> QED BY <1>6, <3>2 DEF Within, Granted, Word
  <2> QED BY <1>1, <1>6, <1>9, <2>1, <2>2 DEF MarkedIn, Claims
<1>10. Fits(y, X, e, Head(up[e.s]))
  BY <1>1, <1>2, <1>3, <1>5, <1>6, <1>9, TakenFits
<1>11. Orderly(y, Reduce(n.doc, e), X)
  BY <1>5, <1>7, <1>8, <1>10, ReduceIsOrderly
<1>12. Reduce(n.doc, e) \in Steps
  BY <1>1, ReduceIsSane DEF Sane, Worlds
<1> QED BY <1>1, <1>5, <1>7, <1>8, <1>10, <1>11, <1>12 DEF n, y, X

LEMMA AwaitedInOrder ==
  ASSUME NEW z, NEW y, NEW X, Ordered(z, X), z.ver = None,
         y.doc = z.doc, y.rt = z.rt, y.mark = z.mark, y.down = z.down, y.up = z.up, y.link = z.link, y.dead = z.dead,
         y.ver = None \/ Clear(z, y.ver.sock)
  PROVE  Ordered(y, X)
PROOF
<1>1. \A s : /\ On(y, s) <=> On(z, s)
             /\ End(y, s) = End(z, s) /\ Known(y, s) = Known(z, s)
  BY DEF On, End, Known
<1>2. \A s : /\ Claims(y, s) <=> Claims(z, s)
             /\ Linked(y, s) <=> Linked(z, s)
             /\ Calls(y, s) <=> Calls(z, s)
             /\ Challenged(y, s) <=> Challenged(z, s)
  BY <1>1 DEF Claims, Linked, Calls, Challenged
<1>3. \A s : \A c : Silent(y, s, c) <=> Silent(z, s, c)
  BY DEF Silent
<1>4. \A s : Blank(y, s) <=> Blank(z, s)
  BY <1>1, <1>2, <1>3 DEF Blank
<1>5. QueuesInOrder(y)
  BY <1>1 DEF Ordered, QueuesInOrder, DownInOrder, UpInOrder
<1>6. ClosesAreFair(y)
  BY <1>2 DEF Ordered, ClosesAreFair
<1>7. ClaimComesFirst(y)
  <2> SUFFICES ASSUME NEW s \in DSocket PROVE Apace(y, s) /\ (Early(y, s) => Blank(y, s))
    BY DEF ClaimComesFirst
  <2>1. Apace(z, s) /\ (Early(z, s) => Blank(z, s))
    BY DEF Ordered, ClaimComesFirst
  <2>2. Verified(y, s) => Clear(z, s)
    BY DEF Verified
  <2>3. CASE Verified(y, s)
    BY <1>2, <1>4, <2>2, <2>3 DEF Clear, Early, Apace
  <2>4. CASE ~Verified(y, s)
    BY <1>2, <1>4, <2>1, <2>4 DEF Early, Apace
  <2> QED BY <2>3, <2>4
<1>8. NewcomersAreUnknown(y)
  BY <1>1, <1>3 DEF Ordered, NewcomersAreUnknown, Newcomer, Unknown
<1>9. Bare(y.doc) /\ Unfinished(y) /\ Opened(y, X) /\ SessionsAreKnown(y)
  BY <1>1, <1>2 DEF Ordered, Unfinished, Opened, SessionsAreKnown
<1> QED BY <1>5, <1>6, <1>7, <1>8, <1>9 DEF Ordered

(* Nothing said and nothing closed: the document may change, the queues do not. *)
LEMMA SilenceKeepsClear ==
  ASSUME NEW y \in Views, NEW z \in Views, NEW st \in Steps, Follows(y, z, st), st.sends = {}, st.closes = {},
         st.doc.slot = y.doc.slot, NEW s \in DSocket, Clear(y, s)
  PROVE  Clear(z, s)
PROOF
<1>1. /\ On(z, s) <=> On(y, s)
      /\ End(z, s) = End(y, s) /\ Known(z, s) = Known(y, s) /\ z.up = y.up /\ z.ver = y.ver /\ z.doc = st.doc
  BY SameEnds
<1>2. Speaks(st, s) = {} /\ Goodbyes(st, s) = {}
  BY DEF Speaks, Goodbyes
<1>3. Within(z.down[s]) = Within(y.down[s])
  BY <1>2 DEF Follows, Lengthened
<1>4. s # y.doc.slot /\ s \notin z.mark
  BY DEF Clear, Blank, Follows
<1> QED BY <1>1, <1>3, <1>4 DEF Clear, Blank, Early, Calls, Challenged, Verified, Claims, Silent

LEMMA NowTyped == Sound => Now \in Views
BY NowIs

InOrder == Ordered(Now, Gone(Now))

(* What a handler sees, and what it leaves: the document corrected, the event
   taken off its queue, the transition applied. *)
LEMMA HandledViews ==
  ASSUME Sound, HoldersAreMarked, SessionsWereTold, InOrder, NEW e \in Events, Handle(e)
  PROVE  LET n == Seen(Due(e), e)
             st == Done(Due(e), e)
             y == View(n, Popped(e), None)
             z == View(ApplyStep(n, st), Popped(e), None)
             X == Gone(Now)
             v == verifying'
         IN  /\ n \in Worlds /\ y \in Views /\ y.doc = n.doc /\ Ordered(y, X) /\ Fits(y, X, e, Head(up[e.s]))
             /\ st \in Steps /\ Orderly(y, st, X) /\ st = Reduce(n.doc, e)
             /\ doc' = st.doc /\ rt' = Closed(n, st)
             /\ v = IF IsClaim(n.doc, e) THEN [sock |-> e.s, replaces |-> Head(up[e.s]).replaces] ELSE None
             /\ Applied(y, z, st) /\ z \in Views
             /\ z.doc = doc' /\ z.rt = rt' /\ z.mark = mark' /\ z.down = down' /\ z.up = up' /\ z.ver = None
             /\ z.link = link' /\ z.dead = dead'
PROOF
<1> DEFINE n == Seen(Due(e), e)
           st == Done(Due(e), e)
           y == View(n, Popped(e), None)
           z == View(ApplyStep(n, st), Popped(e), None)
           X == Gone(Now)
           v == verifying'
<1>1. /\ n \in Worlds /\ y \in Views /\ y.doc = n.doc /\ Ordered(y, X) /\ Fits(y, X, e, Head(up[e.s]))
      /\ st \in Steps /\ Orderly(y, st, X)
  <2>1. OfNow(Due(e)) /\ Ordered(Now, Gone(Now))
    BY WorldIs DEF InOrder
  <2> QED BY <2>1, SeenInOrder DEF Done
<1>2. /\ doc' = st.doc /\ rt' = Closed(n, st) /\ mark' = Marking(n, st) \ Shutting(st)
      /\ down' = Said(n, st) /\ told' = Heard(n, st)
  BY HandleIs
<1>3. st = Reduce(n.doc, e)
  BY DEF Done
<1>4. /\ v = IF IsClaim(n.doc, e) THEN [sock |-> e.s, replaces |-> Head(up[e.s]).replaces] ELSE None
      /\ up' = Popped(e) /\ UNCHANGED <<dead, link>>
  <2>1. n.doc = Before(World, e).doc
    <3>1. World \in Worlds /\ Due(e) \in Worlds /\ World.doc = doc /\ Due(e).doc = doc
      BY WorldIs DEF OfNow
    <3>2. CASE Reconciles(e)
      <4>1. Reconcile(doc) \in Steps
        BY ReconcileIsSane DEF Sound
      <4> QED BY <3>1, <3>2, <4>1, ApplyStepIs DEF Before, Seen
    <3>3. CASE ~Reconciles(e)
      BY <3>1, <3>3 DEF Before, Seen
    <3> QED BY <3>2, <3>3
  <2> HIDE DEF n
  <2>2. v = IF IsClaim(n.doc, e) THEN [sock |-> e.s, replaces |-> Head(up[e.s]).replaces] ELSE None
    BY <2>1 DEF Handle
  <2> QED BY <2>2 DEF Handle, Popped
<1> HIDE DEF n, st
<1>5. Popped(e) \in Queues /\ None \in Verdicts /\ up \in Queues
  BY PoppedIs
<1>6. Applied(y, z, st) /\ z \in Views
  BY <1>1, <1>5, StepsOfViews
<1>7. /\ z.doc = doc' /\ z.rt = rt' /\ z.mark = mark' /\ z.down = down' /\ z.up = up' /\ z.ver = None
      /\ z.link = link' /\ z.dead = dead'
  <2> DEFINE x == ApplyStep(n, st)
  <2>1. /\ x \in Worlds /\ x.doc = st.doc /\ x.rt = Closed(n, st) /\ x.mark = Marking(n, st) \ Shutting(st)
        /\ x.down = Said(n, st)
    BY <1>1, ApplyStepIs
  <2> HIDE DEF x
  <2>2. /\ View(x, Popped(e), None).doc = x.doc /\ View(x, Popped(e), None).rt = x.rt
        /\ View(x, Popped(e), None).mark = x.mark /\ View(x, Popped(e), None).down = x.down
        /\ View(x, Popped(e), None).up = Popped(e) /\ View(x, Popped(e), None).ver = None
        /\ View(x, Popped(e), None).link = link /\ View(x, Popped(e), None).dead = dead
    BY <1>5, <2>1, ViewIs
  <2> QED BY <1>2, <1>4, <2>1, <2>2 DEF x
<1> QED BY <1>1, <1>2, <1>3, <1>4, <1>6, <1>7 DEF n, st

LEMMA HandleInOrder ==
  ASSUME Sound, HoldersAreMarked, SessionsWereTold, InOrder, NEW e \in Events, Handle(e)
  PROVE  InOrder'
PROOF
<1> DEFINE n == Seen(Due(e), e)
           st == Done(Due(e), e)
           y == View(n, Popped(e), None)
           z == View(ApplyStep(n, st), Popped(e), None)
           X == Gone(Now)
           v == verifying'
<1>1. /\ n \in Worlds /\ y \in Views /\ y.doc = n.doc /\ Ordered(y, X) /\ Fits(y, X, e, Head(up[e.s]))
      /\ st \in Steps /\ Orderly(y, st, X)
  BY HandledViews
<1>2. rt' = Closed(n, st)
  BY HandledViews
<1>3. st = Reduce(n.doc, e)
  BY HandledViews
<1>4. v = IF IsClaim(n.doc, e) THEN [sock |-> e.s, replaces |-> Head(up[e.s]).replaces] ELSE None
  BY HandledViews
<1>6. Applied(y, z, st) /\ z \in Views
  BY HandledViews
<1>9. /\ z.doc = doc' /\ z.rt = rt' /\ z.mark = mark' /\ z.down = down' /\ z.up = up' /\ z.ver = None
      /\ z.link = link' /\ z.dead = dead'
  BY HandledViews
<1> HIDE DEF n, st
<1>5. up \in Queues
  BY PoppedIs
<1>7. Follows(y, z, st) /\ Arrives(y, z, st)
  BY <1>1, <1>6, AppliedFollows DEF Orderly
<1>8. Ordered(z, X)
  BY <1>1, <1>6, <1>7, OrderIsKept
<1> HIDE DEF v
<1>10. v = None \/ Clear(z, v.sock)
  <2> SUFFICES ASSUME IsClaim(n.doc, e) PROVE Clear(z, v.sock)
    BY <1>4
  <2>1. v.sock = e.s /\ e.s \in DSocket /\ e.kind = "frame" /\ Head(up[e.s]).t = "claim"
    BY <1>1, <1>4 DEF IsClaim, Worlds, Docs
  <2>2. Head(up[e.s]) \in Opening
    <3>1. Head(up[e.s]) \in Frames
      BY <2>1, EventsAre
    <3> QED BY <2>1, <3>1 DEF Frames, Opening, Claim
  <2> DEFINE x == View(n, up, verifying)
  <2>3. TakenFrom(x, y, e) /\ x \in Views
    BY <1>1, TakenView
  <2>4. x.up = up
    BY <1>1, <1>5, ViewIs, PoppedIs
  <2>5. Ordered(x, X)
    BY WorldIs, ReconciledInOrder DEF InOrder, n
  <2> HIDE DEF X, x, y
  <2>6. Clear(y, e.s)
    <3>1. Head(x.up[e.s]) \in Opening
      BY <2>2, <2>4
    <3> QED BY <1>1, <2>1, <2>3, <2>5, <3>1, ClearAfter
  <2>7. st = Step(n.doc, {}, {})
    BY <1>3, <2>1 DEF Reduce
  <2>8. st.sends = {} /\ st.closes = {} /\ st.doc = n.doc
    BY <2>7 DEF Step
  <2>9. Clear(z, e.s)
    BY <1>1, <1>6, <1>7, <2>1, <2>6, <2>8, SilenceKeepsClear
  <2> QED BY <2>1, <2>9
<1>11. Gone(Now') = X
  <2>1. \A c \in CSocket : rt'[c] = "gone" <=> n.rt[c] = "gone"
    BY <1>1, <1>2, Distinct DEF Closed
  <2>2. \A c \in CSocket : n.rt[c] = "gone" <=> rt[c] = "gone"
    <3>1. Faded(n)
      BY HandleIs DEF n
    <3> QED BY <3>1, Distinct DEF Faded
  <2>3. Now'.rt = rt'
    BY DEF Now, View, World
  <2> QED BY <2>1, <2>2, <2>3, NowIs DEF Gone
<1>12. Ordered(Now', X)
  <2> DEFINE m == Now'
  <2>1. /\ m.doc = doc' /\ m.rt = rt' /\ m.mark = mark' /\ m.down = down' /\ m.up = up' /\ m.ver = v
        /\ m.link = link' /\ m.dead = dead'
    BY DEF Now, View, World, v
  <2> HIDE DEF m, z, X
  <2>2. Ordered(m, X)
    BY <1>8, <1>9, <1>10, <2>1, AwaitedInOrder
  <2> QED BY <2>2 DEF m
<1> QED BY <1>11, <1>12 DEF InOrder

LEMMA HalvesInOrder ==
  ASSUME Sound, HoldersAreMarked, SessionsWereTold, InOrder, NEW e \in Events \cup {Event("none", None)},
         NEW w \in Halves(e)
  PROVE  /\ w \in Worlds /\ View(w, Popped(e), None) \in Views
         /\ \E U : /\ Ordered(View(w, Popped(e), None), U)
                  /\ U \subseteq Gone(Now) \cup {c \in CSocket : Arriving(e, c)}
PROOF
<1> DEFINE n == Seen(World, e)
           st == Done(World, e)
           A == {c \in CSocket : Arriving(e, c)}
           X == Gone(Now)
           y == View(n, Popped(e), None)
           z == View(w, Popped(e), None)
<1>1. w \in Worlds /\ OfNow(World) /\ World \in Worlds /\ Ordered(Now, X)
  BY HalvesAre, WorldIs DEF OfNow, InOrder
<1>2. Popped(e) \in Queues /\ None \in Verdicts /\ up \in Queues /\ verifying \in Verdicts
  BY PoppedIs
<1>3. z \in Views
  BY <1>1, <1>2, ViewIs
<1>4. n \in Worlds /\ y \in Views /\ y.doc = n.doc /\ Ordered(y, X) /\ st \in Steps /\ Orderly(y, st, X)
  BY <1>1, SeenInOrder DEF Done
<1>5. st.doc.sessions \ n.doc.sessions \subseteq A
  <2>1. Candid(n.doc, e, st)
    BY <1>4, ReduceIsCandid DEF Done, Worlds
  <2> QED BY <2>1 DEF Candid
<1>6. w \in {World, n, Put(World, Reconcile(doc)), Put(n, st), Unscheduled(n, st)}
  BY DEF Halves, Seen
<1> HIDE DEF X, A, st
<1>7. CASE w = n
  BY <1>1, <1>3, <1>4, <1>7 DEF X
<1>8. CASE w = World
  <2> DEFINE x == View(World, up, verifying)
  <2>1. x = Now
    BY <1>1, NowIs
  <2>2. TakenFrom(x, z, e) /\ x \in Views
    BY <1>1, <1>8, TakenView
  <2> HIDE DEF x, z
  <2>3. Ordered(z, X)
    BY <1>1, <1>3, <2>1, <2>2, TakenIsFewer, FewerOrder
  <2> QED BY <1>1, <1>3, <2>3 DEF z, X
<1>9. CASE w = Put(World, Reconcile(doc))
  <2> DEFINE r == Reconcile(doc)
             x == View(w, up, verifying)
  <2>1. r \in Steps /\ Orderly(Now, r, X) /\ r.doc.sessions \subseteq doc.sessions
    BY <1>1, ReconcileIsOrderly, ReconcileIsSane, ReconcileIsCandid DEF Sound, X
  <2>2. View(World, up, verifying) = Now /\ Now \in Views /\ Now.doc = doc
    BY <1>1, NowIs
  <2> HIDE DEF r
  <2>3. Written(Now, x, r) /\ x \in Views
    BY <1>1, <1>2, <1>9, <2>1, <2>2, StepsOfViews DEF r
  <2>4. TakenFrom(x, z, e)
    BY <1>1, TakenView
  <2> HIDE DEF x, z
  <2>5. Follows(Now, x, r)
    BY <2>1, <2>2, <2>3, WrittenFollows
  <2>6. Ordered(x, X \cup (r.doc.sessions \ doc.sessions))
    BY <1>1, <2>1, <2>2, <2>3, <2>5, OrderIsKept
  <2>7. X \cup (r.doc.sessions \ doc.sessions) = X
    BY <2>1
  <2>8. Ordered(z, X)
    BY <1>3, <2>3, <2>4, <2>6, <2>7, TakenIsFewer, FewerOrder
  <2> QED BY <1>1, <1>3, <2>8 DEF z, X
<1> HIDE DEF n
<1>10. CASE w = Put(n, st)
  <2>1. Written(y, z, st)
    BY <1>2, <1>4, <1>10, StepsOfViews
  <2> HIDE DEF y, z
  <2>2. Follows(y, z, st)
    BY <1>3, <1>4, <2>1, WrittenFollows
  <2>3. Ordered(z, X \cup (st.doc.sessions \ n.doc.sessions))
    BY <1>3, <1>4, <2>2, OrderIsKept
  <2>4. X \cup (st.doc.sessions \ n.doc.sessions) \subseteq X \cup A
    BY <1>5
  <2> QED BY <1>1, <1>3, <2>3, <2>4 DEF z, X, A
<1>11. CASE w = Unscheduled(n, st)
  <2>1. Applied(y, z, st)
    BY <1>2, <1>4, <1>11, StepsOfViews
  <2> HIDE DEF y, z
  <2>2. Follows(y, z, st) /\ Arrives(y, z, st)
    BY <1>3, <1>4, <2>1, AppliedFollows DEF Orderly
  <2>3. Ordered(z, X)
    BY <1>3, <1>4, <2>2, OrderIsKept
  <2> QED BY <1>1, <1>3, <2>3 DEF z, X
<1> QED BY <1>6, <1>7, <1>8, <1>9, <1>10, <1>11

LEMMA ResetInOrder ==
  ASSUME Sound, HoldersAreMarked, SessionsWereTold, InOrder, Reset
  PROVE  InOrder'
PROOF
<1>1. PICK e \in Events \cup {Event("none", None)} : \E w \in Halves(e) :
        /\ Becomes(CutOff(w, e)) /\ dead' = dead \cup Cut(e) /\ Cut(e) \subseteq Socket
        /\ up' = [s \in Socket |-> IF s \in Cut(e) THEN <<>>
                                   ELSE IF e = Event("frame", s) THEN Tail(up[s]) ELSE up[s]]
        /\ verifying' = None /\ UNCHANGED link
  BY ResetIs
<1>2. PICK w \in Halves(e) :
        /\ Becomes(CutOff(w, e)) /\ dead' = dead \cup Cut(e) /\ Cut(e) \subseteq Socket
        /\ up' = [s \in Socket |-> IF s \in Cut(e) THEN <<>>
                                   ELSE IF e = Event("frame", s) THEN Tail(up[s]) ELSE up[s]]
        /\ verifying' = None /\ UNCHANGED link
  BY <1>1
<1> DEFINE z == View(w, Popped(e), None)
           m == Now'
<1>3. w \in Worlds /\ z \in Views
  BY HalvesInOrder
<1>4. PICK U : Ordered(z, U) /\ U \subseteq Gone(Now) \cup {c \in CSocket : Arriving(e, c)}
  BY HalvesInOrder
<1>5. CutOff(w, e) = [w EXCEPT !.rt = [s \in Socket |-> IF s \in Cut(e) THEN "gone" ELSE w.rt[s]],
                               !.mark = w.mark \ Cut(e)]
  BY <1>3 DEF CutOff, Worlds
<1>6. /\ doc' = w.doc /\ rt' = [s \in Socket |-> IF s \in Cut(e) THEN "gone" ELSE w.rt[s]]
      /\ mark' = w.mark \ Cut(e) /\ down' = w.down
  BY <1>2, <1>3, <1>5 DEF Becomes, Worlds
<1>7. /\ m.doc = doc' /\ m.rt = rt' /\ m.mark = mark' /\ m.down = down' /\ m.up = up' /\ m.ver = verifying'
      /\ m.link = link' /\ m.dead = dead'
  BY DEF Now, View, World
<1>8. /\ Popped(e) \in Queues /\ None \in Verdicts
      /\ \A s \in Socket : Popped(e)[s] = IF e.kind = "frame" /\ e.s = s THEN Tail(up[s]) ELSE up[s]
      /\ \A s \in Socket : e = Event("frame", s) <=> e.kind = "frame" /\ e.s = s
  BY PoppedIs
<1>9. /\ z.doc = w.doc /\ z.rt = w.rt /\ z.mark = w.mark /\ z.down = w.down /\ z.up = Popped(e) /\ z.ver = None
      /\ z.link = link /\ z.dead = dead
  BY <1>3, <1>8, ViewIs
<1>10. m \in Views
  <2>1. Sound'
    BY ResetSound
  <2>2. (Sound => Now \in Views)'
    BY NowTyped, PTL
  <2> QED BY <2>1, <2>2
<1> HIDE DEF z, m
<1>11. \A s \in Socket : m.up[s] \in {z.up[s], <<>>}
  <2> SUFFICES ASSUME NEW s \in Socket PROVE m.up[s] \in {z.up[s], <<>>}
    OBVIOUS
  <2>1. m.up[s] = IF s \in Cut(e) THEN <<>> ELSE IF e = Event("frame", s) THEN Tail(up[s]) ELSE up[s]
    BY <1>2, <1>7
  <2>2. z.up[s] = IF e = Event("frame", s) THEN Tail(up[s]) ELSE up[s]
    <3>1. z.up[s] = IF e.kind = "frame" /\ e.s = s THEN Tail(up[s]) ELSE up[s]
      BY <1>8, <1>9
    <3>2. e = Event("frame", s) <=> e.kind = "frame" /\ e.s = s
      BY <1>8
    <3>3. CASE e = Event("frame", s)
      BY <3>1, <3>2, <3>3
    <3>4. CASE e # Event("frame", s)
      BY <3>1, <3>2, <3>4
    <3> QED BY <3>3, <3>4
  <2> QED BY <2>1, <2>2
<1>12. Fewer(z, m)
  BY <1>2, <1>6, <1>7, <1>9, <1>11 DEF Fewer
<1>13. U \subseteq Gone(m)
  <2>1. \A c \in CSocket : Arriving(e, c) => c \in Cut(e)
    BY DEF Arriving, Cut
  <2>2. \A c \in CSocket : rt[c] = "gone" => w.rt[c] = "gone"
    <3>1. Faded(w)
      BY HalvesAre
    <3> QED BY <3>1, Distinct DEF Faded
  <2>3. Now.rt = rt
    BY NowIs
  <2> QED BY <1>4, <1>6, <1>7, <2>1, <2>2, <2>3, Distinct DEF Gone
<1>14. Ordered(m, Gone(m))
  BY <1>3, <1>4, <1>10, <1>12, <1>13, FewerOrder
<1> QED BY <1>14 DEF InOrder, m

-----------------------------------------------------------------------------
(* And every other step: less on its way, or one end of one socket. *)

Accord == Agreeing(Now, {})

LEMMA NextView ==
  ASSUME Sound'
  PROVE  /\ Now' \in Views /\ Now'.doc = doc' /\ Now'.rt = rt' /\ Now'.mark = mark' /\ Now'.down = down'
         /\ Now'.up = up' /\ Now'.ver = verifying' /\ Now'.link = link' /\ Now'.dead = dead'
PROOF
<1>1. (Sound => Now \in Views)'
  BY NowTyped, PTL
<1> QED BY <1>1 DEF Now, View, World

LEMMA FewerNext ==
  ASSUME Sound, Sound', InOrder, Fewer(Now, Now'), \A c \in CSocket : rt[c] = "gone" => rt'[c] = "gone"
  PROVE  /\ InOrder'
         /\ /\ Accord /\ UNCHANGED doc
            /\ doc.slot # None /\ Linked(Now', doc.slot) => up'[doc.slot] = up[doc.slot]
            => Accord'
PROOF
<1> DEFINE y == Now
           z == Now'
<1>1. y \in Views /\ z \in Views /\ y.doc = doc /\ z.doc = doc' /\ y.rt = rt /\ z.rt = rt' /\ y.up = up /\ z.up = up'
  BY NowIs, NextView
<1>2. Gone(y) \subseteq Gone(z)
  BY <1>1 DEF Gone
<1>3. Ordered(y, Gone(y))
  BY DEF InOrder
<1>4. Fewer(y, z)
  OBVIOUS
<1>5. ASSUME Agreeing(y, {}), doc' = doc, doc.slot # None /\ Linked(z, doc.slot) => up'[doc.slot] = up[doc.slot]
      PROVE  Agreeing(z, {})
  <2> HIDE DEF y, z
  <2> QED BY <1>1, <1>4, <1>5, FewerAgreement
<1>6. Ordered(z, Gone(z))
  <2> HIDE DEF y, z
  <2> QED BY <1>1, <1>2, <1>3, <1>4, FewerOrder
<1>7. InOrder'
  BY <1>6 DEF InOrder
<1> QED BY <1>5, <1>7 DEF Accord

LEMMA RuntimeInOrder ==
  ASSUME Sound, Sound', InOrder, NEW s \in Socket, Departed(s) \/ Delist(s) \/ Silence(s)
  PROVE  InOrder' /\ (Accord => Accord')
PROOF
<1> DEFINE y == Now
           z == Now'
<1>1. /\ y.doc = doc /\ y.rt = rt /\ y.mark = mark /\ y.down = down /\ y.up = up /\ y.ver = verifying
      /\ y.link = link /\ y.dead = dead
  BY NowIs
<1>2. /\ z.doc = doc' /\ z.rt = rt' /\ z.mark = mark' /\ z.down = down' /\ z.up = up' /\ z.ver = verifying'
      /\ z.link = link' /\ z.dead = dead'
  BY NextView
<1>3. /\ rt \in [Socket -> Runtime] /\ up \in [Socket -> Seq(Frames)] /\ down \in [DSocket -> Seq(Frames)]
      /\ doc.slot # None => doc.slot \in Socket
  BY Distinct DEF Sound, Docs
<1> HIDE DEF y, z
<1>4. CASE Departed(s)
  <2>1. /\ rt' = [rt EXCEPT ![s] = "reported"] /\ mark' = mark \ {s}
        /\ UNCHANGED <<doc, verifying, up, down, dead, link>>
    BY <1>4 DEF Departed, wire, ends
  <2>2. Fewer(y, z)
    BY <1>1, <1>2, <1>3, <2>1 DEF Fewer
  <2>3. \A c \in CSocket : rt[c] = "gone" => rt'[c] = "gone"
    BY <1>3, <1>4, <2>1, Distinct DEF Departed
  <2> QED BY <2>1, <2>2, <2>3, FewerNext DEF y, z
<1>5. CASE Delist(s)
  <2>1. /\ rt' = [rt EXCEPT ![s] = "gone"] /\ mark' = mark \ {s} /\ up' = [up EXCEPT ![s] = <<>>]
        /\ UNCHANGED <<doc, verifying, down, dead, link>>
    BY <1>5 DEF Delist, ends
  <2>2. Fewer(y, z)
    BY <1>1, <1>2, <1>3, <2>1 DEF Fewer
  <2>3. \A c \in CSocket : rt[c] = "gone" => rt'[c] = "gone"
    BY <1>3, <2>1, Distinct
  <2>4. doc.slot # None /\ Linked(z, doc.slot) => up'[doc.slot] = up[doc.slot]
    BY <1>2, <1>3, <2>1 DEF Linked
  <2> QED BY <2>1, <2>2, <2>3, <2>4, FewerNext DEF y, z
<1>6. CASE Silence(s)
  <2>1. /\ dead' = dead \cup {s} /\ up' = [up EXCEPT ![s] = <<>>]
        /\ down' = (IF s \in DSocket THEN [down EXCEPT ![s] = <<>>] ELSE down)
        /\ UNCHANGED <<doc, rt, mark, verifying, link>>
    BY <1>6 DEF Silence, relay, ends
  <2>2. \A x \in DSocket : down'[x] = down[x] \/ (x = s /\ down'[x] = <<>>)
    <3>1. CASE s \in DSocket
      BY <1>3, <2>1, <3>1
    <3>2. CASE s \notin DSocket
      BY <2>1, <3>2
    <3> QED BY <3>1, <3>2
  <2>3. ~Linked(z, s)
    BY <1>2, <2>1 DEF Linked
  <2>4. Fewer(y, z)
    BY <1>1, <1>2, <1>3, <2>1, <2>2, <2>3 DEF Fewer
  <2>5. \A c \in CSocket : rt[c] = "gone" => rt'[c] = "gone"
    BY <2>1
  <2>6. doc.slot # None /\ Linked(z, doc.slot) => up'[doc.slot] = up[doc.slot]
    BY <1>2, <1>3, <2>1, <2>3
  <2> QED BY <2>1, <2>4, <2>5, <2>6, FewerNext DEF y, z
<1> QED BY <1>4, <1>5, <1>6

LEMMA ForgetInOrder ==
  ASSUME Sound, Sound', InOrder, Forget
  PROVE  InOrder'
PROOF
<1>1. doc' = EmptyDoc /\ UNCHANGED <<rt, mark, verifying, up, down, dead, link>>
  BY DEF Forget, wire, ends
<1>2. Fewer(Now, Now')
  <2> DEFINE y == Now
             z == Now'
  <2>1. /\ y.doc = doc /\ y.rt = rt /\ y.mark = mark /\ y.down = down /\ y.up = up /\ y.ver = verifying
        /\ y.link = link /\ y.dead = dead
    BY NowIs
  <2>2. /\ z.doc = doc' /\ z.rt = rt' /\ z.mark = mark' /\ z.down = down' /\ z.up = up' /\ z.ver = verifying'
        /\ z.link = link' /\ z.dead = dead'
    BY NextView
  <2> HIDE DEF y, z
  <2>3. Fewer(y, z)
    BY <1>1, <2>1, <2>2 DEF Fewer
  <2> QED BY <2>3 DEF y, z
<1> QED BY <1>1, <1>2, FewerNext

(* Nothing that a view shows has changed. *)
LEMMA SameInOrder ==
  ASSUME Sound, InOrder, UNCHANGED <<doc, rt, mark, verifying, up, down, dead, link>>
  PROVE  InOrder' /\ (Accord => Accord')
PROOF
<1>1. Now' = Now
  BY DEF Now, View, World
<1> QED BY <1>1 DEF InOrder, Accord

(* A daemon's end is over, with what was on its way to it. *)
LEMMA EndIsOver ==
  ASSUME Sound, Sound', TokensAreSpent, InOrder, NEW d \in Daemon, link[d].sock # None,
         link' = [link EXCEPT ![d] = NoLink], down' = [down EXCEPT ![link[d].sock] = <<>>],
         UNCHANGED <<doc, rt, mark, verifying, up, dead>>
  PROVE  InOrder' /\ (Accord => Accord')
PROOF
<1> DEFINE y == Now
           z == Now'
           s == link[d].sock
<1>1. /\ y.doc = doc /\ y.rt = rt /\ y.mark = mark /\ y.down = down /\ y.up = up /\ y.ver = verifying
      /\ y.link = link /\ y.dead = dead
  BY NowIs
<1>2. /\ z.doc = doc' /\ z.rt = rt' /\ z.mark = mark' /\ z.down = down' /\ z.up = up' /\ z.ver = verifying'
      /\ z.link = link' /\ z.dead = dead'
  BY NextView
<1>3. /\ s \in DSocket /\ Owner[s] = d /\ down \in [DSocket -> Seq(Frames)] /\ link \in [Daemon -> LinkType]
      /\ \A x \in DSocket : x # None /\ Owner[x] \in Daemon
  <2>1. link \in [Daemon -> LinkType] /\ link[d] \in LinkType
    BY LinkTypes
  <2>2. s \in DSocket
    BY <2>1 DEF LinkType
  <2>3. Owner[s] = d
    BY DEF TokensAreSpent
  <2>4. down \in [DSocket -> Seq(Frames)]
    BY DEF Sound
  <2>5. \A x \in DSocket : x # None /\ Owner[x] \in Daemon
    BY RendezvousAssumption, Distinct
  <2> QED BY <2>1, <2>2, <2>3, <2>4, <2>5
<1>4. \A x \in DSocket : down[x] # <<>> => link[Owner[x]].sock = x
  BY <1>1 DEF InOrder, Ordered, QueuesInOrder, DownInOrder, On
<1> HIDE DEF y, z
<1>5. ASSUME NEW x \in DSocket
      PROVE  \/ z.down[x] = y.down[x] /\ z.link[Owner[x]] = y.link[Owner[x]]
             \/ z.down[x] = <<>> /\ ~Linked(z, x)
  <2>1. CASE Owner[x] # d
    BY <1>1, <1>2, <1>3, <2>1
  <2>2. CASE Owner[x] = d
    <3>1. z.link[Owner[x]] = NoLink /\ ~Linked(z, x)
      BY <1>2, <1>3, <2>2 DEF Linked, On, NoLink
    <3>2. z.down[x] = <<>>
      BY <1>2, <1>3, <1>4, <2>2
    <3> QED BY <3>1, <3>2
  <2> QED BY <2>1, <2>2
<1>6. \A x \in Daemon : z.link[x] \in {y.link[x], NoLink}
  BY <1>1, <1>2, <1>3
<1>7. Fewer(y, z)
  BY <1>1, <1>2, <1>5, <1>6 DEF Fewer
<1> QED BY <1>7, FewerNext DEF y, z

LEMMA AbandonInOrder ==
  ASSUME Sound, Sound', TokensAreSpent, InOrder, NEW d \in Daemon, Abandon(d)
  PROVE  InOrder' /\ (Accord => Accord')
BY EndIsOver DEF Abandon, Ended, relay

-----------------------------------------------------------------------------
(* One end of one socket moves, the rest stays. *)

Elsewhere(y, z, s) ==
  /\ z.doc = y.doc /\ z.rt = y.rt /\ z.mark = y.mark /\ z.ver = y.ver /\ z.dead = y.dead
  /\ \A x \in Socket : x # s => z.up[x] = y.up[x]
  /\ \A x \in DSocket : x # s => z.down[x] = y.down[x] /\ End(z, x) = End(y, x)
  /\ \A x \in DSocket : On(z, x) <=> On(y, x)
Runs(y, s, c) == c \in End(y, s).sess \/ Begin(c) \in Within(y.down[s])
Expects(y, s, c) == c \in Known(y, s) \/ Begin(c) \in Within(y.down[s])
Moves(y, z, s) ==
  /\ DownInOrder(z, s) /\ UpInOrder(z, s) /\ Apace(z, s) /\ (Early(z, s) => Blank(z, s))
  /\ Claims(z, s) => Claims(y, s)
  /\ Within(z.down[s]) \subseteq Within(y.down[s])
  /\ \A c \in CSocket :
       /\ Silent(y, s, c) /\ c \notin Known(y, s) => Silent(z, s, c) /\ c \notin Known(z, s)
       /\ Expects(y, s, c) /\ c \in y.doc.sessions => Expects(z, s, c)
       /\ Runs(z, s, c) => Runs(y, s, c)
       /\ Of(c) \cap Within(z.up[s]) # {} => Runs(y, s, c) \/ Of(c) \cap Within(y.up[s]) # {}
Echoes(y, z, s) ==
  \A c \in CSocket :
    /\ Runs(z, s, c) /\ Finish(c) \in Within(y.down[s]) => Finish(c) \in Within(z.down[s])
    /\ c \in y.doc.sessions /\ c \in End(z, s).over =>
         Finish(c) \in Within(z.up[s]) \/ (c \in End(y, s).over /\ Finish(c) \notin Within(y.up[s]))

LEMMA OneEnd ==
  ASSUME NEW y \in Views, NEW z \in Views, NEW X, Ordered(y, X), NEW s \in DSocket, Elsewhere(y, z, s), Moves(y, z, s)
  PROVE  Ordered(z, X)
PROOF
<1>1. \A x \in DSocket : x \in Socket /\ x # None
  BY Distinct
<1>2. \A c \in CSocket : c \in Socket /\ c # s
  BY Distinct
<1>3. ASSUME NEW x \in DSocket, x # s
      PROVE  /\ z.down[x] = y.down[x] /\ z.up[x] = y.up[x] /\ End(z, x) = End(y, x) /\ (On(z, x) <=> On(y, x))
             /\ Known(z, x) = Known(y, x) /\ (Claims(z, x) <=> Claims(y, x))
             /\ \A c \in CSocket : Silent(z, x, c) <=> Silent(y, x, c)
  BY <1>1, <1>3 DEF Elsewhere, Known, Claims, Silent
<1>4. z.doc = y.doc /\ z.rt = y.rt /\ z.mark = y.mark /\ z.ver = y.ver /\ z.dead = y.dead
  BY DEF Elsewhere
<1>5. QueuesInOrder(z)
  <2> SUFFICES ASSUME NEW x \in DSocket, x # s
               PROVE  DownInOrder(z, x) /\ UpInOrder(z, x)
    BY DEF QueuesInOrder, Moves
  <2>1. DownInOrder(y, x) /\ UpInOrder(y, x)
    BY DEF Ordered, QueuesInOrder
  <2>2. DownInOrder(z, x)
    BY <1>3, <2>1 DEF DownInOrder
  <2>3. UpInOrder(z, x)
    BY <1>3, <2>1 DEF UpInOrder
  <2> QED BY <2>2, <2>3
<1>6. ClosesAreFair(z)
  <2> SUFFICES ASSUME NEW x \in DSocket
               PROVE  /\ Within(z.down[x]) \cap Farewells # {} => z.rt[x] # "open"
                      /\ Claims(z, x) => CloseFrame("protocolError") \notin Within(z.down[x])
    BY DEF ClosesAreFair
  <2>1. /\ Within(y.down[x]) \cap Farewells # {} => y.rt[x] # "open"
        /\ Claims(y, x) => CloseFrame("protocolError") \notin Within(y.down[x])
    BY DEF Ordered, ClosesAreFair
  <2>2. Within(z.down[x]) \subseteq Within(y.down[x]) /\ (Claims(z, x) => Claims(y, x))
    BY <1>3 DEF Moves
  <2> QED BY <1>4, <2>1, <2>2
<1>7. ClaimComesFirst(z)
  <2> SUFFICES ASSUME NEW x \in DSocket, x # s
               PROVE  Apace(z, x) /\ (Early(z, x) => Blank(z, x))
    BY DEF ClaimComesFirst, Moves
  <2>1. Apace(y, x) /\ (Early(y, x) => Blank(y, x))
    BY DEF Ordered, ClaimComesFirst
  <2>2. (Calls(z, x) <=> Calls(y, x)) /\ (Challenged(z, x) <=> Challenged(y, x)) /\ (Verified(z, x) <=> Verified(y, x))
    BY <1>3, <1>4 DEF Calls, Challenged, Verified
  <2>3. Blank(y, x) => Blank(z, x)
    BY <1>3, <1>4 DEF Blank
  <2> QED BY <2>1, <2>2, <2>3 DEF Apace, Early
<1>8. NewcomersAreUnknown(z)
  <2> SUFFICES ASSUME NEW c \in CSocket
               PROVE  /\ Apart(z.up[c], {Word("arrive")}, {Word("arrive")})
                      /\ Newcomer(z, c) => Unknown(z, c)
    BY DEF NewcomersAreUnknown
  <2>1. z.up[c] = y.up[c]
    BY <1>2 DEF Elsewhere
  <2>2. /\ Apart(y.up[c], {Word("arrive")}, {Word("arrive")})
        /\ Newcomer(y, c) => Unknown(y, c)
    BY DEF Ordered, NewcomersAreUnknown
  <2>3. ASSUME Unknown(y, c), NEW x \in DSocket
        PROVE  Silent(z, x, c) /\ c \notin Known(z, x)
    BY <1>3, <2>3 DEF Unknown, Moves
  <2>4. Unknown(y, c) => Unknown(z, c)
    BY <1>4, <2>3 DEF Unknown
  <2> QED BY <2>1, <2>2, <2>4 DEF Newcomer
<1>9. Bare(z.doc)
  BY <1>4 DEF Ordered
<1>10. Unfinished(z)
  <2> SUFFICES ASSUME NEW c \in y.doc.sessions, NEW x \in DSocket
               PROVE  Finish(c) \notin Within(z.down[x])
    BY <1>4 DEF Unfinished
  <2>1. Finish(c) \notin Within(y.down[x])
    BY DEF Ordered, Unfinished
  <2> QED BY <1>3, <2>1 DEF Moves
<1>11. y.doc.slot # None => y.doc.slot \in DSocket
  BY DEF Views, Docs
<1>12. y.doc.sessions \subseteq CSocket
  BY DEF Views, Docs
<1>13. Opened(z, X)
  <2> SUFFICES ASSUME y.doc.slot # None, Linked(z, y.doc.slot), NEW c \in y.doc.sessions \ X
               PROVE  Expects(z, y.doc.slot, c)
    BY <1>4 DEF Opened, Expects
  <2>1. Linked(y, y.doc.slot)
    BY <1>4, <1>11 DEF Linked, Elsewhere
  <2>2. Expects(y, y.doc.slot, c)
    BY <2>1 DEF Ordered, Opened, Expects
  <2>3. CASE y.doc.slot = s
    BY <1>12, <2>2, <2>3 DEF Moves
  <2>4. CASE y.doc.slot # s
    BY <1>3, <1>11, <2>2, <2>4 DEF Expects
  <2> QED BY <2>3, <2>4
<1>14. SessionsAreKnown(z)
  <2> SUFFICES ASSUME y.doc.slot # None, ~y.doc.restored, NEW c \in CSocket,
                      Runs(z, y.doc.slot, c) \/ Of(c) \cap Within(z.up[y.doc.slot]) # {}
               PROVE  c \in y.doc.sessions \cup y.doc.ended
    BY <1>4 DEF SessionsAreKnown, Runs
  <2>1. Runs(y, y.doc.slot, c) \/ Of(c) \cap Within(y.up[y.doc.slot]) # {}
    <3>1. CASE y.doc.slot = s
      BY <3>1 DEF Moves
    <3>2. CASE y.doc.slot # s
      BY <1>3, <1>11, <3>2 DEF Runs
    <3> QED BY <3>1, <3>2
  <2> QED BY <2>1 DEF Ordered, SessionsAreKnown, Runs
<1> QED BY <1>5, <1>6, <1>7, <1>8, <1>9, <1>10, <1>13, <1>14, <1>4 DEF Ordered

LEMMA OneEndAgrees ==
  ASSUME NEW y \in Views, NEW z \in Views, NEW s \in DSocket, Elsewhere(y, z, s), Moves(y, z, s), Echoes(y, z, s),
         Agreeing(y, {})
  PROVE  Agreeing(z, {})
PROOF
<1>1. z.doc = y.doc /\ z.rt = y.rt /\ z.mark = y.mark /\ z.dead = y.dead
  BY DEF Elsewhere
<1>2. MarkIsSlots(z)
  BY <1>1 DEF Agreeing, MarkIsSlots
<1> SUFFICES ASSUME y.doc.slot # None, Linked(z, y.doc.slot)
             PROVE  Opened(z, {}) /\ Answered(z) /\ Echoed(z, {})
  BY <1>1, <1>2 DEF Agreeing, Opened, Answered, Echoed
<1> DEFINE x == y.doc.slot
<1>3. x \in DSocket /\ x \in Socket /\ y.doc.sessions \subseteq CSocket
  BY Distinct DEF Views, Docs
<1>4. Linked(y, x)
  BY <1>1, <1>3 DEF Linked, Elsewhere
<1>5. \A c \in y.doc.sessions : Expects(y, x, c)
  BY <1>4 DEF Agreeing, Opened, Expects
<1>6. \A c \in CSocket : Runs(y, x, c) => c \in y.doc.sessions \/ Finish(c) \in Within(y.down[x])
  BY <1>4 DEF Agreeing, Answered, Runs
<1>7. \A c \in y.doc.sessions : c \in End(y, x).over => Finish(c) \in Within(y.up[x])
  BY <1>4 DEF Agreeing, Echoed
<1> HIDE DEF x
<1>8. CASE x = s
  <2>1. \A c \in y.doc.sessions : Expects(z, x, c)
    BY <1>3, <1>5, <1>8 DEF Moves
  <2>2. \A c \in CSocket : Runs(z, x, c) => c \in y.doc.sessions \/ Finish(c) \in Within(z.down[x])
    BY <1>6, <1>8 DEF Moves, Echoes
  <2>3. \A c \in y.doc.sessions : c \in End(z, x).over => Finish(c) \in Within(z.up[x])
    BY <1>3, <1>7, <1>8 DEF Echoes
  <2> QED BY <1>1, <2>1, <2>2, <2>3 DEF x, Opened, Answered, Echoed, Expects, Runs
<1>9. CASE x # s
  <2>1. z.down[x] = y.down[x] /\ z.up[x] = y.up[x] /\ End(z, x) = End(y, x)
    BY <1>3, <1>9 DEF Elsewhere
  <2> QED BY <1>1, <1>5, <1>6, <1>7, <2>1 DEF x, Opened, Answered, Echoed, Expects, Runs, Known
<1> QED BY <1>8, <1>9

-----------------------------------------------------------------------------
(* What a daemon says: data or the end of a session it runs, or a probe. *)

LEMMA SaidMoves ==
  ASSUME NEW y \in Views, NEW z \in Views, NEW X, Ordered(y, X), NEW s \in DSocket, Elsewhere(y, z, s),
         z.down[s] = y.down[s], NEW m \in Upward \ Opening, m \in Frames, z.up[s] = Append(y.up[s], m), ~Early(y, s),
         End(z, s).claimed = End(y, s).claimed, End(z, s).sess \subseteq End(y, s).sess, Known(z, s) = Known(y, s),
         \A c \in CSocket : /\ m \in Of(c) => c \in End(y, s).sess
                            /\ m = Finish(c) => c \notin End(z, s).sess
                            /\ c \in End(z, s).over => c \in End(y, s).over \/ m = Finish(c)
  PROVE  Moves(y, z, s) /\ Echoes(y, z, s)
PROOF
<1>1. y.up[s] \in Seq(Frames) /\ DownInOrder(y, s) /\ UpInOrder(y, s)
  BY Distinct DEF Views, Ordered, QueuesInOrder
<1>2. /\ Within(z.up[s]) = Within(y.up[s]) \cup {m}
      /\ \A A, B : Apart(y.up[s], A, B) /\ (m \in B => A \cap Within(y.up[s]) = {}) => Apart(z.up[s], A, B)
  BY <1>1, QueueAppend
<1>3. Claims(z, s) <=> Claims(y, s)
  BY DEF Claims
<1>4. ~Early(z, s)
  BY <1>2 DEF Early, Calls, Challenged, Verified, Elsewhere
<1>5. On(z, s) <=> On(y, s)
  BY DEF Elsewhere
<1>6. End(y, s).sess \subseteq Known(y, s)
  BY DEF Known
<1>7. DownInOrder(z, s)
  <2> SUFFICES ASSUME NEW c \in CSocket, Begin(c) \in Within(y.down[s])
               PROVE  Of(c) \cap Within(z.up[s]) = {}
    BY <1>1, <1>5 DEF DownInOrder
  <2>1. c \notin Known(y, s) /\ Of(c) \cap Within(y.up[s]) = {}
    BY <1>1 DEF DownInOrder
  <2> QED BY <1>2, <1>6, <2>1
<1>8. UpInOrder(z, s)
  <2>1. Within(z.up[s]) \subseteq Upward
    BY <1>1, <1>2 DEF UpInOrder
  <2>2. Apart(z.up[s], Opening, Opening)
    BY <1>1, <1>2 DEF UpInOrder
  <2>3. ASSUME NEW c \in CSocket
        PROVE  /\ Apart(z.up[s], {Finish(c)}, Of(c))
               /\ Finish(c) \in Within(z.up[s]) => c \notin End(z, s).sess
    <3>1. Apart(y.up[s], {Finish(c)}, Of(c)) /\ (Finish(c) \in Within(y.up[s]) => c \notin End(y, s).sess)
      BY <1>1 DEF UpInOrder
    <3>2. m \in Of(c) => {Finish(c)} \cap Within(y.up[s]) = {}
      BY <3>1
    <3>3. Apart(z.up[s], {Finish(c)}, Of(c))
      BY <1>2, <3>1, <3>2
    <3> QED BY <1>2, <3>1, <3>3
  <2> QED BY <2>1, <2>2, <2>3 DEF UpInOrder
<1>9. ASSUME NEW c \in CSocket
      PROVE  /\ Silent(y, s, c) /\ c \notin Known(y, s) => Silent(z, s, c) /\ c \notin Known(z, s)
             /\ Expects(y, s, c) /\ c \in y.doc.sessions => Expects(z, s, c)
             /\ Runs(z, s, c) => Runs(y, s, c)
             /\ Of(c) \cap Within(z.up[s]) # {} => Runs(y, s, c) \/ Of(c) \cap Within(y.up[s]) # {}
  <2>1. m \in Of(c) => c \in End(y, s).sess
    OBVIOUS
  <2>2. Silent(y, s, c) /\ c \notin Known(y, s) => Silent(z, s, c) /\ c \notin Known(z, s)
    BY <1>2, <1>6, <2>1 DEF Silent
  <2>3. Expects(y, s, c) => Expects(z, s, c)
    BY DEF Expects
  <2>4. Runs(z, s, c) => Runs(y, s, c)
    BY DEF Runs
  <2>5. Of(c) \cap Within(z.up[s]) # {} => Runs(y, s, c) \/ Of(c) \cap Within(y.up[s]) # {}
    BY <1>2, <2>1 DEF Runs
  <2> QED BY <2>2, <2>3, <2>4, <2>5
<1>10. Moves(y, z, s)
  BY <1>3, <1>4, <1>7, <1>8, <1>9 DEF Moves, Early, Apace
<1>11. Echoes(y, z, s)
  BY <1>2 DEF Echoes
<1> QED BY <1>10, <1>11

(* What a daemon hears: of a session, of its claim, or nothing to act on. *)
LEMMA HeardMoves ==
  ASSUME NEW y \in Views, NEW z \in Views, NEW X, Ordered(y, X), NEW s \in DSocket, Elsewhere(y, z, s),
         y.down[s] # <<>>, z.down[s] = Tail(y.down[s]), z.up[s] = y.up[s], NEW m, m = Head(y.down[s]),
         End(z, s).claimed => End(y, s).claimed \/ m = Word("claimed"),
         \A c \in CSocket :
           /\ m = Begin(c) => c \in End(z, s).sess /\ c \notin End(z, s).over
           /\ m = Finish(c) => c \notin End(z, s).sess /\ (c \in End(z, s).over => c \in End(y, s).over)
           /\ m \notin {Begin(c), Finish(c)} =>
                (c \in End(z, s).sess <=> c \in End(y, s).sess) /\ (c \in End(z, s).over <=> c \in End(y, s).over)
  PROVE  Moves(y, z, s) /\ Echoes(y, z, s)
PROOF
<1>1. y.down[s] \in Seq(Frames) /\ DownInOrder(y, s) /\ UpInOrder(y, s)
  BY DEF Views, Ordered, QueuesInOrder
<1>2. /\ Within(y.down[s]) = {m} \cup Within(z.down[s])
      /\ \A A, B : Apart(y.down[s], A, B) => /\ Apart(z.down[s], A, B)
                                             /\ m \in A => B \cap Within(z.down[s]) = {}
  BY <1>1, QueueTail
<1>3. \A c \in CSocket : /\ Begin(c) \in Of(c) /\ Finish(c) \in Of(c) /\ Carry(c) \in Of(c)
                         /\ Begin(c) # Finish(c) /\ Begin(c) # Carry(c) /\ Finish(c) # Carry(c)
  BY FramesDiffer DEF Of
<1>4. Claims(z, s) => Claims(y, s)
  BY <1>2 DEF Claims
<1>5. Apace(y, s) /\ (Early(y, s) => Blank(y, s))
  BY DEF Ordered, ClaimComesFirst
<1>6. /\ Calls(z, s) <=> Calls(y, s)
      /\ Verified(z, s) <=> Verified(y, s)
      /\ Challenged(z, s) => Challenged(y, s)
  BY <1>2 DEF Calls, Challenged, Verified, Elsewhere
<1>7. Early(z, s) => Blank(z, s)
  <2> SUFFICES ASSUME Blank(y, s)
               PROVE  Blank(z, s)
    BY <1>5, <1>6 DEF Early
  <2>1. ASSUME NEW c \in CSocket
        PROVE  c \notin Known(z, s) /\ Silent(z, s, c)
    <3>1. Silent(y, s, c) /\ c \notin Known(y, s)
      BY DEF Blank
    <3>2. m \notin Of(c)
      BY <1>2, <3>1 DEF Silent
    <3>3. c \notin Known(z, s)
      BY <1>3, <3>1, <3>2 DEF Known
    <3> QED BY <1>2, <3>1, <3>3 DEF Silent
  <2>2. Known(z, s) \subseteq CSocket
    <3>1. Owner[s] \in Daemon
      BY RendezvousAssumption
    <3>2. z.link[Owner[s]] \in LinkType
      BY <3>1 DEF Views
    <3> QED BY <3>2 DEF Known, End, LinkType, NoLink
  <2> QED BY <1>4, <2>1, <2>2 DEF Blank, Elsewhere
<1>8. DownInOrder(z, s)
  <2>1. z.down[s] # <<>> => On(z, s)
    BY <1>1 DEF DownInOrder, Elsewhere
  <2>2. Apart(z.down[s], {Word("challenge")}, {Word("challenge")})
    BY <1>1, <1>2 DEF DownInOrder
  <2>3. ASSUME NEW c \in CSocket
        PROVE  /\ Apart(z.down[s], Of(c), {Begin(c)}) /\ Apart(z.down[s], {Finish(c)}, {Carry(c)})
               /\ Begin(c) \in Within(z.down[s]) => c \notin Known(z, s) /\ Of(c) \cap Within(z.up[s]) = {}
               /\ Carry(c) \in Within(z.down[s]) => c \in Known(z, s) \/ Begin(c) \in Within(z.down[s])
    <3>1. /\ Apart(y.down[s], Of(c), {Begin(c)}) /\ Apart(y.down[s], {Finish(c)}, {Carry(c)})
          /\ Begin(c) \in Within(y.down[s]) => c \notin Known(y, s) /\ Of(c) \cap Within(y.up[s]) = {}
          /\ Carry(c) \in Within(y.down[s]) => c \in Known(y, s) \/ Begin(c) \in Within(y.down[s])
      BY <1>1 DEF DownInOrder
    <3>2. Apart(z.down[s], Of(c), {Begin(c)}) /\ Apart(z.down[s], {Finish(c)}, {Carry(c)})
      BY <1>2, <3>1
    <3>3. ASSUME Begin(c) \in Within(z.down[s])
          PROVE  c \notin Known(z, s) /\ Of(c) \cap Within(z.up[s]) = {}
      <4>1. m \notin Of(c)
        BY <1>2, <3>1, <3>3
      <4>2. c \notin Known(y, s) /\ Of(c) \cap Within(y.up[s]) = {}
        BY <1>2, <3>1, <3>3
      <4> QED BY <1>3, <4>1, <4>2 DEF Known
    <3>4. ASSUME Carry(c) \in Within(z.down[s])
          PROVE  c \in Known(z, s) \/ Begin(c) \in Within(z.down[s])
      <4>1. m # Finish(c)
        BY <1>2, <3>1, <3>4
      <4>2. c \in Known(y, s) \/ Begin(c) \in Within(y.down[s])
        BY <1>2, <3>1, <3>4
      <4>3. CASE m = Begin(c)
        BY <4>3 DEF Known
      <4>4. CASE m # Begin(c)
        BY <1>2, <4>1, <4>2, <4>4 DEF Known
      <4> QED BY <4>3, <4>4
    <3> QED BY <3>2, <3>3, <3>4
  <2> QED BY <2>1, <2>2, <2>3 DEF DownInOrder
<1>9. UpInOrder(z, s)
  <2> SUFFICES ASSUME NEW c \in CSocket, Finish(c) \in Within(y.up[s])
               PROVE  c \notin End(z, s).sess
    BY <1>1 DEF UpInOrder
  <2>1. c \notin End(y, s).sess
    BY <1>1 DEF UpInOrder
  <2>2. m # Begin(c)
    BY <1>1, <1>2, <1>3 DEF DownInOrder
  <2> QED BY <2>1, <2>2
<1>10. ASSUME NEW c \in CSocket
       PROVE  /\ Silent(y, s, c) /\ c \notin Known(y, s) => Silent(z, s, c) /\ c \notin Known(z, s)
              /\ Expects(y, s, c) /\ c \in y.doc.sessions => Expects(z, s, c)
              /\ Runs(z, s, c) => Runs(y, s, c)
              /\ Of(c) \cap Within(z.up[s]) # {} => Runs(y, s, c) \/ Of(c) \cap Within(y.up[s]) # {}
  <2>1. ASSUME Silent(y, s, c), c \notin Known(y, s)
        PROVE  Silent(z, s, c) /\ c \notin Known(z, s)
    <3>1. m \notin Of(c)
      BY <1>2, <2>1 DEF Silent
    <3> QED BY <1>2, <1>3, <2>1, <3>1 DEF Silent, Known
  <2>2. ASSUME Expects(y, s, c), c \in y.doc.sessions
        PROVE  Expects(z, s, c)
    <3>1. m # Finish(c)
      BY <1>2, <2>2 DEF Ordered, Unfinished
    <3>2. CASE m = Begin(c)
      BY <3>2 DEF Expects, Known
    <3>3. CASE m # Begin(c)
      BY <1>2, <2>2, <3>1, <3>3 DEF Expects, Known
    <3> QED BY <3>2, <3>3
  <2>3. Runs(z, s, c) => Runs(y, s, c)
    BY <1>2 DEF Runs
  <2> QED BY <2>1, <2>2, <2>3
<1>11. Moves(y, z, s)
  BY <1>2, <1>4, <1>5, <1>6, <1>7, <1>8, <1>9, <1>10 DEF Moves, Apace
<1>12. ASSUME NEW c \in CSocket, Runs(z, s, c), Finish(c) \in Within(y.down[s])
       PROVE  Finish(c) \in Within(z.down[s])
  <2> SUFFICES ASSUME m = Finish(c)
               PROVE  FALSE
    BY <1>2, <1>12
  <2>1. Apart(y.down[s], Of(c), {Begin(c)}) /\ m \in Of(c)
    BY <1>1, <1>3 DEF DownInOrder
  <2>2. Begin(c) \notin Within(z.down[s])
    BY <1>2, <2>1
  <2> QED BY <1>12, <2>2 DEF Runs
<1>13. Echoes(y, z, s)
  <2>1. \A c \in CSocket : c \in End(z, s).over => c \in End(y, s).over
    OBVIOUS
  <2> QED BY <1>12, <2>1 DEF Echoes
<1> QED BY <1>11, <1>13

LEMMA ChallengeMoves ==
  ASSUME NEW y \in Views, NEW z \in Views, NEW X, Ordered(y, X), NEW s \in DSocket, Elsewhere(y, z, s),
         y.down[s] # <<>>, Head(y.down[s]) = Word("challenge"), z.down[s] = Tail(y.down[s]),
         End(z, s) = End(y, s), NEW r \in DSocket \cup {None}, z.up[s] = Append(y.up[s], Claim(r))
  PROVE  Moves(y, z, s) /\ Echoes(y, z, s)
PROOF
<1> DEFINE m == Word("challenge")
           n == Claim(r)
<1>1. y.down[s] \in Seq(Frames) /\ y.up[s] \in Seq(Frames) /\ DownInOrder(y, s) /\ UpInOrder(y, s)
  BY Distinct DEF Views, Ordered, QueuesInOrder
<1>2. /\ Within(y.down[s]) = {m} \cup Within(z.down[s])
      /\ \A A, B : Apart(y.down[s], A, B) => /\ Apart(z.down[s], A, B)
                                             /\ m \in A => B \cap Within(z.down[s]) = {}
  BY <1>1, QueueTail
<1>3. n \in Frames /\ n \in Opening /\ n \in Upward
  BY FrameTypes DEF Opening, Upward
<1>4. /\ Within(z.up[s]) = Within(y.up[s]) \cup {n}
      /\ \A A, B : Apart(y.up[s], A, B) /\ (n \in B => A \cap Within(y.up[s]) = {}) => Apart(z.up[s], A, B)
  BY <1>1, <1>3, QueueAppend
<1>5. \A c \in CSocket : m \notin Of(c) /\ n \notin Of(c) /\ m # Finish(c) /\ m # Carry(c) /\ n # Finish(c)
                         /\ m # Begin(c) /\ Finish(c) \in Of(c) /\ Begin(c) \in Of(c) /\ Carry(c) \in Of(c)
  BY FramesDiffer DEF Of
<1> HIDE DEF n, m
<1>6. Known(z, s) = Known(y, s)
  BY DEF Known
<1>7. Challenged(y, s) /\ Blank(y, s) /\ ~Calls(y, s) /\ ~Verified(y, s)
  <2>1. Challenged(y, s)
    BY <1>2 DEF Challenged, m
  <2> QED BY <2>1 DEF Ordered, ClaimComesFirst, Apace, Early
<1>8. ~Challenged(z, s)
  BY <1>1, <1>2 DEF DownInOrder, Challenged, m
<1>9. ~Verified(z, s)
  BY <1>7 DEF Verified, Elsewhere
<1>10. Claims(z, s) => Claims(y, s)
  BY <1>2 DEF Claims
<1>11. \A c \in CSocket : Of(c) \cap Within(z.up[s]) = Of(c) \cap Within(y.up[s])
                          /\ Of(c) \cap Within(z.down[s]) = Of(c) \cap Within(y.down[s])
  BY <1>2, <1>4, <1>5
<1>12. \A c \in CSocket : /\ Silent(z, s, c) <=> Silent(y, s, c)
                          /\ Begin(c) \in Within(z.down[s]) <=> Begin(c) \in Within(y.down[s])
                          /\ Carry(c) \in Within(z.down[s]) <=> Carry(c) \in Within(y.down[s])
                          /\ Finish(c) \in Within(z.down[s]) <=> Finish(c) \in Within(y.down[s])
                          /\ Finish(c) \in Within(z.up[s]) <=> Finish(c) \in Within(y.up[s])
  <2> TAKE c \in CSocket
  <2>1. Silent(z, s, c) <=> Silent(y, s, c)
    BY <1>11 DEF Silent
  <2>2. m \notin Of(c) /\ n \notin Of(c) /\ Finish(c) \in Of(c) /\ Begin(c) \in Of(c) /\ Carry(c) \in Of(c)
    BY <1>5
  <2> QED BY <1>2, <1>4, <2>1, <2>2
<1>13. Blank(z, s)
  BY <1>6, <1>7, <1>10, <1>12 DEF Blank, Elsewhere
<1>14. DownInOrder(z, s)
  <2>1. z.down[s] # <<>> => On(z, s)
    BY <1>1 DEF DownInOrder, Elsewhere
  <2>2. Apart(z.down[s], {m}, {m})
    BY <1>1, <1>2 DEF DownInOrder, m
  <2>3. \A c \in CSocket : Apart(z.down[s], Of(c), {Begin(c)}) /\ Apart(z.down[s], {Finish(c)}, {Carry(c)})
    BY <1>1, <1>2 DEF DownInOrder
  <2>4. \A c \in CSocket : 
          /\ Begin(c) \in Within(z.down[s]) => c \notin Known(z, s) /\ Of(c) \cap Within(z.up[s]) = {}
          /\ Carry(c) \in Within(z.down[s]) => c \in Known(z, s) \/ Begin(c) \in Within(z.down[s])
    BY <1>1, <1>6, <1>11, <1>12 DEF DownInOrder
  <2> QED BY <2>1, <2>2, <2>3, <2>4 DEF DownInOrder, m
<1>15. UpInOrder(z, s)
  <2>1. Within(z.up[s]) \subseteq Upward
    BY <1>1, <1>3, <1>4 DEF UpInOrder
  <2>2. Apart(z.up[s], Opening, Opening)
    BY <1>1, <1>4, <1>7 DEF UpInOrder, Calls
  <2>3. \A c \in CSocket : Apart(z.up[s], {Finish(c)}, Of(c))
    BY <1>1, <1>4, <1>5 DEF UpInOrder
  <2>4. \A c \in CSocket : Finish(c) \in Within(z.up[s]) => c \notin End(z, s).sess
    BY <1>1, <1>12 DEF UpInOrder
  <2> QED BY <2>1, <2>2, <2>3, <2>4 DEF UpInOrder
<1>16. Moves(y, z, s)
  <2>1. Apace(z, s)
    BY <1>8, <1>9 DEF Apace
  <2>2. Within(z.down[s]) \subseteq Within(y.down[s])
    BY <1>2
  <2>3. ASSUME NEW c \in CSocket
        PROVE  /\ Silent(y, s, c) /\ c \notin Known(y, s) => Silent(z, s, c) /\ c \notin Known(z, s)
               /\ Expects(y, s, c) /\ c \in y.doc.sessions => Expects(z, s, c)
               /\ Runs(z, s, c) => Runs(y, s, c)
               /\ Of(c) \cap Within(z.up[s]) # {} => Runs(y, s, c) \/ Of(c) \cap Within(y.up[s]) # {}
    BY <1>6, <1>11, <1>12 DEF Expects, Runs
  <2> QED BY <1>10, <1>13, <1>14, <1>15, <2>1, <2>2, <2>3 DEF Moves
<1>17. Echoes(y, z, s)
  BY <1>12 DEF Echoes
<1> QED BY <1>16, <1>17

LEMMA OwnEnd ==
  ASSUME Sound, Sound', TokensAreSpent, NEW d \in Daemon, NEW s \in DSocket, s = link[d].sock,
         NEW l \in LinkType, link' = [link EXCEPT ![d] = l], l.sock = s,
         UNCHANGED <<doc, rt, mark, verifying, dead>>,
         \A x \in Socket : x # s => up'[x] = up[x],
         \A x \in DSocket : x # s => down'[x] = down[x]
  PROVE  /\ Now \in Views /\ Now' \in Views /\ Elsewhere(Now, Now', s)
         /\ End(Now, s) = link[d] /\ End(Now', s) = l
         /\ Now.up = up /\ Now'.up = up' /\ Now.down = down /\ Now'.down = down' /\ Now.doc = doc
PROOF
<1> DEFINE y == Now
           z == Now'
<1>1. /\ y \in Views /\ y.doc = doc /\ y.rt = rt /\ y.mark = mark /\ y.down = down /\ y.up = up
      /\ y.ver = verifying /\ y.link = link /\ y.dead = dead
  BY NowIs
<1>2. /\ z \in Views /\ z.doc = doc' /\ z.rt = rt' /\ z.mark = mark' /\ z.down = down' /\ z.up = up'
      /\ z.ver = verifying' /\ z.link = link' /\ z.dead = dead'
  BY NextView
<1>3. link \in [Daemon -> LinkType] /\ link[d] \in LinkType
  BY LinkTypes
<1>4. Owner[s] = d /\ link'[d] = l
  BY <1>3, Distinct DEF TokensAreSpent
<1>5. \A x \in DSocket : Owner[x] \in Daemon
  BY RendezvousAssumption
<1> HIDE DEF y, z
<1>6. ASSUME NEW x \in DSocket
      PROVE  (On(z, x) <=> On(y, x)) /\ (x # s => End(z, x) = End(y, x))
  <2>1. CASE Owner[x] = d
    BY <1>1, <1>2, <1>4, <2>1 DEF On, End
  <2>2. CASE Owner[x] # d
    BY <1>1, <1>2, <1>3, <1>5, <2>2 DEF On, End
  <2> QED BY <2>1, <2>2
<1>7. End(y, s) = link[d] /\ End(z, s) = l
  BY <1>1, <1>2, <1>4 DEF End, On
<1>8. Elsewhere(y, z, s)
  BY <1>1, <1>2, <1>6 DEF Elsewhere
<1> QED BY <1>1, <1>2, <1>4, <1>7, <1>8 DEF y, z

LEMMA OwnEndInOrder ==
  ASSUME Sound, Sound', InOrder, NEW s \in DSocket, Elsewhere(Now, Now', s), Moves(Now, Now', s), Echoes(Now, Now', s)
  PROVE  InOrder' /\ (Accord => Accord')
PROOF
<1> DEFINE y == Now
           z == Now'
<1>1. y \in Views /\ z \in Views
  BY NowIs, NextView
<1>2. Ordered(y, Gone(y)) /\ Elsewhere(y, z, s) /\ Moves(y, z, s) /\ Echoes(y, z, s)
  BY DEF InOrder
<1> HIDE DEF y, z
<1>3. Gone(z) = Gone(y)
  BY <1>2 DEF Gone, Elsewhere
<1>4. Ordered(z, Gone(z))
  BY <1>1, <1>2, <1>3, OneEnd
<1>5. Agreeing(y, {}) => Agreeing(z, {})
  BY <1>1, <1>2, OneEndAgrees
<1> QED BY <1>4, <1>5 DEF y, z, InOrder, Accord

LEMMA SayingInOrder ==
  ASSUME Sound, Sound', TokensAreSpent, InOrder, NEW d \in Daemon, NEW s \in DSocket, s = link[d].sock,
         NEW m \in Upward \ Opening, m \in Frames, Say(s, m), UNCHANGED <<doc, rt, mark, verifying, down, dead>>,
         NEW l \in LinkType, link' = [link EXCEPT ![d] = l], l.sock = s, l.claimed = link[d].claimed,
         l.sess \subseteq link[d].sess, l.sess \cup l.over = link[d].sess \cup link[d].over,
         link[d].claimed \/ link[d].sess # {},
         \A c \in CSocket : /\ m \in Of(c) => c \in link[d].sess
                            /\ m = Finish(c) => c \notin l.sess
                            /\ c \in l.over => c \in link[d].over \/ m = Finish(c)
  PROVE  InOrder' /\ (Accord => Accord')
PROOF
<1> DEFINE y == Now
           z == Now'
<1>1. s \in Socket /\ up \in [Socket -> Seq(Frames)]
  BY Distinct DEF Sound
<1>2. up' = [up EXCEPT ![s] = Append(up[s], m)]
  BY DEF Say
<1>3. /\ y \in Views /\ z \in Views /\ Elsewhere(y, z, s) /\ End(y, s) = link[d] /\ End(z, s) = l
      /\ y.up = up /\ z.up = up' /\ y.down = down /\ z.down = down'
  <2>1. \A x \in Socket : x # s => up'[x] = up[x]
    BY <1>1, <1>2
  <2>2. \A x \in DSocket : x # s => down'[x] = down[x]
    OBVIOUS
  <2>0. UNCHANGED <<doc, rt, mark, verifying, dead>>
    OBVIOUS
  <2> HIDE DEF y, z
  <2>3. /\ Now \in Views /\ Now' \in Views /\ Elsewhere(Now, Now', s)
        /\ End(Now, s) = link[d] /\ End(Now', s) = l
        /\ Now.up = up /\ Now'.up = up' /\ Now.down = down /\ Now'.down = down'
    BY <2>0, <2>1, <2>2, OwnEnd, Zenon
  <2> QED BY <2>3 DEF y, z
<1>4. Ordered(y, Gone(y))
  BY DEF InOrder
<1> HIDE DEF y, z
<1>5. ~Early(y, s)
  <2>1. ~Blank(y, s)
    BY <1>3 DEF Blank, Claims, Known
  <2> QED BY <1>1, <1>4, <2>1 DEF Ordered, ClaimComesFirst
<1>6. z.down[s] = y.down[s] /\ z.up[s] = Append(y.up[s], m) /\ Known(z, s) = Known(y, s)
  BY <1>1, <1>2, <1>3 DEF Known
<1>7. Moves(y, z, s) /\ Echoes(y, z, s)
  BY <1>1, <1>3, <1>4, <1>5, <1>6, SaidMoves
<1> QED BY <1>1, <1>3, <1>7, OwnEndInOrder DEF y, z

LEMMA SayersInOrder ==
  ASSUME Sound, Sound', TokensAreSpent, InOrder, NEW d \in Daemon
  PROVE  /\ ProbeClaim(d) => InOrder' /\ (Accord => Accord')
         /\ \A c \in CSocket : Answer(d, c) \/ EndSession(d, c) => InOrder' /\ (Accord => Accord')
PROOF
<1> DEFINE s == link[d].sock
<1>1. /\ Word("probe") \in Upward \ Opening /\ Word("probe") \in Frames
      /\ \A c \in CSocket : Word("probe") \notin Of(c) /\ Word("probe") # Finish(c)
  BY FrameTypes, FramesDiffer DEF Upward, Opening, Of
<1>2. \A c \in CSocket : /\ Carry(c) \in Upward \ Opening /\ Carry(c) \in Frames
                         /\ Finish(c) \in Upward \ Opening /\ Finish(c) \in Frames
                         /\ Carry(c) # Finish(c)
  BY FrameTypes, FramesDiffer DEF Upward, Opening, Of, Finish, Carry
<1>3. \A b, c \in CSocket : /\ Carry(c) \in Of(b) => b = c
                            /\ Finish(c) \in Of(b) => b = c
                            /\ Carry(c) # Finish(b)
                            /\ Finish(c) = Finish(b) => b = c
  BY FramesDiffer DEF Of
<1>4. /\ link \in [Daemon -> LinkType] /\ link = [link EXCEPT ![d] = link[d]] /\ link[d] \in LinkType
      /\ s # None => s \in DSocket
  BY LinkTypes DEF LinkType
<1>0. s = link[d].sock
  OBVIOUS
<1> HIDE DEF s
<1>5. ASSUME ProbeClaim(d) PROVE InOrder' /\ (Accord => Accord')
  <2>1. /\ s # None /\ link[d].claimed /\ Say(s, Word("probe")) /\ link' = link
        /\ UNCHANGED <<doc, rt, mark, verifying, down, dead>>
    BY <1>5 DEF ProbeClaim, Sends, relay, ends, s
  <2>2. s \in DSocket /\ link' = [link EXCEPT ![d] = link[d]] /\ link[d].sock = s
    BY <1>0, <1>4, <2>1
  <2>3. \A c \in CSocket : /\ Word("probe") \in Of(c) => c \in link[d].sess
                           /\ Word("probe") = Finish(c) => c \notin link[d].sess
    BY <1>1
  <2> QED BY <1>0, <1>1, <1>4, <2>1, <2>2, <2>3, SayingInOrder
<1>6. ASSUME NEW c \in CSocket, Answer(d, c) PROVE InOrder' /\ (Accord => Accord')
  <2>1. /\ s # None /\ c \in link[d].sess /\ Say(s, Carry(c)) /\ link' = link
        /\ UNCHANGED <<doc, rt, mark, verifying, down, dead>>
    BY <1>6 DEF Answer, Sends, relay, ends, s, Carry
  <2>2. s \in DSocket /\ link' = [link EXCEPT ![d] = link[d]] /\ link[d].sock = s
    BY <1>0, <1>4, <2>1
  <2>3. \A b \in CSocket : /\ Carry(c) \in Of(b) => b \in link[d].sess
                           /\ Carry(c) = Finish(b) => b \notin link[d].sess
    BY <1>3, <2>1
  <2>4. link[d].sess # {} /\ Carry(c) \in Upward \ Opening /\ Carry(c) \in Frames
    BY <1>2, <2>1
  <2> QED BY <1>0, <1>4, <2>1, <2>2, <2>3, <2>4, SayingInOrder
<1>7. ASSUME NEW c \in CSocket, EndSession(d, c) PROVE InOrder' /\ (Accord => Accord')
  <2> DEFINE l == [link[d] EXCEPT !.sess = @ \ {c}, !.over = @ \cup {c}]
  <2>1. /\ s # None /\ c \in link[d].sess /\ Say(s, Finish(c)) /\ link' = [link EXCEPT ![d] = l]
        /\ UNCHANGED <<doc, rt, mark, verifying, down, dead>>
    BY <1>4, <1>7 DEF EndSession, Sends, relay, s, Finish
  <2>2. /\ l.sock = s /\ l.claimed = link[d].claimed /\ l.sess = link[d].sess \ {c}
        /\ l.over = link[d].over \cup {c}
    BY <1>4 DEF LinkType, s
  <2>6. l \in LinkType
    BY LinkTypes
  <2> HIDE DEF l
  <2>3. l.sess \cup l.over = link[d].sess \cup link[d].over
    BY <2>1, <2>2
  <2>4. \A b \in CSocket : /\ Finish(c) \in Of(b) => b \in link[d].sess
                           /\ Finish(c) = Finish(b) => b \notin l.sess
                           /\ b \in l.over => b \in link[d].over \/ Finish(c) = Finish(b)
    BY <1>3, <2>1, <2>2
  <2>5. l.sess \subseteq link[d].sess /\ link[d].sess # {}
    BY <2>1, <2>2
  <2>7. s \in DSocket /\ Finish(c) \in Upward \ Opening /\ Finish(c) \in Frames
    BY <1>2, <1>4, <2>1
  <2> QED BY <1>0, <2>1, <2>2, <2>3, <2>4, <2>5, <2>6, <2>7, SayingInOrder
<1> QED BY <1>5, <1>6, <1>7

LEMMA HearingInOrder ==
  ASSUME Sound, Sound', TokensAreSpent, InOrder, NEW d \in Daemon, NEW s \in DSocket, s = link[d].sock,
         down[s] # <<>>, down' = [down EXCEPT ![s] = Tail(down[s])],
         UNCHANGED <<doc, rt, mark, verifying, up, dead>>,
         NEW l \in LinkType, link' = [link EXCEPT ![d] = l], l.sock = s,
         l.claimed => link[d].claimed \/ Head(down[s]) = Word("claimed"),
         \A c \in CSocket :
           /\ Head(down[s]) = Begin(c) => c \in l.sess /\ c \notin l.over
           /\ Head(down[s]) = Finish(c) => c \notin l.sess /\ (c \in l.over => c \in link[d].over)
           /\ Head(down[s]) \notin {Begin(c), Finish(c)} =>
                (c \in l.sess <=> c \in link[d].sess) /\ (c \in l.over <=> c \in link[d].over)
  PROVE  InOrder' /\ (Accord => Accord')
PROOF
<1> DEFINE y == Now
           z == Now'
           m == Head(down[s])
<1>1. down \in [DSocket -> Seq(Frames)]
  BY DEF Sound
<1>2. UNCHANGED <<doc, rt, mark, verifying, dead>>
  OBVIOUS
<1>3. \A x \in Socket : x # s => up'[x] = up[x]
  OBVIOUS
<1>4. \A x \in DSocket : x # s => down'[x] = down[x]
  BY <1>1
<1> HIDE DEF y, z
<1>5. /\ y \in Views /\ z \in Views /\ Elsewhere(y, z, s) /\ End(y, s) = link[d] /\ End(z, s) = l
      /\ y.up = up /\ z.up = up' /\ y.down = down /\ z.down = down'
  <2>1. /\ Now \in Views /\ Now' \in Views /\ Elsewhere(Now, Now', s)
        /\ End(Now, s) = link[d] /\ End(Now', s) = l
        /\ Now.up = up /\ Now'.up = up' /\ Now.down = down /\ Now'.down = down'
    BY <1>2, <1>3, <1>4, OwnEnd
  <2> QED BY <2>1 DEF y, z
<1>6. Ordered(y, Gone(y))
  BY DEF InOrder, y
<1>7. y.down[s] # <<>> /\ z.down[s] = Tail(y.down[s]) /\ z.up[s] = y.up[s] /\ m = Head(y.down[s])
  BY <1>1, <1>5
<1>8. Moves(y, z, s) /\ Echoes(y, z, s)
  <2>1. End(z, s).claimed => End(y, s).claimed \/ m = Word("claimed")
    BY <1>5
  <2>2. \A c \in CSocket :
           /\ m = Begin(c) => c \in End(z, s).sess /\ c \notin End(z, s).over
           /\ m = Finish(c) => c \notin End(z, s).sess /\ (c \in End(z, s).over => c \in End(y, s).over)
           /\ m \notin {Begin(c), Finish(c)} =>
                (c \in End(z, s).sess <=> c \in End(y, s).sess) /\ (c \in End(z, s).over <=> c \in End(y, s).over)
    BY <1>5
  <2> HIDE DEF m
  <2> QED BY <1>5, <1>6, <1>7, <2>1, <2>2, HeardMoves
<1> QED BY <1>5, <1>8, OwnEndInOrder DEF y, z

LEMMA HeardShapes ==
  ASSUME NEW m \in Frames
  PROVE  /\ m.t \in {"challenge", "claimed", "held"} => m = Word(m.t)
         /\ m.t = "open" => m = Begin(m.s) /\ m.s \in CSocket
         /\ m.t = "closed" => m = Finish(m.s) /\ m.s \in CSocket
         /\ \A c \in CSocket : (m = Begin(c) => m.t = "open" /\ m.s = c) /\ (m = Finish(c) => m.t = "closed" /\ m.s = c)
BY DEF Frames, Word, Begin, Finish, About

LEMMA HearInOrder ==
  ASSUME Sound, Sound', TokensAreSpent, InOrder, NEW d \in Daemon, Hear(d)
  PROVE  InOrder' /\ (Accord => Accord')
PROOF
<1> DEFINE s == link[d].sock
           m == Head(down[s])
<1>1. /\ s \in DSocket /\ s # None /\ down[s] # <<>> /\ m \in Frames /\ LinkHears(d, m) /\ s \in Socket
      /\ down' = [down EXCEPT ![s] = IF link'[d].sock = None THEN <<>> ELSE Tail(@)]
      /\ UNCHANGED <<doc, rt, mark, verifying, dead>>
      /\ down \in [DSocket -> Seq(Frames)] /\ up \in [Socket -> Seq(Frames)]
  <2>1. link[d] \in LinkType
    BY LinkTypes
  <2>2. s \in DSocket /\ s # None /\ down[s] # <<>>
    BY <2>1 DEF Hear, LinkType
  <2>3. m \in Frames
    BY <2>2 DEF Sound
  <2> QED BY <2>2, <2>3, Distinct DEF Hear, relay, Sound
<1>2. link \in [Daemon -> LinkType] /\ link[d] \in LinkType
  BY LinkTypes
<1>0. s = link[d].sock /\ m = Head(down[s])
  OBVIOUS
<1> HIDE DEF s, m
<1>3. ASSUME NEW l \in LinkType, link' = [link EXCEPT ![d] = l], l.sock = s, up' = up,
             l.claimed => link[d].claimed \/ m = Word("claimed"),
             \A c \in CSocket :
               /\ m = Begin(c) => c \in l.sess /\ c \notin l.over
               /\ m = Finish(c) => c \notin l.sess /\ (c \in l.over => c \in link[d].over)
               /\ m \notin {Begin(c), Finish(c)} =>
                    (c \in l.sess <=> c \in link[d].sess) /\ (c \in l.over <=> c \in link[d].over)
      PROVE  InOrder' /\ (Accord => Accord')
  <2>1. link'[d] = l
    BY <1>2, <1>3
  <2>2. down' = [down EXCEPT ![s] = Tail(down[s])]
    BY <1>1, <1>3, <2>1
  <2>3. UNCHANGED <<doc, rt, mark, verifying, up, dead>>
    BY <1>1, <1>3
  <2> QED BY <1>0, <1>1, <1>3, <2>2, <2>3, HearingInOrder
<1>4. CASE m.t = "challenge"
  <2>1. link' = [link EXCEPT ![d] = link[d]] /\ up' = [up EXCEPT ![s] = Append(up[s], Claim(keep[d]))] /\ link' = link
    BY <1>0, <1>1, <1>2, <1>4 DEF LinkHears, Say
  <2>2. down' = [down EXCEPT ![s] = Tail(down[s])]
    BY <1>0, <1>1, <2>1
  <2>3. /\ \A x \in Socket : x # s => up'[x] = up[x]
        /\ \A x \in DSocket : x # s => down'[x] = down[x]
    BY <1>1, <2>1, <2>2
  <2> DEFINE y == Now
             z == Now'
  <2> HIDE DEF y, z
  <2>4. /\ y \in Views /\ z \in Views /\ Elsewhere(y, z, s) /\ End(y, s) = link[d] /\ End(z, s) = link[d]
        /\ y.up = up /\ z.up = up' /\ y.down = down /\ z.down = down'
    <3>1. /\ Now \in Views /\ Now' \in Views /\ Elsewhere(Now, Now', s)
          /\ End(Now, s) = link[d] /\ End(Now', s) = link[d]
          /\ Now.up = up /\ Now'.up = up' /\ Now.down = down /\ Now'.down = down'
      <4>1. link[d].sock = s /\ UNCHANGED <<doc, rt, mark, verifying, dead>>
        BY <1>0, <1>1
      <4>2. link[d] \in LinkType /\ link' = [link EXCEPT ![d] = link[d]] /\ s \in DSocket
        BY <1>1, <1>2, <2>1
      <4> QED BY <1>0, <2>3, <4>1, <4>2, OwnEnd
    <3> QED BY <3>1 DEF y, z
  <2>5. Ordered(y, Gone(y))
    BY DEF InOrder, y
  <2>6. m = Word("challenge") /\ keep[d] \in DSocket \cup {None}
    BY <1>1, <1>4, HeardShapes DEF Sound
  <2>7. /\ y.down[s] # <<>> /\ Head(y.down[s]) = Word("challenge") /\ z.down[s] = Tail(y.down[s])
        /\ End(z, s) = End(y, s) /\ z.up[s] = Append(y.up[s], Claim(keep[d]))
    BY <1>0, <1>1, <2>1, <2>2, <2>4, <2>6
  <2>8. Moves(y, z, s) /\ Echoes(y, z, s)
    BY <1>1, <2>4, <2>5, <2>6, <2>7, ChallengeMoves
  <2> QED BY <1>1, <2>4, <2>8, OwnEndInOrder DEF y, z
<1>5. CASE m.t = "claimed"
  <2> DEFINE l == [link[d] EXCEPT !.claimed = TRUE]
  <2>1. link' = [link EXCEPT ![d] = l] /\ up' = up /\ l \in LinkType
    BY <1>1, <1>2, <1>5, LinkTypes DEF LinkHears
  <2>2. l.sock = s /\ l.sess = link[d].sess /\ l.over = link[d].over
    BY <1>0, <1>2 DEF LinkType
  <2>3. m = Word("claimed") /\ \A c \in CSocket : m # Begin(c) /\ m # Finish(c)
    BY <1>1, <1>5, HeardShapes
  <2> HIDE DEF l
  <2> QED BY <1>3, <2>1, <2>2, <2>3
<1>6. CASE m.t = "open"
  <2> DEFINE l == [link[d] EXCEPT !.sess = @ \cup {m.s}, !.over = @ \ {m.s}]
  <2>1. m = Begin(m.s) /\ m.s \in CSocket /\ \A c \in CSocket : (m = Begin(c) => c = m.s) /\ m # Finish(c)
    BY <1>1, <1>6, HeardShapes
  <2>2. link' = [link EXCEPT ![d] = l] /\ up' = up /\ l \in LinkType
    BY <1>1, <1>2, <1>6, <2>1, LinkTypes DEF LinkHears
  <2>3. l.sock = s /\ l.claimed = link[d].claimed /\ l.sess = link[d].sess \cup {m.s} /\ l.over = link[d].over \ {m.s}
    BY <1>0, <1>2 DEF LinkType
  <2> HIDE DEF l
  <2>4. \A c \in CSocket :
               /\ m = Begin(c) => c \in l.sess /\ c \notin l.over
               /\ m = Finish(c) => c \notin l.sess /\ (c \in l.over => c \in link[d].over)
               /\ m \notin {Begin(c), Finish(c)} =>
                    (c \in l.sess <=> c \in link[d].sess) /\ (c \in l.over <=> c \in link[d].over)
    BY <2>1, <2>3
  <2> QED BY <1>3, <2>2, <2>3, <2>4
<1>7. CASE m.t = "closed"
  <2> DEFINE l == [link[d] EXCEPT !.sess = @ \ {m.s}]
  <2>1. m = Finish(m.s) /\ m.s \in CSocket /\ \A c \in CSocket : (m = Finish(c) => c = m.s) /\ m # Begin(c)
    BY <1>1, <1>7, HeardShapes
  <2>2. link' = [link EXCEPT ![d] = l] /\ up' = up /\ l \in LinkType
    BY <1>1, <1>2, <1>7, <2>1, LinkTypes DEF LinkHears
  <2>3. l.sock = s /\ l.claimed = link[d].claimed /\ l.sess = link[d].sess \ {m.s} /\ l.over = link[d].over
    BY <1>0, <1>2 DEF LinkType
  <2> HIDE DEF l
  <2>4. \A c \in CSocket :
               /\ m = Begin(c) => c \in l.sess /\ c \notin l.over
               /\ m = Finish(c) => c \notin l.sess /\ (c \in l.over => c \in link[d].over)
               /\ m \notin {Begin(c), Finish(c)} =>
                    (c \in l.sess <=> c \in link[d].sess) /\ (c \in l.over <=> c \in link[d].over)
    BY <2>1, <2>3
  <2> QED BY <1>3, <2>2, <2>3, <2>4
<1>8. CASE m.t = "held" \/ (m.t = "data" /\ m.s \in link[d].sess \cup link[d].over)
  <2>1. link' = [link EXCEPT ![d] = link[d]] /\ up' = up
    BY <1>1, <1>2, <1>8 DEF LinkHears
  <2>2. \A c \in CSocket : m # Begin(c) /\ m # Finish(c)
    BY <1>1, <1>8, HeardShapes
  <2> QED BY <1>0, <1>2, <1>3, <2>1, <2>2
<1>9. CASE /\ m.t \notin {"challenge", "claimed", "open", "closed", "held"}
           /\ ~(m.t = "data" /\ m.s \in link[d].sess \cup link[d].over)
  <2>1. link' = [link EXCEPT ![d] = NoLink] /\ up' = up
    <3>1. CASE m.t = "close"
      BY <1>1, <1>9, <3>1 DEF LinkHears, Ended
    <3>2. CASE m.t # "close"
      BY <1>1, <1>9, <3>2 DEF LinkHears, Ended
    <3> QED BY <3>1, <3>2
  <2>2. link'[d].sock = None
    BY <1>2, <2>1 DEF NoLink
  <2>3. down' = [down EXCEPT ![link[d].sock] = <<>>] /\ UNCHANGED <<doc, rt, mark, verifying, up, dead>>
    BY <1>0, <1>1, <2>1, <2>2
  <2> QED BY <1>0, <1>1, <2>1, <2>3, EndIsOver
<1> QED BY <1>4, <1>5, <1>6, <1>7, <1>8, <1>9

-----------------------------------------------------------------------------
(* Sockets that are dialled, and what clients say. *)

LEMMA QueueOne ==
  ASSUME NEW m \in Frames
  PROVE  Within(<<m>>) = {m} /\ \A A, B : Apart(<<m>>, A, B)
BY DEF Within, Apart

LEMMA DialMoves ==
  ASSUME NEW y \in Views, NEW z \in Views, NEW X, Ordered(y, X), NEW s \in DSocket, ~On(y, s),
         s # y.doc.slot, s \notin y.mark, ~Verified(y, s),
         z.doc = y.doc, z.mark = y.mark, z.ver = y.ver,
         \A x \in Socket : x # s => z.rt[x] = y.rt[x] /\ z.up[x] = y.up[x] /\ (x \in z.dead <=> x \in y.dead),
         \A x \in DSocket : x # s => z.down[x] = y.down[x] /\ (On(z, x) <=> On(y, x)) /\ End(z, x) = End(y, x),
         z.down[s] = <<>>, z.up[s] = <<Word("arrive")>>, ~End(z, s).claimed, Known(z, s) = {}
  PROVE  Ordered(z, X) /\ (Agreeing(y, {}) => Agreeing(z, {}))
PROOF
<1> DEFINE a == Word("arrive")
<1>1. /\ a \in Opening /\ a \in Upward /\ a \in Frames
      /\ \A c \in CSocket : a \notin Of(c) /\ a # Finish(c)
  BY FrameTypes, FramesDiffer DEF Opening, Upward, Of
<1>2. /\ Within(z.up[s]) = {a} /\ Within(z.down[s]) = {}
      /\ \A A, B : Apart(z.up[s], A, B) /\ Apart(z.down[s], A, B)
  BY <1>1, QueueOne, QueueNone
<1> HIDE DEF a
<1>3. /\ y.doc.slot # None => y.doc.slot \in DSocket /\ y.doc.slot \in Socket
      /\ \A c \in CSocket : c \in Socket /\ c # s
      /\ \A x \in DSocket : x \in Socket
      /\ y.mark \subseteq DSocket
  BY Distinct DEF Views, Docs
<1>4. ~Claims(z, s) /\ ~Verified(z, s) /\ ~Challenged(z, s) /\ \A c \in CSocket : Silent(z, s, c)
  BY <1>1, <1>2 DEF Claims, Verified, Challenged, Silent
<1>5. ASSUME NEW x \in DSocket, x # s
      PROVE  /\ z.down[x] = y.down[x] /\ z.up[x] = y.up[x] /\ z.rt[x] = y.rt[x] /\ (x \in z.dead <=> x \in y.dead)
             /\ (On(z, x) <=> On(y, x)) /\ End(z, x) = End(y, x)
             /\ Known(z, x) = Known(y, x) /\ (Claims(z, x) <=> Claims(y, x)) /\ (Linked(z, x) <=> Linked(y, x))
             /\ \A c \in CSocket : Silent(z, x, c) <=> Silent(y, x, c)
  BY <1>3, <1>5 DEF Known, Claims, Silent, Linked
<1>6. QueuesInOrder(z)
  <2>1. DownInOrder(z, s)
    BY <1>2 DEF DownInOrder
  <2>2. UpInOrder(z, s)
    BY <1>1, <1>2 DEF UpInOrder
  <2>3. ASSUME NEW x \in DSocket, x # s PROVE DownInOrder(z, x) /\ UpInOrder(z, x)
    <3>1. DownInOrder(y, x) /\ UpInOrder(y, x)
      BY DEF Ordered, QueuesInOrder
    <3>2. DownInOrder(z, x)
      BY <1>5, <2>3, <3>1 DEF DownInOrder
    <3>3. UpInOrder(z, x)
      BY <1>5, <2>3, <3>1 DEF UpInOrder
    <3> QED BY <3>2, <3>3
  <2> QED BY <2>1, <2>2, <2>3 DEF QueuesInOrder
<1>7. ClosesAreFair(z)
  BY <1>2, <1>5 DEF Ordered, ClosesAreFair
<1>8. ClaimComesFirst(z)
  <2>1. Apace(z, s) /\ Blank(z, s)
    BY <1>4 DEF Apace, Blank
  <2>2. ASSUME NEW x \in DSocket, x # s PROVE Apace(z, x) /\ (Early(z, x) => Blank(z, x))
    <3>1. Apace(y, x) /\ (Early(y, x) => Blank(y, x))
      BY DEF Ordered, ClaimComesFirst
    <3>2. (Calls(z, x) <=> Calls(y, x)) /\ (Challenged(z, x) <=> Challenged(y, x)) /\ (Verified(z, x) <=> Verified(y, x))
      BY <1>5, <2>2 DEF Calls, Challenged, Verified
    <3>3. Blank(y, x) => Blank(z, x)
      BY <1>5, <2>2 DEF Blank
    <3> QED BY <3>1, <3>2, <3>3 DEF Apace, Early
  <2> QED BY <2>1, <2>2 DEF ClaimComesFirst
<1>9. NewcomersAreUnknown(z)
  <2> SUFFICES ASSUME NEW c \in CSocket
               PROVE  /\ Apart(z.up[c], {Word("arrive")}, {Word("arrive")})
                      /\ Newcomer(z, c) => Unknown(z, c)
    BY DEF NewcomersAreUnknown
  <2>1. /\ Apart(y.up[c], {Word("arrive")}, {Word("arrive")})
        /\ Newcomer(y, c) => Unknown(y, c)
    BY DEF Ordered, NewcomersAreUnknown
  <2>2. z.up[c] = y.up[c]
    BY <1>3
  <2>3. Unknown(y, c) => Unknown(z, c)
    BY <1>4, <1>5 DEF Unknown
  <2> QED BY <2>1, <2>2, <2>3 DEF Newcomer
<1>10. Unfinished(z)
  BY <1>2, <1>5 DEF Ordered, Unfinished
<1>11. \A U : Opened(y, U) => Opened(z, U)
  BY <1>3, <1>5 DEF Opened
<1>12. SessionsAreKnown(z)
  BY <1>3, <1>5 DEF Ordered, SessionsAreKnown
<1>13. Ordered(z, X)
  BY <1>6, <1>7, <1>8, <1>9, <1>10, <1>11, <1>12 DEF Ordered
<1>14. ASSUME Agreeing(y, {}) PROVE Agreeing(z, {})
  <2>1. MarkIsSlots(z)
    BY <1>3, <1>14 DEF Agreeing, MarkIsSlots
  <2>2. Answered(z)
    BY <1>3, <1>5, <1>14 DEF Agreeing, Answered
  <2>3. Echoed(z, {})
    BY <1>3, <1>5, <1>14 DEF Agreeing, Echoed
  <2> QED BY <1>11, <1>14, <2>1, <2>2, <2>3 DEF Agreeing
<1> QED BY <1>13, <1>14

LEMMA ClientMoves ==
  ASSUME NEW y \in Views, NEW z \in Views, NEW X \in SUBSET CSocket, NEW U \in SUBSET CSocket, Ordered(y, X), NEW c \in CSocket,
         z.doc = y.doc, z.mark = y.mark, z.ver = y.ver, z.down = y.down, z.link = y.link,
         \A x \in Socket : x # c => z.rt[x] = y.rt[x] /\ z.up[x] = y.up[x] /\ (x \in z.dead <=> x \in y.dead),
         Apart(z.up[c], {Word("arrive")}, {Word("arrive")}), Newcomer(z, c) => Unknown(y, c),
         y.doc.sessions \cap X \subseteq U
  PROVE  Ordered(z, U) /\ (Agreeing(y, {}) => Agreeing(z, {}))
PROOF
<1>1. /\ y.doc.slot # None => y.doc.slot \in DSocket
      /\ \A x \in DSocket : x \in Socket /\ x # c
      /\ \A b \in CSocket : b \in Socket
      /\ y.mark \subseteq DSocket
  BY Distinct DEF Views, Docs
<1>2. ASSUME NEW x \in DSocket
      PROVE  /\ z.down[x] = y.down[x] /\ z.up[x] = y.up[x] /\ z.rt[x] = y.rt[x] /\ (x \in z.dead <=> x \in y.dead)
             /\ (On(z, x) <=> On(y, x)) /\ End(z, x) = End(y, x)
             /\ Known(z, x) = Known(y, x) /\ (Claims(z, x) <=> Claims(y, x)) /\ (Linked(z, x) <=> Linked(y, x))
             /\ \A b \in CSocket : Silent(z, x, b) <=> Silent(y, x, b)
  BY <1>1 DEF Known, Claims, Silent, Linked, On, End
<1>3. QueuesInOrder(z)
  <2> SUFFICES ASSUME NEW x \in DSocket PROVE DownInOrder(z, x) /\ UpInOrder(z, x)
    BY DEF QueuesInOrder
  <2>1. DownInOrder(y, x) /\ UpInOrder(y, x)
    BY DEF Ordered, QueuesInOrder
  <2>2. DownInOrder(z, x)
    BY <1>2, <2>1 DEF DownInOrder
  <2>3. UpInOrder(z, x)
    BY <1>2, <2>1 DEF UpInOrder
  <2> QED BY <2>2, <2>3
<1>4. ClosesAreFair(z)
  BY <1>2 DEF Ordered, ClosesAreFair
<1>5. ClaimComesFirst(z)
  <2> SUFFICES ASSUME NEW x \in DSocket PROVE Apace(z, x) /\ (Early(z, x) => Blank(z, x))
    BY DEF ClaimComesFirst
  <2>1. Apace(y, x) /\ (Early(y, x) => Blank(y, x))
    BY DEF Ordered, ClaimComesFirst
  <2>2. (Calls(z, x) <=> Calls(y, x)) /\ (Challenged(z, x) <=> Challenged(y, x)) /\ (Verified(z, x) <=> Verified(y, x))
    BY <1>2 DEF Calls, Challenged, Verified
  <2>3. Blank(y, x) => Blank(z, x)
    BY <1>2 DEF Blank
  <2> QED BY <2>1, <2>2, <2>3 DEF Apace, Early
<1>6. NewcomersAreUnknown(z)
  <2> SUFFICES ASSUME NEW b \in CSocket
               PROVE  /\ Apart(z.up[b], {Word("arrive")}, {Word("arrive")})
                      /\ Newcomer(z, b) => Unknown(z, b)
    BY DEF NewcomersAreUnknown
  <2>1. Unknown(y, b) => Unknown(z, b)
    BY <1>2 DEF Unknown
  <2>2. CASE b = c
    BY <2>1, <2>2
  <2>3. CASE b # c
    <3>1. z.up[b] = y.up[b]
      BY <1>1, <2>3
    <3> QED BY <2>1, <3>1 DEF Ordered, NewcomersAreUnknown, Newcomer
  <2> QED BY <2>2, <2>3
<1>7. Unfinished(z)
  BY <1>2 DEF Ordered, Unfinished
<1>8. Opened(z, U)
  BY <1>1, <1>2 DEF Ordered, Opened
<1>9. SessionsAreKnown(z)
  BY <1>1, <1>2 DEF Ordered, SessionsAreKnown
<1>10. Ordered(z, U)
  BY <1>3, <1>4, <1>5, <1>6, <1>7, <1>8, <1>9 DEF Ordered
<1>11. ASSUME Agreeing(y, {}) PROVE Agreeing(z, {})
  <2>1. MarkIsSlots(z)
    BY <1>1, <1>2, <1>11 DEF Agreeing, MarkIsSlots
  <2>2. Opened(z, {})
    BY <1>1, <1>2, <1>11 DEF Agreeing, Opened
  <2>3. Answered(z)
    BY <1>1, <1>2, <1>11 DEF Agreeing, Answered
  <2>4. Echoed(z, {})
    BY <1>1, <1>2, <1>11 DEF Agreeing, Echoed
  <2> QED BY <2>1, <2>2, <2>3, <2>4 DEF Agreeing
<1> QED BY <1>10, <1>11

LEMMA FreshIsUnknown ==
  ASSUME Sound, NEW c \in CSocket, Fresh(c)
  PROVE  Unknown(Now, c)
PROOF
<1>1. Now.doc = doc /\ Now.up = up /\ Now.down = down /\ Now.link = link
  BY NowIs
<1>2. ASSUME NEW m \in Of(c) PROVE "s" \in DOMAIN m /\ m.s = c
  BY <1>2 DEF Of, Begin, Finish, Carry, About
<1>3. ASSUME NEW x \in DSocket PROVE Silent(Now, x, c) /\ c \notin Known(Now, x)
  <2>1. Within(down[x]) \subseteq InFlight /\ Within(up[x]) \subseteq InFlight
    BY Distinct DEF InFlight
  <2>2. \A m \in InFlight : "s" \in DOMAIN m => m.s # c
    BY DEF Fresh
  <2>3. Silent(Now, x, c)
    BY <1>1, <1>2, <2>1, <2>2 DEF Silent
  <2>4. Owner[x] \in Daemon
    BY RendezvousAssumption
  <2>5. c \notin Known(Now, x)
    BY <1>1, <2>4 DEF Fresh, Known, End, NoLink
  <2> QED BY <2>3, <2>5
<1>4. c \notin doc.sessions \cup doc.ended
  BY DEF Fresh
<1> QED BY <1>1, <1>3, <1>4 DEF Unknown

LEMMA DialInOrder ==
  ASSUME Sound, Sound', InOrder, NEW d \in Daemon, NEW s \in DSocket, Dial(d, s)
  PROVE  InOrder' /\ (Accord => Accord')
PROOF
<1> DEFINE y == Now
           z == Now'
           l == [NoLink EXCEPT !.sock = s]
<1>1. /\ y \in Views /\ y.doc = doc /\ y.rt = rt /\ y.mark = mark /\ y.down = down /\ y.up = up
      /\ y.ver = verifying /\ y.link = link /\ y.dead = dead
  BY NowIs
<1>2. /\ z \in Views /\ z.doc = doc' /\ z.rt = rt' /\ z.mark = mark' /\ z.down = down' /\ z.up = up'
      /\ z.ver = verifying' /\ z.link = link' /\ z.dead = dead'
  BY NextView
<1>3. Ordered(y, Gone(y))
  BY DEF InOrder
<1> HIDE DEF y, z
<1>4. /\ link[d].sock = None /\ Owner[s] = d /\ Fresh(s)
      /\ rt' = [rt EXCEPT ![s] = "open"] /\ up' = [up EXCEPT ![s] = <<Word("arrive")>>] /\ dead' = dead \ {s}
      /\ link' = [link EXCEPT ![d] = l] /\ down' = [down EXCEPT ![s] = <<>>]
      /\ UNCHANGED <<doc, mark, verifying>>
  BY DEF Dial, Dialled
<1>5. /\ rt \in [Socket -> Runtime] /\ up \in [Socket -> Seq(Frames)] /\ down \in [DSocket -> Seq(Frames)]
      /\ link \in [Daemon -> LinkType] /\ s \in Socket /\ \A x \in DSocket : x # None /\ x \in Socket /\ Owner[x] \in Daemon
      /\ CSocket \subseteq Socket /\ s \notin CSocket
  BY LinkTypes, Distinct, RendezvousAssumption DEF Sound
<1>6. l.sock = s /\ ~l.claimed /\ l.sess = {} /\ l.over = {}
  BY DEF NoLink
<1> HIDE DEF l
<1>7. rt[s] = "gone" /\ s # doc.slot /\ s \notin mark /\ ~Verified(y, s) /\ ~On(y, s)
  <2>1. rt[s] = "gone" /\ s # doc.slot /\ (verifying # None => s # verifying.sock)
    BY <1>4 DEF Fresh
  <2>2. s \notin mark
    BY <2>1 DEF Sound
  <2> QED BY <1>1, <1>4, <1>5, <2>1, <2>2 DEF Verified, On
<1>8. \A x \in Socket : x # s => z.rt[x] = y.rt[x] /\ z.up[x] = y.up[x] /\ (x \in z.dead <=> x \in y.dead)
  BY <1>1, <1>2, <1>4, <1>5
<1>9. ASSUME NEW x \in DSocket, x # s
      PROVE  z.down[x] = y.down[x] /\ (On(z, x) <=> On(y, x)) /\ End(z, x) = End(y, x)
  <2>1. CASE Owner[x] = d
    <3>1. z.link[Owner[x]] = l /\ y.link[Owner[x]].sock = None
      BY <1>1, <1>2, <1>4, <1>5, <2>1
    <3> QED BY <1>1, <1>2, <1>4, <1>5, <1>6, <1>9, <3>1 DEF On, End
  <2>2. CASE Owner[x] # d
    <3>1. z.link[Owner[x]] = y.link[Owner[x]]
      BY <1>1, <1>2, <1>4, <1>5, <2>2
    <3> QED BY <1>1, <1>2, <1>4, <1>5, <1>9, <3>1 DEF On, End
  <2> QED BY <2>1, <2>2
<1>10. ~End(z, s).claimed /\ Known(z, s) = {}
  <2>1. End(z, s) = l
    BY <1>2, <1>4, <1>5, <1>6 DEF End, On
  <2> QED BY <1>6, <2>1 DEF Known
<1>11. z.down[s] = <<>> /\ z.up[s] = <<Word("arrive")>>
  BY <1>2, <1>4, <1>5
<1>12. Gone(z) = Gone(y)
  BY <1>5, <1>8 DEF Gone
<1>13. Ordered(z, Gone(z)) /\ (Agreeing(y, {}) => Agreeing(z, {}))
  <2>1. s # y.doc.slot /\ s \notin y.mark /\ z.doc = y.doc /\ z.mark = y.mark /\ z.ver = y.ver
    BY <1>1, <1>2, <1>4, <1>7
  <2> QED BY <1>1, <1>2, <1>3, <1>7, <1>8, <1>9, <1>10, <1>11, <1>12, <2>1, DialMoves
<1> QED BY <1>13 DEF y, z, InOrder, Accord

LEMMA ClientInOrder ==
  ASSUME Sound, Sound', InOrder, NEW c \in CSocket, ClientDials(c) \/ ClientSends(c) \/ ClientLeaves(c)
  PROVE  InOrder' /\ (Accord => Accord')
PROOF
<1> DEFINE y == Now
           z == Now'
           a == Word("arrive")
<1>1. /\ y \in Views /\ y.doc = doc /\ y.rt = rt /\ y.mark = mark /\ y.down = down /\ y.up = up
      /\ y.ver = verifying /\ y.link = link /\ y.dead = dead
  BY NowIs
<1>2. /\ z \in Views /\ z.doc = doc' /\ z.rt = rt' /\ z.mark = mark' /\ z.down = down' /\ z.up = up'
      /\ z.ver = verifying' /\ z.link = link' /\ z.dead = dead'
  BY NextView
<1>3. Ordered(y, Gone(y))
  BY DEF InOrder
<1>4. Unknown(Now, c) => Unknown(y, c)
  OBVIOUS
<1> HIDE DEF y, z
<1>5. rt \in [Socket -> Runtime] /\ up \in [Socket -> Seq(Frames)] /\ c \in Socket /\ CSocket \subseteq Socket
  BY Distinct DEF Sound
<1>6. ASSUME UNCHANGED <<doc, mark, verifying, down, link>>,
             \A x \in Socket : x # c => rt'[x] = rt[x] /\ up'[x] = up[x] /\ (x \in dead' <=> x \in dead),
             Apart(up'[c], {a}, {a}), a \in Within(up'[c]) => Unknown(y, c),
             rt[c] = "gone" => c \notin doc.sessions \/ rt'[c] = "gone"
      PROVE  InOrder' /\ (Accord => Accord')
  <2>1. z.doc = y.doc /\ z.mark = y.mark /\ z.ver = y.ver /\ z.down = y.down /\ z.link = y.link
    BY <1>1, <1>2, <1>6
  <2>2. \A x \in Socket : x # c => z.rt[x] = y.rt[x] /\ z.up[x] = y.up[x] /\ (x \in z.dead <=> x \in y.dead)
    BY <1>1, <1>2, <1>6
  <2>3. Apart(z.up[c], {Word("arrive")}, {Word("arrive")}) /\ (Newcomer(z, c) => Unknown(y, c))
    BY <1>2, <1>6 DEF Newcomer
  <2>4. y.doc.sessions \cap Gone(y) \subseteq Gone(z)
    BY <1>1, <1>2, <1>5, <1>6 DEF Gone
  <2>5. Ordered(z, Gone(z)) /\ (Agreeing(y, {}) => Agreeing(z, {}))
    <3> DEFINE X == Gone(y)
               U == Gone(z)
    <3>1. X \in SUBSET CSocket /\ U \in SUBSET CSocket
      BY DEF Gone
    <3>2. Ordered(y, X) /\ y.doc.sessions \cap X \subseteq U /\ y \in Views /\ z \in Views
      BY <1>1, <1>2, <1>3, <2>4
    <3> HIDE DEF X, U
    <3>3. Ordered(z, U) /\ (Agreeing(y, {}) => Agreeing(z, {}))
      BY ONLY c \in CSocket, <2>1, <2>2, <2>3, <3>1, <3>2, ClientMoves
    <3> QED BY <3>3 DEF U
  <2> QED BY <2>5 DEF y, z, InOrder, Accord
<1>7. a \in Frames
  BY FrameTypes
<1>8. CASE ClientDials(c)
  <2>1. /\ Fresh(c) /\ rt' = [rt EXCEPT ![c] = "open"] /\ up' = [up EXCEPT ![c] = <<a>>] /\ dead' = dead \ {c}
        /\ UNCHANGED <<doc, mark, verifying, down, link>>
    BY <1>8 DEF ClientDials, Dialled
  <2>2. Unknown(y, c) /\ c \notin doc.sessions
    BY <1>4, <2>1, FreshIsUnknown DEF Fresh
  <2>3. Apart(up'[c], {a}, {a})
    BY <1>5, <1>7, <2>1, QueueOne
  <2>4. \A x \in Socket : x # c => rt'[x] = rt[x] /\ up'[x] = up[x] /\ (x \in dead' <=> x \in dead)
    BY <1>5, <2>1
  <2> QED BY <1>6, <2>1, <2>2, <2>3, <2>4
<1>9. CASE ClientSends(c)
  <2>1. PICK t \in {"data", "closed"} : Say(c, About(t, c))
    BY <1>9 DEF ClientSends
  <2>2. up' = [up EXCEPT ![c] = Append(up[c], About(t, c))] /\ UNCHANGED <<doc, rt, mark, verifying, down, dead, link>>
    BY <1>9, <2>1 DEF ClientSends, Say, relay, ends
  <2>3. About(t, c) \in Frames /\ About(t, c) # a
    BY FrameTypes DEF About, Word
  <2>4. up[c] \in Seq(Frames) /\ up'[c] = Append(up[c], About(t, c))
    BY <1>5, <2>2
  <2>5. Apart(up[c], {a}, {a}) /\ (a \in Within(up[c]) => Unknown(y, c))
    BY <1>1, <1>3 DEF Ordered, NewcomersAreUnknown, Newcomer
  <2>6. Apart(up'[c], {a}, {a}) /\ (a \in Within(up'[c]) => Unknown(y, c))
    <3> HIDE DEF a
    <3> QED BY <2>3, <2>4, <2>5, QueueAppend
  <2>7. \A x \in Socket : x # c => rt'[x] = rt[x] /\ up'[x] = up[x] /\ (x \in dead' <=> x \in dead)
    BY <1>5, <2>2
  <2> QED BY <1>6, <2>2, <2>6, <2>7
<1>10. CASE ClientLeaves(c)
  <2>1. UNCHANGED <<doc, rt, mark, verifying, up, down, dead, link>>
    BY <1>10 DEF ClientLeaves, relay, ends
  <2> QED BY <2>1, SameInOrder
<1> QED BY <1>8, <1>9, <1>10

-----------------------------------------------------------------------------
(* A handler keeps both ends agreed. *)

LEMMA EndingTaken ==
  ASSUME Sound, NEW d \in Docs, NEW e, e.kind = "frame", e.s = d.slot, d.slot # None,
         NEW c \in CSocket, Head(up[e.s]) = Finish(c)
  PROVE  c \notin Reduce(d, e).doc.sessions
PROOF
<1> DEFINE m == Head(up[e.s])
<1>1. m.t = "closed" /\ m.s = c
  BY DEF Finish, About
<1> HIDE DEF m
<1>2. Reduce(d, e) = OnDaemonFrame(d, m)
  <2>1. Reduce(d, e) = OnFrame(d, e.s, m)
    BY <1>1 DEF m, Reduce, IsClaim
  <2> QED BY <2>1 DEF OnFrame
<1>3. CASE c \in d.sessions
  <2> DEFINE f == [d EXCEPT !.sessions = @ \ {c}]
  <2>1. Reduce(d, e) = Step(f, {}, Shut({c}, "said"))
    BY <1>1, <1>2, <1>3 DEF OnDaemonFrame
  <2>2. f.sessions = d.sessions \ {c}
    BY DEF Docs
  <2> HIDE DEF f
  <2> QED BY <2>1, <2>2, SweptIs
<1>4. CASE c \in d.ended \ d.sessions
  <2>1. Reduce(d, e) = Step(d, {}, {})
    BY <1>1, <1>2, <1>4 DEF OnDaemonFrame
  <2> QED BY <1>4, <2>1, SweptIs
<1>5. CASE c \notin d.sessions \cup d.ended /\ d.restored
  <2>1. Reduce(d, e) = Step(EndedByRendezvous(d, {c}), TellDaemon(d, {c}), {})
    BY <1>1, <1>2, <1>5 DEF OnDaemonFrame
  <2>2. EndedByRendezvous(d, {c}).sessions = d.sessions \ {c}
    BY DEF EndedByRendezvous, Docs
  <2> QED BY <2>1, <2>2, SweptIs
<1>6. CASE c \notin d.sessions \cup d.ended /\ ~d.restored
  <2>1. Reduce(d, e) = Step(d, {}, Shut({d.slot}, "protocolError"))
    BY <1>1, <1>2, <1>6 DEF OnDaemonFrame
  <2> QED BY <1>6, <2>1, SweptIs
<1> QED BY <1>3, <1>4, <1>5, <1>6

LEMMA SeenAgrees ==
  ASSUME Sound, InOrder, Accord, NEW w, OfNow(w), NEW e
  PROVE  Agreeing(View(Seen(w, e), up, verifying), {})
PROOF
<1>1. View(w, up, verifying) = Now /\ Now \in Views /\ up \in Queues /\ verifying \in Verdicts /\ w \in Worlds
  BY NowIs DEF OfNow, Sound, Queues, Verdicts
<1>2. CASE Seen(w, e) = w
  BY <1>1, <1>2 DEF Accord
<1>3. CASE Seen(w, e) = ApplyStep(w, Reconcile(doc)) /\ Reconcile(doc) \in Steps
  <2> DEFINE st == Reconcile(doc)
             y == Now
             z == View(ApplyStep(w, st), up, verifying)
             X == Gone(Now)
  <2>1. Orderly(y, st, X) /\ Agreeing(y, {}) /\ y \in Views
    BY <1>1, ReconcileIsOrderly DEF InOrder, Accord
  <2> HIDE DEF st
  <2>2. Applied(y, z, st) /\ z \in Views /\ st \in Steps
    BY <1>1, <1>3, StepsOfViews DEF st
  <2> HIDE DEF y, z, X
  <2>3. {} \cap st.doc.sessions = {}
    OBVIOUS
  <2>4. Agreeing(z, {})
    BY <2>1, <2>2, <2>3, AgreementIsKept
  <2> QED BY <1>3, <2>4 DEF z, st
<1> QED BY <1>2, <1>3, SeenIs

LEMMA TakenAgrees ==
  ASSUME NEW x \in Views, NEW y \in Views, NEW e, TakenFrom(x, y, e), Agreeing(x, {})
  PROVE  Agreeing(y, {c \in CSocket : e.kind = "frame" /\ e.s = x.doc.slot /\ Head(x.up[e.s]) = Finish(c)})
PROOF
<1> DEFINE P == {c \in CSocket : e.kind = "frame" /\ e.s = x.doc.slot /\ Head(x.up[e.s]) = Finish(c)}
           s == x.doc.slot
<1>1. Fewer(x, y) /\ y.doc = x.doc
  BY TakenIsFewer DEF TakenFrom
<1>2. Agreeing(x, P)
  BY DEF Agreeing, Echoed
<1>3. x.doc.sessions \subseteq CSocket /\ (s # None => s \in Socket)
  BY Distinct DEF Views, Docs
<1>4. ASSUME s # None, NEW c \in x.doc.sessions \ P, Finish(c) \in Within(x.up[s])
      PROVE  Finish(c) \in Within(y.up[s])
  <2>1. CASE e.kind = "frame" /\ e.s = s
    <3>1. x.up[s] \in Seq(Frames) /\ x.up[s] # <<>> /\ y.up[s] = Tail(x.up[s])
      BY <1>3, <1>4, <2>1 DEF TakenFrom, Views
    <3>2. Head(x.up[s]) # Finish(c)
      BY <1>3, <2>1
    <3> QED BY <1>4, <3>1, <3>2, QueueTail
  <2>2. CASE ~(e.kind = "frame" /\ e.s = s)
    BY <1>3, <1>4, <2>2 DEF TakenFrom
  <2> QED BY <2>1, <2>2
<1> HIDE DEF P
<1> QED
  <2>1. x.doc.slot # None /\ Linked(y, x.doc.slot) =>
           \A c \in x.doc.sessions \ P : Finish(c) \in Within(x.up[x.doc.slot]) => Finish(c) \in Within(y.up[x.doc.slot])
    BY <1>4
  <2>2. Agreeing(y, P)
    BY <1>1, <1>2, <2>1, FewerAgreement
  <2> QED BY <2>2 DEF P

LEMMA HandleAgrees ==
  ASSUME Sound, HoldersAreMarked, SessionsWereTold, InOrder, Accord, NEW e \in Events, Handle(e)
  PROVE  Accord'
PROOF
<1> DEFINE n == Seen(Due(e), e)
           st == Done(Due(e), e)
           x == View(n, up, verifying)
           y == View(n, Popped(e), None)
           z == View(ApplyStep(n, st), Popped(e), None)
           X == Gone(Now)
<1>1. /\ n \in Worlds /\ y \in Views /\ y.doc = n.doc
      /\ st \in Steps /\ Orderly(y, st, X) /\ st = Reduce(n.doc, e)
  BY HandledViews
<1>2. Applied(y, z, st) /\ z \in Views
  BY HandledViews
<1>3. /\ z.doc = doc' /\ z.rt = rt' /\ z.mark = mark' /\ z.down = down' /\ z.up = up'
      /\ z.link = link' /\ z.dead = dead'
  BY HandledViews
<1>4. Agreeing(x, {})
  BY WorldIs, SeenAgrees
<1> HIDE DEF n, st
<1>5. TakenFrom(x, y, e) /\ x \in Views
  BY <1>1, TakenView
<1>6. x.doc = n.doc /\ x.up = up
  BY <1>1, PoppedIs, ViewIs
<1> DEFINE P == {c \in CSocket : e.kind = "frame" /\ e.s = x.doc.slot /\ Head(x.up[e.s]) = Finish(c)}
<1> HIDE DEF x, y, z, X
<1>7. Agreeing(y, P)
  BY <1>1, <1>4, <1>5, TakenAgrees DEF P
<1>8. P \cap st.doc.sessions = {}
  <2> SUFFICES ASSUME NEW c \in P PROVE c \notin st.doc.sessions
    OBVIOUS
  <2>1. c \in CSocket /\ e.kind = "frame" /\ e.s = n.doc.slot /\ Head(up[e.s]) = Finish(c)
    BY <1>6 DEF P
  <2>2. e.s \in Socket /\ e.s # None /\ n.doc \in Docs
    BY <1>1, <2>1, EventsAre, Distinct DEF Worlds
  <2> QED BY <1>1, <2>1, <2>2, EndingTaken
<1>9. Agreeing(z, {})
  <2> HIDE DEF P
  <2> QED BY <1>1, <1>2, <1>7, <1>8, AgreementIsKept
<1> DEFINE m == Now'
<1>10. m.doc = z.doc /\ m.rt = z.rt /\ m.mark = z.mark /\ m.down = z.down /\ m.up = z.up /\ m.link = z.link /\ m.dead = z.dead
  BY <1>3 DEF Now, View, World
<1> HIDE DEF m
<1>11. Agreeing(m, {})
  <2>1. \A s : /\ End(m, s) = End(z, s) /\ Known(m, s) = Known(z, s)
               /\ Linked(m, s) <=> Linked(z, s)
    BY <1>10 DEF End, Known, Linked, On
  <2> QED BY <1>9, <1>10, <2>1 DEF Agreeing, MarkIsSlots, Opened, Answered, Echoed
<1> QED BY <1>11 DEF m, Accord

-----------------------------------------------------------------------------
(* Order is kept by every step, and accord by every one short of a reset or a
   loss. *)

LEMMA OrderNext ==
  ASSUME Sound, TokensAreSpent, HoldersAreMarked, SessionsWereTold, InOrder, [Next]_vars
  PROVE  InOrder' /\ ((Unreset => Accord) => (Unreset' => Accord'))
PROOF
<1>1. Sound'
  BY SoundNext
<1>2. (Unreset => Accord) /\ Unreset' => Accord
  BY Undisturbed
<1>3. ASSUME UNCHANGED vars PROVE InOrder' /\ (Accord => Accord')
  BY <1>3, SameInOrder DEF vars, relay, wire, ends
<1>4. ASSUME NEW e \in Events, Handle(e) PROVE InOrder' /\ (Accord => Accord')
  BY <1>4, HandleInOrder, HandleAgrees
<1>5. ASSUME NEW s \in Socket, Departed(s) \/ Delist(s) \/ Silence(s) PROVE InOrder' /\ (Accord => Accord')
  BY <1>1, <1>5, RuntimeInOrder
<1>6. ASSUME Reset \/ Forget PROVE InOrder' /\ ~Unreset'
  <2>1. InOrder'
    BY <1>1, <1>6, ResetInOrder, ForgetInOrder
  <2>2. trouble \in [Fault -> Nat]
    BY DEF Sound
  <2>3. trouble'["reset"] # 0 \/ trouble'["forget"] # 0
    <3>1. ASSUME NEW k \in {"reset", "forget"}, Strikes(k) PROVE trouble'[k] # 0
      <4>1. trouble' = [trouble EXCEPT ![k] = trouble[k] + 1] /\ k \in Fault
        BY <3>1 DEF Strikes, Fault
      <4>2. trouble'[k] = trouble[k] + 1 /\ trouble[k] \in Nat
        BY <2>2, <4>1
      <4> QED BY <4>2
    <3>2. Strikes("reset") \/ Strikes("forget")
      BY <1>6 DEF Reset, Forget
    <3> QED BY <3>1, <3>2
  <2> QED BY <2>1, <2>3 DEF Unreset
<1>7. ASSUME NEW d \in Daemon, NEW s \in DSocket, Dial(d, s) PROVE InOrder' /\ (Accord => Accord')
  BY <1>1, <1>7, DialInOrder
<1>8. ASSUME NEW d \in Daemon, Abandon(d) \/ Hear(d) \/ ProbeClaim(d) PROVE InOrder' /\ (Accord => Accord')
  BY <1>1, <1>8, AbandonInOrder, HearInOrder, SayersInOrder
<1>9. ASSUME NEW d \in Daemon, NEW c \in CSocket, Answer(d, c) \/ EndSession(d, c)
      PROVE  InOrder' /\ (Accord => Accord')
  BY <1>1, <1>9, SayersInOrder
<1>10. ASSUME NEW c \in CSocket, ClientDials(c) \/ ClientSends(c) \/ ClientLeaves(c)
       PROVE  InOrder' /\ (Accord => Accord')
  BY <1>1, <1>10, ClientInOrder
<1>11. InOrder' /\ ((Accord => Accord') \/ ~Unreset')
  BY <1>3, <1>4, <1>5, <1>6, <1>7, <1>8, <1>9, <1>10 DEF Next
<1> QED BY <1>2, <1>11

LEMMA OrderInit == Init => InOrder /\ Accord
PROOF
<1> SUFFICES ASSUME Init PROVE InOrder /\ Accord
  OBVIOUS
<1>1. Sound
  BY SoundInit
<1> DEFINE y == Now
<1>2. /\ y.doc = EmptyDoc /\ y.rt = [s \in Socket |-> "gone"] /\ y.mark = {} /\ y.ver = None
      /\ y.up = [s \in Socket |-> <<>>] /\ y.down = [s \in DSocket |-> <<>>]
      /\ y.link = [d \in Daemon |-> NoLink]
  BY <1>1, NowIs DEF Init
<1> HIDE DEF y
<1>3. \A s \in DSocket : s # None /\ s \in Socket /\ Owner[s] \in Daemon
  BY Distinct, RendezvousAssumption
<1>4. \A s \in DSocket : End(y, s) = NoLink /\ ~End(y, s).claimed /\ Known(y, s) = {} /\ End(y, s).sess = {}
  BY <1>2, <1>3 DEF End, Known, NoLink
<1>5. /\ \A s \in Socket : Within(y.up[s]) = {} /\ \A A, B : Apart(y.up[s], A, B)
      /\ \A s \in DSocket : y.down[s] = <<>> /\ Within(y.down[s]) = {} /\ \A A, B : Apart(y.down[s], A, B)
  BY <1>2, QueueNone
<1>6. y.doc.slot = None /\ y.doc.sessions = {} /\ y.doc.ended = {} /\ ~y.doc.restored
  BY <1>2 DEF EmptyDoc
<1>7. QueuesInOrder(y)
  BY <1>3, <1>5 DEF QueuesInOrder, DownInOrder, UpInOrder
<1>8. ClosesAreFair(y)
  BY <1>5 DEF ClosesAreFair
<1>9. ClaimComesFirst(y)
  BY <1>2, <1>3, <1>5 DEF ClaimComesFirst, Apace, Early, Calls, Challenged, Verified
<1>10. NewcomersAreUnknown(y)
  BY <1>5, Distinct DEF NewcomersAreUnknown, Newcomer
<1>11. Bare(y.doc) /\ Unfinished(y) /\ SessionsAreKnown(y) /\ \A X : Opened(y, X)
  BY <1>6 DEF Bare, Unfinished, SessionsAreKnown, Opened
<1>12. \A X : Ordered(y, X)
  BY <1>7, <1>8, <1>9, <1>10, <1>11 DEF Ordered
<1>13. Agreeing(y, {})
  BY <1>2, <1>6, <1>11 DEF Agreeing, MarkIsSlots, Answered, Echoed
<1> QED BY <1>12, <1>13 DEF y, InOrder, Accord

(* A frame that a claiming daemon takes next is none it would be closed for. *)
LEMMA OrderForgives == Sound /\ TokensAreSpent /\ InOrder => CrossingFramesAreForgiven
PROOF
<1> SUFFICES ASSUME Sound, TokensAreSpent, InOrder, NEW d \in Daemon, link[d].sock # None, link[d].claimed,
                    down[link[d].sock] # <<>>
             PROVE  LET s == link[d].sock
                    IN  /\ Head(down[s]) # CloseFrame("protocolError")
                        /\ Head(down[s]).t = "data" => Head(down[s]).s \in link[d].sess \cup link[d].over
  BY DEF CrossingFramesAreForgiven
<1> DEFINE s == link[d].sock
           m == Head(down[s])
           y == Now
<1>1. y.down = down /\ y.link = link /\ Ordered(y, Gone(y))
  BY NowIs DEF InOrder
<1>2. s \in DSocket /\ Owner[s] = d /\ down[s] \in Seq(Frames) /\ m \in Frames
  <2>1. link[d] \in LinkType
    BY LinkTypes
  <2>2. s \in DSocket
    BY <2>1 DEF LinkType
  <2>3. down[s] \in Seq(Frames)
    BY <2>2 DEF Sound
  <2> QED BY <2>2, <2>3 DEF TokensAreSpent
<1>3. /\ m \in Within(down[s])
      /\ Within(down[s]) = {m} \cup Within(Tail(down[s]))
      /\ \A A, B : Apart(down[s], A, B) => (m \in A => B \cap Within(Tail(down[s])) = {})
  BY <1>2, QueueTail
<1> HIDE DEF y, m
<1>4. End(y, s) = link[d]
  BY <1>1, <1>2 DEF End, On
<1>5. m # CloseFrame("protocolError")
  BY <1>1, <1>2, <1>3, <1>4 DEF Ordered, ClosesAreFair, Claims
<1>6. ASSUME m.t = "data" PROVE m.s \in link[d].sess \cup link[d].over
  <2> DEFINE c == m.s
  <2>1. m = Carry(c) /\ c \in CSocket
    BY <1>2, <1>6, FrameShapes
  <2> HIDE DEF c
  <2>2. /\ Apart(down[s], Of(c), {Begin(c)})
        /\ Carry(c) \in Within(down[s]) => c \in Known(y, s) \/ Begin(c) \in Within(down[s])
    BY <1>1, <1>2, <2>1 DEF Ordered, QueuesInOrder, DownInOrder
  <2>3. m \in Of(c) /\ m # Begin(c)
    BY <2>1, FramesDiffer DEF Of
  <2>4. Begin(c) \notin Within(down[s])
    BY <1>3, <2>2, <2>3
  <2> QED BY <1>3, <1>4, <2>1, <2>2, <2>4 DEF Known, c
<1> QED BY <1>5, <1>6 DEF m

(* With nothing on its way, both ends run the same sessions. *)
LEMMA AccordAgrees == Sound /\ (Unreset => Accord) => SessionsAgree
PROOF
<1> SUFFICES ASSUME Sound, Accord, Serving(doc.slot), up[doc.slot] = <<>>, down[doc.slot] = <<>>
             PROVE  link[Owner[doc.slot]].sess = doc.sessions
  BY DEF SessionsAgree, Unreset
<1> DEFINE y == Now
           s == doc.slot
<1>1. y.doc = doc /\ y.rt = rt /\ y.up = up /\ y.down = down /\ y.link = link /\ y.dead = dead /\ Agreeing(y, {})
  BY NowIs DEF Accord
<1> HIDE DEF y
<1>2. s # None /\ Linked(y, s) /\ End(y, s) = link[Owner[s]]
  BY <1>1 DEF Serving, Linked, On, End
<1>3. Within(y.down[s]) = {} /\ Within(y.up[s]) = {}
  BY <1>1, QueueNone
<1>4. s \in DSocket /\ Owner[s] \in Daemon /\ link[Owner[s]] \in LinkType /\ doc.sessions \subseteq CSocket
  <2>1. s \in DSocket /\ doc.sessions \subseteq CSocket
    BY <1>2 DEF Sound, Docs
  <2>2. Owner[s] \in Daemon
    BY <2>1, RendezvousAssumption
  <2> QED BY <2>1, <2>2, LinkTypes
<1>5. ASSUME NEW c \in doc.sessions PROVE c \in link[Owner[s]].sess
  <2>1. c \in Known(y, s)
    BY <1>1, <1>2, <1>3 DEF Agreeing, Opened
  <2>2. c \notin End(y, s).over
    BY <1>1, <1>2, <1>3 DEF Agreeing, Echoed
  <2> QED BY <1>2, <2>1, <2>2 DEF Known
<1>6. ASSUME NEW c \in link[Owner[s]].sess PROVE c \in doc.sessions
  <2>1. c \in CSocket
    BY <1>4 DEF LinkType
  <2> QED BY <1>1, <1>2, <1>3, <2>1 DEF Agreeing, Answered
<1> QED BY <1>5, <1>6

LEMMA CandidInit == Init => HoldersAreMarked /\ SessionsWereTold
BY Distinct DEF Init, HoldersAreMarked, SessionsWereTold, EmptyDoc

(* A daemon that was granted the claim is never closed for a protocol error and
   never handed data of a session it does not know, whatever crossed an ending,
   a supersession, a reset or a loss on the way. *)
THEOREM FramesAreForgiven == Spec => []CrossingFramesAreForgiven
PROOF
<1> DEFINE IInv == Sound /\ TokensAreSpent /\ HoldersAreMarked /\ SessionsWereTold /\ InOrder
<1>1. Init => IInv
  BY SoundInit, TokensInit, CandidInit, OrderInit
<1>2. IInv /\ [Next]_vars => IInv'
  BY SoundNext, TokensNext, CandidNext, OrderNext
<1>3. IInv => CrossingFramesAreForgiven
  BY OrderForgives
<1> QED BY <1>1, <1>2, <1>3, PTL DEF Spec

(* Short of a reset or a loss, once nothing is in flight on the slot's socket its
   daemon runs exactly the sessions the document lists. *)
THEOREM SessionsAreAgreed == Spec => []SessionsAgree
PROOF
<1> DEFINE IInv == /\ Sound /\ TokensAreSpent /\ HoldersAreMarked /\ SessionsWereTold
                   /\ InOrder /\ (Unreset => Accord)
<1>1. Init => IInv
  BY SoundInit, TokensInit, CandidInit, OrderInit
<1>2. IInv /\ [Next]_vars => IInv'
  BY SoundNext, TokensNext, CandidNext, OrderNext
<1>3. IInv => SessionsAgree
  BY AccordAgrees
<1> QED BY <1>1, <1>2, <1>3, PTL DEF Spec

=============================================================================
