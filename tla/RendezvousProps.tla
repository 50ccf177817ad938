--------------------------- MODULE RendezvousProps ---------------------------
(* What a rendezvous promises its daemon and its clients.                    *)
EXTENDS Rendezvous

Frames ==
  [t : {"arrive", "challenge", "claimed", "probe", "held", "ready"}]
    \cup [t : {"claim"}, replaces : DSocket \cup {None}]
    \cup [t : {"open", "closed", "data"}, s : CSocket]
    \cup [t : {"close"}, code : Code]

\* The type of the state: the document names sockets of the right side, a
\* claim is marked only on a socket the runtime lists, and a queued close is
\* of a socket that was reported.
TypeOK ==
  /\ doc \in [slot : DSocket \cup {None}, restored : BOOLEAN,
              pending : SUBSET DSocket, sessions : SUBSET CSocket,
              ended : SUBSET CSocket]
  /\ rt \in [Socket -> {"gone", "open", "closing", "reported"}]
  /\ mark \subseteq DSocket \cap Listed /\ alarm \in BOOLEAN
  /\ \A s \in departing : rt[s] = "reported"
  /\ verifying = None \/ verifying \in [sock : DSocket,
                                        replaces : DSocket \cup {None}]
  /\ \A s \in Socket : \A i \in DOMAIN up[s] : up[s][i] \in Frames
  /\ \A s \in DSocket : \A i \in DOMAIN down[s] : down[s][i] \in Frames
  /\ dead \subseteq Socket /\ left \subseteq Socket
  /\ told \in [CSocket -> Code \cup {None, "ready"}]
  /\ link \in [Daemon -> [sock : DSocket \cup {None}, claimed : BOOLEAN,
                          sess : SUBSET CSocket, over : SUBSET CSocket]]
  /\ keep \in [Daemon -> DSocket \cup {None}]

\* A daemon socket that works at both ends: its path is alive and its daemon
\* was told it holds the claim and is still on it.
Serving(s) ==
  /\ s # None /\ rt[s] = "open" /\ s \notin dead
  /\ link[Owner[s]].sock = s /\ link[Owner[s]].claimed
  /\ \A i \in DOMAIN down[s] : down[s][i].t # "close"

\* The slot is taken from a serving socket by no step of the code, whoever
\* else proves the same key and however its own daemon redials: only the
\* document's own loss empties it.
SlotIsNotStolen ==
  [][ Serving(doc.slot) => doc'.slot = doc.slot \/ trouble' # trouble ]_vars

\* A daemon that holds the claim is never refused for frames that merely
\* crossed an ending, a supersession or a loss: the relay does not close its
\* socket as a protocol error, and it is sent no frame it would do so for.
CrossingFramesAreForgiven ==
  \A d \in Daemon :
    LET s == link[d].sock IN
    (s # None /\ link[d].claimed /\ down[s] # <<>>) =>
      /\ Head(down[s]) # CloseFrame("protocolError")
      /\ Head(down[s]).t = "data" => Head(down[s]).s \in link[d].sess \cup link[d].over

\* A client that arrives is not told the daemon is absent while a daemon is
\* right there on a socket the relay had accepted as its own.
PhoneFindsDaemon ==
  [][ \A c \in CSocket :
        (told[c] = None /\ told'[c] = "daemonAbsent") =>
          ~\E s \in DSocket : Serving(s) ]_vars

\* Short of a reset or a loss, at most one socket carries a claim, and it is
\* the slot's whenever the slot names one.
OneClaim ==
  (trouble["reset"] = 0 /\ trouble["forget"] = 0) =>
    /\ Cardinality(mark) <= 1
    /\ doc.slot # None => mark \subseteq {doc.slot}

\* Wherever a reset cut a handler off and whatever the document lost, it agrees
\* with the sockets once the next frame or sweep is handled: it names no socket
\* the runtime let go of, and no claim stands beside the slot's.
StoresAgree ==
  /\ ({doc.slot} \cup doc.pending \cup doc.sessions) \ {None} \subseteq Listed
  /\ mark \subseteq {doc.slot}
HandlersAgree ==
  [][ \/ StoresAgree'
      \/ ~\E e \in Events : e.kind \in {"frame", "alarm"} /\ Handle(e) ]_vars

\* When nothing is in flight on the slot's socket and nothing was reset, the
\* daemon runs exactly the sessions the document lists.
SessionsAgree ==
  ( /\ Serving(doc.slot) /\ up[doc.slot] = <<>> /\ down[doc.slot] = <<>>
    /\ verifying = None
    /\ trouble["reset"] = 0 /\ trouble["forget"] = 0 )
  => link[Owner[doc.slot]].sess = doc.sessions

\* While the document holds anything a sweep is coming that would clear it.
SweepComing ==
  (Occupied(doc) /\ trouble["reset"] = 0 /\ trouble["forget"] = 0) => alarm

-----------------------------------------------------------------------------
\* The relay's queue runs everything put on it, the runtime reports the closes
\* that reach it and lets go of what was closed, and a daemon reads, gives up
\* and redials.  Nothing makes the runtime notice a path that died in silence.
Fairness ==
  /\ \A s \in Socket : SF_vars(Handle(Event("frame", s)))
  /\ \A s \in Socket : SF_vars(Handle(Event("closed", s)))
  /\ SF_vars(Handle(Event("alarm", None)))
  /\ \A s \in DSocket : WF_vars(Handle(Event("verdict", s)))
  /\ \A s \in Socket : /\ WF_vars(s \notin dead /\ Departed(s))
                       /\ WF_vars(rt[s] # "open" /\ Delist(s))
  /\ \A d \in Daemon :
       /\ WF_vars(\E s \in DSocket : Dial(d, s))
       /\ WF_vars(Hear(d))
       /\ WF_vars(link[d].sock \in dead /\ Abandon(d))

FairSpec == Spec /\ Fairness

\* However paths die and whoever else claims, the slot ends up with a daemon
\* that is itself on the socket it names, over a path that lives, and stays.
Home(d) ==
  doc.slot # None /\ link[d].sock = doc.slot /\ doc.slot \notin dead
DaemonComesBack == <>[](\E d \in Daemon : Home(d))
=============================================================================
