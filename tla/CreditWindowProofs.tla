------------------------- MODULE CreditWindowProofs -------------------------
(* That two honest ends and the rendezvous agree about the credit window,    *)
(* for every width of the window and any number of slots, frames and resets. *)
EXTENDS CreditWindow, TLAPS

-----------------------------------------------------------------------------
(* The inductive invariant: where every frame is, and which total each of    *)
(* the three copies of the allowance has reached.                            *)

\* Totals only grow, and the last is what the receiver has credited.
GrantsGrow ==
  /\ \A i, j \in 1..Len(grants) : i < j => grants[i] < grants[j]
  /\ recv.credited = grants[Len(grants)]

\* A frame sent is on its way or consumed.
FramesCounted == send.sent = recv.consumed + toRecv + toRelay

\* The sender stays inside its allowance, the frame it seals included.
SenderInside ==
  /\ send.allowed = W + grants[arrived]
  /\ send.sent <= send.allowed
  /\ sealing => send.sent < send.allowed

\* Credit is returned for frames consumed and, save one, not waiting.
CreditBehind ==
  /\ recv.credited <= recv.consumed
  /\ recv.credited + backlog <= recv.consumed + 1

\* Until it is reset the rendezvous knows what passed it.
CopyExact ==
  resets = 0 => /\ relay.sent = recv.consumed + toRecv
                /\ relay.allowed = W + grants[passed]

IInv ==
  /\ TypeOK /\ GrantsGrow /\ FramesCounted /\ SenderInside /\ CreditBehind
  /\ CopyExact /\ HonestEndsAgree /\ NoIdleSlot

\* The session starts with every part of the invariant true.
LEMMA InitIInv == Init => IInv
  <1> SUFFICES ASSUME Init PROVE IInv
    OBVIOUS
  <1>1. /\ grants = <<0>> /\ Len(grants) = 1 /\ grants[1] = 0
        /\ grants \in Seq(Nat) /\ grants # <<>>
    BY DEF Init
  <1>2. TypeOK
    <2>1. sealing = FALSE /\ run = FALSE /\ ended = FALSE
      BY DEF Init
    <2>2. /\ send = [sent |-> 0, allowed |-> W]
          /\ relay = send /\ saved = send
          /\ recv = [consumed |-> 0, credited |-> 0]
      BY DEF Init, NewSendWindow
    <2>3. send \in Window
      BY <2>2, WindowAssumption DEF Window
    <2>4. recv \in [consumed : Nat, credited : Nat]
      BY <2>2
    <2>5. /\ waiting \in Nat /\ asked \in Nat /\ resets \in Nat
          /\ toRelay \in Nat /\ toRecv \in Nat /\ backlog \in Nat
          /\ running \in 0..MaxRunning
          /\ passed \in 1..Len(grants) /\ arrived \in 1..passed
      BY <1>1, WindowAssumption DEF Init
    <2>6. QED BY <1>1, <2>1, <2>2, <2>3, <2>4, <2>5 DEF TypeOK
  <1>3. GrantsGrow /\ FramesCounted /\ CreditBehind
    BY <1>1, WindowAssumption
    DEF Init, GrantsGrow, FramesCounted, CreditBehind, NewSendWindow
  <1>4. SenderInside /\ CopyExact /\ HonestEndsAgree /\ NoIdleSlot
    BY <1>1, WindowAssumption
    DEF Init, SenderInside, CopyExact, HonestEndsAgree, NoIdleSlot, NewSendWindow
  <1>5. QED BY <1>2, <1>3, <1>4 DEF IInv

\* A total read earlier is no larger than one read later.
LEMMA GrantsOrdered ==
  ASSUME IInv, NEW i \in 1..Len(grants), NEW j \in 1..Len(grants), i <= j
  PROVE  grants[i] \in Nat /\ grants[j] \in Nat /\ grants[i] <= grants[j]
  <1>1. grants[i] \in Nat /\ grants[j] \in Nat
    BY DEF IInv, TypeOK
  <1>2. i < j => grants[i] < grants[j]
    BY DEF IInv, GrantsGrow
  <1>3. i \in Int /\ j \in Int
    BY DEF IInv, TypeOK
  <1>4. QED BY <1>1, <1>2, <1>3

\* The window bounds what the receiver has not begun.
LEMMA WindowBound ==
  ASSUME IInv
  PROVE  /\ send.sent <= W + recv.credited
         /\ toRelay + toRecv + backlog <= W + 1
  <1>1. /\ send.sent \in Nat /\ send.allowed \in Nat
        /\ recv.consumed \in Nat /\ recv.credited \in Nat
        /\ toRelay \in Nat /\ toRecv \in Nat /\ backlog \in Nat
    BY DEF IInv, TypeOK, Window
  <1>2. /\ Len(grants) \in Nat /\ arrived \in 1..Len(grants)
        /\ Len(grants) \in 1..Len(grants) /\ arrived <= Len(grants)
    BY DEF IInv, TypeOK
  <1>3. /\ grants[arrived] <= grants[Len(grants)]
        /\ grants[arrived] \in Nat
    BY <1>2, GrantsOrdered
  <1>4. /\ send.allowed = W + grants[arrived] /\ send.sent <= send.allowed
        /\ recv.credited = grants[Len(grants)]
    BY DEF IInv, SenderInside, GrantsGrow
  <1>5. send.sent <= W + recv.credited
    BY <1>1, <1>3, <1>4, WindowAssumption
  <1>6. /\ send.sent = recv.consumed + toRecv + toRelay
        /\ recv.credited + backlog <= recv.consumed + 1
    BY DEF IInv, FramesCounted, CreditBehind
  <1>7. QED
    BY <1>1, <1>5, <1>6, WindowAssumption

\* The numbers every step reads are numbers.
Numbers ==
  /\ waiting \in Nat /\ asked \in Nat /\ resets \in Nat
  /\ toRelay \in Nat /\ toRecv \in Nat /\ backlog \in Nat
  /\ send.sent \in Nat /\ send.allowed \in Nat
  /\ relay.sent \in Nat /\ relay.allowed \in Nat
  /\ recv.consumed \in Nat /\ recv.credited \in Nat
  /\ Len(grants) \in Nat /\ running \in Nat /\ running <= MaxRunning
  /\ passed \in Nat /\ arrived \in Nat
  /\ 1 <= arrived /\ arrived <= passed /\ passed <= Len(grants)
  /\ grants[arrived] \in Nat /\ grants[passed] \in Nat

LEMMA Counts == ASSUME IInv PROVE Numbers
  <1>1. TypeOK
    BY DEF IInv
  <1>2. /\ waiting \in Nat /\ asked \in Nat /\ resets \in Nat
        /\ toRelay \in Nat /\ toRecv \in Nat /\ backlog \in Nat
    BY <1>1 DEF TypeOK
  <1>3. /\ send.sent \in Nat /\ send.allowed \in Nat
        /\ relay.sent \in Nat /\ relay.allowed \in Nat
        /\ recv.consumed \in Nat /\ recv.credited \in Nat
    BY <1>1 DEF TypeOK, Window
  <1>4. running \in Nat /\ running <= MaxRunning
    BY <1>1, WindowAssumption DEF TypeOK
  <1>5. /\ grants \in Seq(Nat) /\ Len(grants) \in Nat
        /\ passed \in 1..Len(grants) /\ arrived \in 1..passed
    BY <1>1 DEF TypeOK
  <1>6. /\ passed \in Nat /\ arrived \in Nat
        /\ 1 <= arrived /\ arrived <= passed /\ passed <= Len(grants)
        /\ grants[arrived] \in Nat /\ grants[passed] \in Nat
    BY <1>5
  <1>7. QED BY <1>2, <1>3, <1>4, <1>5, <1>6 DEF Numbers

-----------------------------------------------------------------------------
(* Grants: what a receiver adds to them, and what a reader finds.            *)

\* Credit returned for c frames consumed and b waiting is a total above the
\* last one and within what was consumed and begun.
LEMMA CreditReturned ==
  ASSUME IInv, NEW c \in Nat, NEW b \in Nat,
         recv.credited + b <= c, ReturnCredit(c, b)
  PROVE  /\ recv' \in [consumed : Nat, credited : Nat]
         /\ recv'.consumed = c
         /\ recv'.credited + b <= c
         /\ grants' \in Seq(Nat) /\ grants' # <<>>
         /\ Len(grants) <= Len(grants') /\ Len(grants') \in Nat
         /\ \A i \in 1..Len(grants) : grants'[i] = grants[i]
         /\ GrantsGrow'
  <1> DEFINE owed == CreditToReturn(c - b, recv.credited)
  <1>1. /\ recv.credited \in Nat /\ Len(grants) \in Nat
        /\ grants \in Seq(Nat) /\ grants # <<>> /\ Len(grants) >= 1
        /\ recv.credited = grants[Len(grants)]
        /\ \A i, j \in 1..Len(grants) : i < j => grants[i] < grants[j]
        /\ \A i \in 1..Len(grants) : grants[i] \in Nat
    BY SMTT(20) DEF IInv, TypeOK, GrantsGrow
  <1>2. W \div 2 \in Nat
    BY WindowAssumption
  <1>3. owed \in Nat /\ recv.credited + owed + b <= c
    BY <1>1, <1>2 DEF CreditToReturn
  <1>4. /\ recv' = [consumed |-> c, credited |-> recv.credited + owed]
        /\ grants' = IF owed = 0 THEN grants
                     ELSE Append(grants, recv.credited + owed)
    BY DEF ReturnCredit
  <1> HIDE DEF owed
  <1>5. CASE owed = 0
    <2>1. grants' = grants /\ recv'.credited = recv.credited /\ recv'.consumed = c
      BY <1>1, <1>4, <1>5
    <2>2. GrantsGrow'
      BY <1>1, <2>1 DEF GrantsGrow
    <2>3. QED BY <1>1, <1>3, <1>4, <1>5, <2>1, <2>2
  <1>6. CASE owed # 0
    <2> DEFINE total == recv.credited + owed
    <2>1. total \in Nat /\ total > recv.credited
      BY <1>1, <1>3, <1>6
    <2>2. grants' = Append(grants, total) /\ recv'.credited = total /\ recv'.consumed = c
      BY <1>4, <1>6
    <2> HIDE DEF total
    <2>3. /\ grants' \in Seq(Nat) /\ Len(grants') = Len(grants) + 1
          /\ grants'[Len(grants) + 1] = total
          /\ \A i \in 1..Len(grants) : grants'[i] = grants[i]
      BY <1>1, <2>1, <2>2
    <2>4. ASSUME NEW i \in 1..Len(grants'), NEW j \in 1..Len(grants'), i < j
          PROVE  grants'[i] < grants'[j]
      <3>1. CASE j <= Len(grants)
        <4>1. i \in 1..Len(grants) /\ j \in 1..Len(grants)
          BY <1>1, <2>3, <2>4, <3>1
        <4>2. grants[i] < grants[j]
          BY <1>1, <2>4, <4>1
        <4>3. QED BY <2>3, <4>1, <4>2
      <3>2. CASE j = Len(grants) + 1
        <4>1. i \in 1..Len(grants) /\ grants'[i] = grants[i] /\ grants[i] \in Nat
          BY <1>1, <2>3, <2>4, <3>2
        <4>2. grants[i] <= grants[Len(grants)]
          <5>1. Len(grants) \in 1..Len(grants) /\ i <= Len(grants)
            BY <1>1, <4>1
          <5>2. QED BY <4>1, <5>1, GrantsOrdered
        <4>3. QED BY <1>1, <2>1, <2>3, <3>2, <4>1, <4>2
      <3>3. QED BY <1>1, <2>3, <3>1, <3>2
    <2>5. GrantsGrow'
      BY <1>1, <2>2, <2>3, <2>4 DEF GrantsGrow
    <2>6. grants' # <<>>
      BY <1>1, <2>3
    <2>7. recv'.credited + b <= c
      BY <1>3, <2>2 DEF total
    <2>8. recv' \in [consumed : Nat, credited : Nat]
      BY <1>4, <2>1 DEF total
    <2>9. QED BY <1>1, <2>2, <2>3, <2>5, <2>6, <2>7, <2>8
  <1>7. QED BY <1>5, <1>6

\* A grant not yet read is positive, and takes its reader to the next total.
LEMMA GrantPositive ==
  ASSUME IInv, NEW i \in 1..Len(grants), i < Len(grants)
  PROVE  /\ Grant(i) \in Nat \ {0}
         /\ grants[i] + Grant(i) = grants[i + 1]
         /\ grants[i + 1] \in Nat /\ grants[i + 1] <= recv.credited
  <1>1. /\ Len(grants) \in Nat /\ i + 1 \in 1..Len(grants)
        /\ Len(grants) \in 1..Len(grants)
    BY DEF IInv, TypeOK
  <1>2. /\ grants[i] \in Nat /\ grants[i + 1] \in Nat
        /\ grants[i + 1] <= grants[Len(grants)]
    BY <1>1, GrantsOrdered
  <1>3. grants[i] < grants[i + 1]
    BY <1>1 DEF IInv, GrantsGrow
  <1>4. recv.credited = grants[Len(grants)]
    BY DEF IInv, GrantsGrow
  <1>5. QED BY <1>2, <1>3, <1>4 DEF Grant

-----------------------------------------------------------------------------
(* One lemma per step of the sender.                                         *)

LEMMA QueueStep == ASSUME IInv, Queue PROVE IInv'
  <1>0. Numbers
    BY Counts
  <1>queued. waiting' = waiting + 1 /\ asked' = asked + 1 /\ run' = TRUE
    BY DEF Queue
  <1>nums. waiting \in Nat /\ asked \in Nat
    BY <1>0 DEF Numbers
  <1>moved. waiting' = waiting + 1 /\ asked' = asked + 1
    BY <1>queued
  <1>1. waiting' \in Nat /\ asked' \in Nat /\ waiting' > 0
    BY <1>nums, <1>moved
  <1>2. UNCHANGED <<sealing, send, carrier, receiver, toRelay, toRecv,
                    passed, arrived, ended>>
    BY DEF Queue
  <1>3. TypeOK'
    BY <1>queued, <1>1, <1>2 DEF IInv, TypeOK, Window, carrier, receiver
  <1>4. GrantsGrow' /\ FramesCounted' /\ SenderInside' /\ CreditBehind'
    BY <1>2
    DEF IInv, GrantsGrow, FramesCounted, SenderInside, CreditBehind, carrier,
        receiver
  <1>5. CopyExact' /\ HonestEndsAgree' /\ NoIdleSlot'
    BY <1>2 DEF IInv, CopyExact, HonestEndsAgree, NoIdleSlot, carrier, receiver
  <1>6. QED BY <1>3, <1>4, <1>5 DEF IInv

LEMMA SealStep == ASSUME IInv, Seal PROVE IInv'
  <1>1. UNCHANGED <<waiting, send, asked, carrier, receiver, toRelay, toRecv,
                    passed, arrived, ended>>
    BY DEF Seal
  <1>2. /\ sealing' \in BOOLEAN /\ run' \in BOOLEAN
        /\ sealing' => waiting > 0 /\ send.sent < send.allowed
    BY DEF Seal, MaySend, IInv, TypeOK
  <1>3. TypeOK'
    BY <1>1, <1>2 DEF IInv, TypeOK, Window, carrier, receiver
  <1>4. GrantsGrow' /\ FramesCounted' /\ CreditBehind'
    BY <1>1 DEF IInv, GrantsGrow, FramesCounted, CreditBehind, carrier, receiver
  <1>5. SenderInside'
    BY <1>1, <1>2 DEF IInv, SenderInside, receiver
  <1>6. CopyExact' /\ HonestEndsAgree' /\ NoIdleSlot'
    BY <1>1 DEF IInv, CopyExact, HonestEndsAgree, NoIdleSlot, carrier, receiver
  <1>7. QED BY <1>3, <1>4, <1>5, <1>6 DEF IInv

LEMMA EmitStep == ASSUME IInv, Emit PROVE IInv'
  <1>0. Numbers
    BY Counts
  <1>1. UNCHANGED <<run, asked, carrier, receiver, toRecv, passed, arrived, ended>>
    BY DEF Emit
  <1>2. sealing /\ sealing' = FALSE
    BY DEF Emit
  <1>3. /\ waiting' \in Nat /\ toRelay' \in Nat /\ send' \in Window
        /\ toRelay' = toRelay + 1
        /\ send'.sent = send.sent + 1 /\ send'.allowed = send.allowed
    <2>1. /\ waiting' = waiting - 1 /\ toRelay' = toRelay + 1
          /\ send' = [send EXCEPT !.sent = @ + 1]
      BY DEF Emit, RecordSent
    <2>2. waiting > 0
      BY <1>2 DEF IInv, TypeOK
    <2>3. waiting \in Nat /\ toRelay \in Nat /\ send \in Window
      BY DEF IInv, TypeOK
    <2>4. QED BY <2>1, <2>2, <2>3 DEF Window
  <1>4. TypeOK'
    BY <1>1, <1>2, <1>3 DEF IInv, TypeOK, carrier, receiver
  <1>5. GrantsGrow' /\ CreditBehind'
    BY <1>1 DEF IInv, GrantsGrow, CreditBehind, receiver
  <1>6. FramesCounted'
    <2>1. send.sent = recv.consumed + toRecv + toRelay
      BY DEF IInv, FramesCounted
    <2>2. recv' = recv /\ toRecv' = toRecv
      BY <1>1 DEF receiver
    <2>nums. /\ send.sent \in Nat /\ recv.consumed \in Nat
          /\ toRecv \in Nat /\ toRelay \in Nat
      BY <1>0 DEF Numbers
    <2>moved. send'.sent = send.sent + 1 /\ toRelay' = toRelay + 1
      BY <1>3
    <2>3. send'.sent = recv.consumed + toRecv + toRelay'
      BY <2>nums, <2>moved, <2>1
    <2>4. QED BY <2>2, <2>3 DEF FramesCounted
  <1>7. SenderInside'
    <2>1. send.sent < send.allowed /\ send.allowed = W + grants[arrived]
      BY <1>2 DEF IInv, SenderInside
    <2>2. arrived' = arrived /\ grants' = grants
      BY <1>1 DEF receiver
    <2>3. send'.sent <= send'.allowed /\ send'.allowed = W + grants'[arrived']
      BY <1>0, <1>3, <2>1, <2>2 DEF Numbers
    <2>4. QED BY <1>2, <2>3 DEF SenderInside
  <1>8. CopyExact' /\ HonestEndsAgree' /\ NoIdleSlot'
    BY <1>1 DEF IInv, CopyExact, HonestEndsAgree, NoIdleSlot, carrier, receiver
  <1>9. QED BY <1>4, <1>5, <1>6, <1>7, <1>8 DEF IInv

\* A grant finds its window below the ceiling: the allowance moves by all of it.
LEMMA GrantTakenWhole ==
  ASSUME NEW w \in Window, NEW n \in Nat \ {0}, w.allowed + n <= w.sent + W
  PROVE  /\ GrantCredit(w, n) = [sent |-> w.sent, allowed |-> w.allowed + n]
         /\ GrantCredit(w, n) \in Window
         /\ GrantCredit(w, n).allowed = w.allowed + n
         /\ GrantCredit(w, n).allowed # w.allowed
  BY WindowAssumption DEF GrantCredit, Window

LEMMA OnCreditStep == ASSUME IInv, OnCredit PROVE IInv'
  <1>0. Numbers
    BY Counts
  <1> DEFINE n == Grant(arrived)
             granted == GrantCredit(send, n)
  <1>1. /\ arrived \in 1..Len(grants) /\ arrived < Len(grants) /\ arrived < passed
        /\ passed <= Len(grants)
    BY DEF OnCredit, IInv, TypeOK
  <1>2. /\ n \in Nat \ {0} /\ grants[arrived] + n = grants[arrived + 1]
        /\ grants[arrived + 1] \in Nat /\ grants[arrived + 1] <= recv.credited
    BY <1>1, GrantPositive
  <1> HIDE DEF n
  <1>3. send.allowed + n = W + grants[arrived + 1]
    <2>1. send.allowed = W + grants[arrived]
      BY DEF IInv, SenderInside
    <2>2. QED BY <1>0, <1>2, <2>1, WindowAssumption DEF Numbers
  <1>4. recv.credited <= send.sent
    <2>1. /\ send.sent = recv.consumed + toRecv + toRelay
          /\ recv.credited <= recv.consumed
      BY DEF IInv, FramesCounted, CreditBehind
    <2>2. QED BY <1>0, <2>1 DEF Numbers
  <1>5. /\ granted \in Window /\ granted.allowed = W + grants[arrived + 1]
        /\ granted.sent = send.sent /\ granted.allowed # send.allowed
        /\ granted.allowed > send.allowed
    <2>1. send.allowed + n <= send.sent + W
      <3>1. grants[arrived + 1] <= send.sent
        BY <1>0, <1>2, <1>4, SMTT(20) DEF Numbers
      <3>2. QED BY <1>0, <1>2, <1>3, <3>1, WindowAssumption DEF Numbers
    <2>2. send \in Window
      BY DEF IInv, TypeOK
    <2>3. granted = [sent |-> send.sent, allowed |-> send.allowed + n]
      BY <1>2, <2>1, <2>2, GrantTakenWhole
    <2> HIDE DEF granted
    <2>4. send.allowed + n \in Nat /\ send.allowed + n > send.allowed
      <3>1. send.allowed \in Nat /\ n \in Nat /\ n > 0
        BY <1>0, <1>2 DEF Numbers
      <3>2. QED BY <3>1
    <2>5. granted \in Window
      BY <1>0, <2>3, <2>4 DEF Numbers, Window
    <2>6. QED BY <1>3, <2>3, <2>4, <2>5
  <1>6. /\ send' = granted /\ arrived' = arrived + 1 /\ run' = TRUE
        /\ ended' = ended
        /\ UNCHANGED <<waiting, sealing, asked, carrier, receiver, toRelay,
                       toRecv, passed>>
    BY <1>5 DEF OnCredit, n
  <1> HIDE DEF granted
  <1>7. TypeOK'
    <2>1. arrived' \in 1..passed
      <3>1. arrived' = arrived + 1
        BY <1>6
      <3>2. QED BY <1>0, <1>1, <3>1 DEF Numbers
    <2>2. QED BY <1>5, <1>6, <2>1 DEF IInv, TypeOK, Window, carrier, receiver
  <1>8. GrantsGrow' /\ CreditBehind' /\ FramesCounted'
    BY <1>5, <1>6 DEF IInv, GrantsGrow, CreditBehind, FramesCounted, receiver
  <1>9. SenderInside'
    <2>1. /\ send.sent <= send.allowed /\ sealing' = sealing
          /\ grants' = grants /\ arrived' = arrived + 1 /\ send' = granted
      BY <1>6 DEF IInv, SenderInside, receiver
    <2>2. /\ send'.allowed = W + grants'[arrived']
          /\ send'.sent = send.sent /\ send'.allowed > send.allowed
      BY <1>5, <2>1
    <2>3. send'.sent <= send'.allowed /\ send'.sent < send'.allowed
      BY <1>0, <2>1, <2>2, <1>5, SMTT(20) DEF Numbers, Window
    <2>4. QED BY <2>2, <2>3 DEF SenderInside
  <1>10. CopyExact' /\ HonestEndsAgree' /\ NoIdleSlot'
    BY <1>6 DEF IInv, CopyExact, HonestEndsAgree, NoIdleSlot, carrier, receiver
  <1>11. QED BY <1>7, <1>8, <1>9, <1>10 DEF IInv

-----------------------------------------------------------------------------
(* One lemma per step of the rendezvous.                                     *)

\* Whoever has read the grants up to i, the last is no smaller.
LEMMA LastGrant ==
  ASSUME IInv, NEW i \in 1..Len(grants)
  PROVE  grants[i] \in Nat /\ grants[i] <= recv.credited
  <1>1. Len(grants) \in 1..Len(grants) /\ i <= Len(grants)
    BY DEF IInv, TypeOK
  <1>2. grants[i] \in Nat /\ grants[i] <= grants[Len(grants)]
    BY <1>1, GrantsOrdered
  <1>3. QED BY <1>2 DEF IInv, GrantsGrow

\* The rendezvous has passed on every grant the sender has, so a frame the
\* sender was allowed is one the rendezvous allows.
LEMMA FrameAllowed ==
  ASSUME IInv, resets = 0, toRelay > 0
  PROVE  relay.sent < relay.allowed
  <1>1. /\ arrived \in 1..Len(grants) /\ passed \in 1..Len(grants)
        /\ arrived <= passed
    BY DEF IInv, TypeOK
  <1>2. /\ grants[arrived] <= grants[passed]
        /\ grants[arrived] \in Nat /\ grants[passed] \in Nat
    BY <1>1, GrantsOrdered
  <1>3. /\ send.sent = recv.consumed + toRecv + toRelay
        /\ send.sent <= send.allowed /\ send.allowed = W + grants[arrived]
        /\ relay.sent = recv.consumed + toRecv
        /\ relay.allowed = W + grants[passed]
    BY DEF IInv, FramesCounted, SenderInside, CopyExact
  <1>4. /\ recv.consumed \in Nat /\ toRecv \in Nat /\ toRelay \in Nat
    BY Counts DEF Numbers
  <1>5. QED BY <1>2, <1>3, <1>4, WindowAssumption

LEMMA PassFrameStep == ASSUME IInv, PassFrame PROVE IInv'
  <1>1. UNCHANGED <<sender, receiver, saved, resets, passed, arrived>>
    BY DEF PassFrame
  <1>2. /\ toRelay \in Nat /\ toRecv \in Nat /\ relay \in Window
        /\ relay.sent \in Nat /\ recv.consumed \in Nat /\ resets \in Nat
    BY Counts DEF Numbers, IInv, TypeOK
  <1>3. toRelay > 0
    BY DEF PassFrame
  <1>4. GrantsGrow' /\ SenderInside' /\ CreditBehind' /\ NoIdleSlot'
    BY <1>1
    DEF IInv, GrantsGrow, SenderInside, CreditBehind, NoIdleSlot, sender, receiver
  <1>5. CASE MaySend(relay)
    <2>1. /\ relay' = [relay EXCEPT !.sent = @ + 1] /\ ended' = ended
          /\ toRelay' = toRelay - 1 /\ toRecv' = toRecv + 1
      BY <1>5 DEF PassFrame, RecordSent
    <2>2. toRelay' = toRelay - 1 /\ toRecv' = toRecv + 1
      BY <2>1
    <2>3. toRelay' \in Nat /\ toRecv' \in Nat
      BY <1>2, <1>3, <2>2
    <2>4. /\ relay' \in Window /\ relay'.sent = relay.sent + 1
          /\ relay'.allowed = relay.allowed
      BY <1>2, <2>1 DEF Window
    <2>5. TypeOK'
      BY <1>1, <2>1, <2>3, <2>4 DEF IInv, TypeOK, Window, sender, receiver
    <2>6. FramesCounted'
      <3>1. send.sent = recv.consumed + toRecv + toRelay
        BY DEF IInv, FramesCounted
      <3>2. send' = send /\ recv' = recv
        BY <1>1 DEF sender, receiver
      <3>3. send.sent = recv.consumed + toRecv' + toRelay'
        BY <1>2, <2>2, <3>1
      <3>4. QED BY <3>2, <3>3 DEF FramesCounted
    <2>7. CopyExact'
      <3>1. UNCHANGED <<recv, grants, resets, passed>>
        BY <1>1 DEF receiver
      <3>2. SUFFICES ASSUME resets = 0
                     PROVE  /\ relay'.sent = recv.consumed + toRecv'
                            /\ relay'.allowed = W + grants[passed]
        BY <3>1 DEF CopyExact
      <3>3. /\ relay.sent = recv.consumed + toRecv
            /\ relay.allowed = W + grants[passed]
        BY <3>2 DEF IInv, CopyExact
      <3>4. relay'.sent = relay.sent + 1 /\ relay'.allowed = relay.allowed
        BY <2>4
      <3>5. QED BY <1>2, <2>2, <3>3, <3>4
    <2>8. HonestEndsAgree'
      BY <1>1, <2>1 DEF IInv, HonestEndsAgree
    <2>9. QED BY <1>4, <2>5, <2>6, <2>7, <2>8 DEF IInv
  <1>6. CASE ~MaySend(relay)
    <2>1. ended' = TRUE /\ UNCHANGED <<relay, toRelay, toRecv>>
      BY <1>6 DEF PassFrame
    <2>2. resets # 0
      BY <1>3, <1>6, FrameAllowed DEF MaySend
    <2>3. TypeOK'
      BY <1>1, <2>1 DEF IInv, TypeOK, Window, sender, receiver
    <2>4. FramesCounted' /\ CopyExact'
      BY <1>1, <2>1 DEF IInv, FramesCounted, CopyExact, sender, receiver
    <2>5. HonestEndsAgree'
      BY <1>1, <2>2 DEF HonestEndsAgree
    <2>6. QED BY <1>4, <2>3, <2>4, <2>5 DEF IInv
  <1>7. QED BY <1>5, <1>6

LEMMA GrantCreditTyped ==
  ASSUME NEW w \in Window, NEW n \in Nat
  PROVE  GrantCredit(w, n) \in Window /\ GrantCredit(w, n).sent = w.sent
  BY WindowAssumption DEF GrantCredit, Window

\* A grant the rendezvous has not passed fits under its own ceiling.
LEMMA GrantAllowed ==
  ASSUME IInv, resets = 0, passed < Len(grants)
  PROVE  LET n == Grant(passed) IN
         /\ n \in Nat \ {0}
         /\ relay.allowed + n <= relay.sent + W
         /\ relay.allowed + n = W + grants[passed + 1]
  <1> DEFINE n == Grant(passed)
  <1>1. passed \in 1..Len(grants)
    BY DEF IInv, TypeOK
  <1>2. /\ n \in Nat \ {0} /\ grants[passed] + n = grants[passed + 1]
        /\ grants[passed + 1] \in Nat /\ grants[passed + 1] <= recv.credited
    BY <1>1, GrantPositive
  <1> HIDE DEF n
  <1>3. /\ relay.sent = recv.consumed + toRecv
        /\ relay.allowed = W + grants[passed] /\ recv.credited <= recv.consumed
    BY DEF IInv, CopyExact, CreditBehind
  <1>4. /\ recv.consumed \in Nat /\ recv.credited \in Nat /\ toRecv \in Nat
        /\ grants[passed] \in Nat
    BY Counts DEF Numbers
  <1>5. relay.allowed + n = W + grants[passed + 1]
    BY <1>2, <1>3, <1>4, WindowAssumption
  <1>6. grants[passed + 1] <= recv.consumed + toRecv
    BY <1>2, <1>3, <1>4
  <1>7. relay.allowed + n <= relay.sent + W
    <2>1. /\ relay.sent \in Nat /\ grants[passed + 1] \in Nat
          /\ grants[passed + 1] <= relay.sent
      BY <1>2, <1>3, <1>4, <1>6
    <2>2. W + grants[passed + 1] <= relay.sent + W
      BY <2>1, WindowAssumption
    <2>3. QED BY <1>5, <2>2
  <1>8. QED BY <1>2, <1>5, <1>7 DEF n

LEMMA PassCreditStep == ASSUME IInv, PassCredit PROVE IInv'
  <1> DEFINE n == Grant(passed)
             granted == GrantCredit(relay, n)
  <1>1. /\ UNCHANGED <<sender, receiver, saved, resets, toRelay, toRecv, arrived>>
        /\ passed < Len(grants) /\ ~ended
    BY DEF PassCredit
  <1>2. /\ passed \in 1..Len(grants) /\ arrived \in 1..passed
        /\ Len(grants) \in Nat /\ relay \in Window
    BY DEF IInv, TypeOK
  <1>3. n \in Nat
    BY <1>1, <1>2, GrantPositive
  <1>4. granted \in Window /\ granted.sent = relay.sent
    BY <1>2, <1>3, GrantCreditTyped
  <1>5. resets = 0 => /\ granted.allowed = W + grants[passed + 1]
                      /\ granted.allowed # relay.allowed
    BY <1>1, <1>2, GrantAllowed, GrantTakenWhole
  <1>6. GrantsGrow' /\ FramesCounted' /\ SenderInside' /\ CreditBehind' /\ NoIdleSlot'
    BY <1>1
    DEF IInv, GrantsGrow, FramesCounted, SenderInside, CreditBehind, NoIdleSlot,
        sender, receiver
  <1>7. CASE granted.allowed # relay.allowed
    <2>1. relay' = granted /\ passed' = passed + 1 /\ ended' = ended
      BY <1>7 DEF PassCredit
    <2>2. passed' \in 1..Len(grants) /\ arrived \in 1..passed'
      <3>1. passed' = passed + 1 /\ passed < Len(grants)
        BY <1>1, <2>1
      <3>2. QED BY <1>2, <3>1
    <2> HIDE DEF granted
    <2>3. TypeOK'
      BY <1>1, <1>4, <2>1, <2>2 DEF IInv, TypeOK, Window, sender, receiver
    <2>4. CopyExact'
      <3>1. UNCHANGED <<recv, grants, resets, toRecv>>
        BY <1>1 DEF receiver
      <3>2. resets = 0 => relay.sent = recv.consumed + toRecv
        BY DEF IInv, CopyExact
      <3>3. resets = 0 => /\ relay'.sent = recv.consumed + toRecv
                          /\ relay'.allowed = W + grants[passed']
        BY <1>4, <1>5, <2>1, <3>2
      <3>4. QED BY <3>1, <3>3 DEF CopyExact
    <2>5. HonestEndsAgree'
      BY <1>1, <2>1 DEF IInv, HonestEndsAgree
    <2>6. QED BY <1>6, <2>3, <2>4, <2>5 DEF IInv
  <1>8. CASE granted.allowed = relay.allowed
    <2>1. ended' = TRUE /\ UNCHANGED <<relay, passed>>
      BY <1>8 DEF PassCredit
    <2>2. resets # 0
      BY <1>5, <1>8
    <2> HIDE DEF granted
    <2>3. TypeOK'
      BY <1>1, <2>1 DEF IInv, TypeOK, Window, sender, receiver
    <2>4. CopyExact' /\ HonestEndsAgree'
      BY <1>1, <2>2 DEF CopyExact, HonestEndsAgree
    <2>5. QED BY <1>6, <2>3, <2>4 DEF IInv
  <1>9. QED BY <1>7, <1>8

LEMMA ConfirmStep == ASSUME IInv, Confirm PROVE IInv'
  <1>1. /\ saved' = relay
        /\ UNCHANGED <<sender, receiver, relay, resets, toRelay, toRecv, passed,
                       arrived, ended>>
    BY DEF Confirm
  <1>2. TypeOK'
    BY <1>1 DEF IInv, TypeOK, Window, sender, receiver
  <1>3. /\ GrantsGrow' /\ FramesCounted' /\ SenderInside' /\ CreditBehind'
        /\ CopyExact' /\ HonestEndsAgree' /\ NoIdleSlot'
    BY <1>1
    DEF IInv, GrantsGrow, FramesCounted, SenderInside, CreditBehind, CopyExact,
        HonestEndsAgree, NoIdleSlot, sender, receiver
  <1>4. QED BY <1>2, <1>3 DEF IInv

LEMMA ResetStep == ASSUME IInv, Reset PROVE IInv'
  <1>1. /\ relay' = saved /\ resets' = resets + 1
        /\ UNCHANGED <<sender, receiver, saved, toRelay, toRecv, passed, arrived,
                       ended>>
    BY DEF Reset
  <1>2. resets' \in Nat /\ resets' # 0
    <2>1. resets \in Nat
      BY DEF IInv, TypeOK
    <2>2. resets' = resets + 1
      BY <1>1
    <2>3. QED BY <2>1, <2>2
  <1>3. TypeOK'
    BY <1>1, <1>2 DEF IInv, TypeOK, Window, sender, receiver
  <1>4. CopyExact' /\ HonestEndsAgree'
    BY <1>2 DEF CopyExact, HonestEndsAgree
  <1>5. /\ GrantsGrow' /\ FramesCounted' /\ SenderInside' /\ CreditBehind'
        /\ NoIdleSlot'
    BY <1>1
    DEF IInv, GrantsGrow, FramesCounted, SenderInside, CreditBehind, NoIdleSlot,
        sender, receiver
  <1>6. QED BY <1>3, <1>4, <1>5 DEF IInv

-----------------------------------------------------------------------------
(* One lemma per step of the receiver.                                       *)

\* What every step that returns credit leaves true of the three copies.
LEMMA CreditReaders ==
  ASSUME IInv, NEW c \in Nat, NEW b \in Nat,
         recv.credited + b <= c, ReturnCredit(c, b),
         send' = send, passed' = passed, arrived' = arrived,
         relay' = relay, resets' = resets, sealing' = sealing
  PROVE  /\ SenderInside' /\ GrantsGrow'
         /\ recv' \in [consumed : Nat, credited : Nat]
         /\ recv'.consumed = c /\ recv'.credited + b <= c
         /\ grants' \in Seq(Nat) /\ grants' # <<>>
         /\ passed \in 1..Len(grants') /\ arrived \in 1..passed
         /\ resets = 0 => relay.allowed = W + grants'[passed]
  <1>1. /\ recv' \in [consumed : Nat, credited : Nat]
        /\ recv'.consumed = c /\ recv'.credited + b <= c
        /\ grants' \in Seq(Nat) /\ grants' # <<>>
        /\ Len(grants) <= Len(grants') /\ Len(grants') \in Nat
        /\ \A i \in 1..Len(grants) : grants'[i] = grants[i]
        /\ GrantsGrow'
    BY CreditReturned
  <1>2. /\ passed \in 1..Len(grants) /\ arrived \in 1..passed
        /\ arrived \in 1..Len(grants) /\ Len(grants) \in Nat
    BY DEF IInv, TypeOK
  <1>3. grants'[passed] = grants[passed] /\ grants'[arrived] = grants[arrived]
    BY <1>1, <1>2
  <1>4. SenderInside'
    BY <1>3 DEF IInv, SenderInside
  <1>5. resets = 0 => relay.allowed = W + grants'[passed]
    BY <1>3 DEF IInv, CopyExact
  <1>6. passed \in 1..Len(grants')
    BY <1>1, <1>2
  <1>7. QED BY <1>1, <1>2, <1>4, <1>5, <1>6

LEMMA ConsumeStep == ASSUME IInv, Consume PROVE IInv'
  <1> DEFINE c == recv.consumed + 1
  <1>1. /\ UNCHANGED <<sender, carrier, toRelay, passed, arrived>>
        /\ ReturnCredit(c, backlog)
        /\ Dispatch \/ UNCHANGED <<running, backlog, ended>>
        /\ toRecv > 0 /\ toRecv' = toRecv - 1 /\ ~ended
    BY DEF Consume
  <1>2. /\ recv.consumed \in Nat /\ recv.credited \in Nat /\ backlog \in Nat
        /\ toRecv \in Nat /\ toRelay \in Nat /\ running \in Nat
    BY Counts DEF Numbers
  <1>3. /\ recv.credited + backlog <= recv.consumed + 1
        /\ recv.credited <= recv.consumed
        /\ send.sent = recv.consumed + toRecv + toRelay
    BY DEF IInv, CreditBehind, FramesCounted
  <1>4. c \in Nat /\ recv.credited + backlog <= c
    BY <1>2, <1>3
  <1>5. /\ send' = send /\ relay' = relay /\ resets' = resets
        /\ sealing' = sealing /\ passed' = passed /\ arrived' = arrived
    BY <1>1 DEF sender, carrier
  <1>6. /\ SenderInside' /\ GrantsGrow'
        /\ recv' \in [consumed : Nat, credited : Nat]
        /\ recv'.consumed = c /\ recv'.credited + backlog <= c
        /\ grants' \in Seq(Nat) /\ grants' # <<>>
        /\ passed \in 1..Len(grants') /\ arrived \in 1..passed
        /\ resets = 0 => relay.allowed = W + grants'[passed]
    BY <1>1, <1>2, <1>4, <1>5, CreditReaders
  <1>7. /\ running' \in 0..MaxRunning /\ backlog' \in Nat
        /\ backlog' <= backlog + 1 /\ ended' = ended
        /\ NoIdleSlot'
    <2>1. running \in 0..MaxRunning /\ (backlog > 0 => running = MaxRunning)
      BY DEF IInv, TypeOK, NoIdleSlot
    <2>2. backlog <= W
      <3>1. send.sent <= W + recv.credited
        BY WindowBound
      <3>2. toRecv > 0
        BY <1>1
      <3>3. QED BY <1>2, <1>3, <3>1, <3>2, WindowAssumption
    <2>3. \/ running < MaxRunning /\ running' = running + 1 /\ backlog' = backlog
          \/ running >= MaxRunning /\ running' = running /\ backlog' = backlog + 1
          \/ running' = running /\ backlog' = backlog
      <3>1. ~(backlog > W)
        BY <1>2, <2>2, WindowAssumption
      <3>2. QED BY <1>1, <3>1 DEF Dispatch
    <2>4. ended' = ended
      <3>1. ~(backlog > W)
        BY <1>2, <2>2, WindowAssumption
      <3>2. QED BY <1>1, <3>1 DEF Dispatch
    <2>5. /\ running' \in 0..MaxRunning /\ backlog' \in Nat
          /\ backlog' <= backlog + 1
          /\ backlog' > 0 => running' = MaxRunning
      BY <1>2, <2>1, <2>3, WindowAssumption
    <2>6. QED BY <2>4, <2>5 DEF NoIdleSlot
  <1>8. toRecv' \in Nat /\ recv'.consumed + toRecv' = recv.consumed + toRecv
    <2>1. toRecv > 0 /\ toRecv' = toRecv - 1 /\ recv'.consumed = recv.consumed + 1
      BY <1>1, <1>6
    <2>2. QED BY <1>2, <2>1
  <1>9. TypeOK'
    BY <1>1, <1>5, <1>6, <1>7, <1>8 DEF IInv, TypeOK, Window, sender, carrier
  <1>10. FramesCounted'
    <2>1. toRelay' = toRelay
      BY <1>1
    <2>2. send.sent = recv'.consumed + toRecv' + toRelay
      BY <1>2, <1>3, <1>8
    <2>3. QED BY <1>5, <2>1, <2>2 DEF FramesCounted
  <1>11. CreditBehind'
    <2>1. recv'.credited \in Nat /\ recv'.consumed = c
      BY <1>6
    <2>2. recv'.credited <= c /\ recv'.credited + backlog' <= c + 1
      BY <1>2, <1>4, <1>6, <1>7, <2>1, SMTT(20)
    <2>3. QED BY <2>1, <2>2 DEF CreditBehind
  <1>12. CopyExact'
    <2>1. resets = 0 => relay.sent = recv.consumed + toRecv
      BY DEF IInv, CopyExact
    <2>2. QED BY <1>5, <1>6, <1>8, <2>1 DEF CopyExact
  <1>13. HonestEndsAgree'
    BY <1>5, <1>7 DEF IInv, HonestEndsAgree
  <1>14. QED BY <1>6, <1>7, <1>9, <1>10, <1>11, <1>12, <1>13 DEF IInv

LEMMA FinishStep == ASSUME IInv, Finish PROVE IInv'
  <1>1. /\ UNCHANGED <<sender, carrier, toRelay, toRecv, passed, arrived, ended>>
        /\ running > 0
    BY DEF Finish
  <1>2. /\ recv.consumed \in Nat /\ recv.credited \in Nat /\ backlog \in Nat
        /\ running \in Nat /\ running \in 0..MaxRunning
    BY Counts DEF Numbers, IInv, TypeOK
  <1>3. CASE backlog = 0
    <2>1. running' = running - 1 /\ UNCHANGED <<backlog, recv, grants>>
      BY <1>2, <1>3 DEF Finish
    <2>2. running' \in 0..MaxRunning
      <3>1. running' = running - 1 /\ running > 0
        BY <1>1, <2>1
      <3>2. QED BY <1>2, <3>1, WindowAssumption
    <2>3. TypeOK'
      BY <1>1, <2>1, <2>2 DEF IInv, TypeOK, Window, sender, carrier
    <2>4. NoIdleSlot'
      BY <1>3, <2>1 DEF NoIdleSlot
    <2>5. /\ GrantsGrow' /\ FramesCounted' /\ SenderInside' /\ CreditBehind'
          /\ CopyExact' /\ HonestEndsAgree'
      BY <1>1, <2>1
      DEF IInv, GrantsGrow, FramesCounted, SenderInside, CreditBehind, CopyExact,
          HonestEndsAgree, sender, carrier
    <2>6. QED BY <2>3, <2>4, <2>5 DEF IInv
  <1>4. CASE backlog > 0
    <2> DEFINE c == recv.consumed
               b == backlog - 1
    <2>1. /\ backlog' = b /\ ReturnCredit(c, b) /\ running' = running
      BY <1>2, <1>4 DEF Finish
    <2>2. b \in Nat /\ b <= backlog
      BY <1>2, <1>4
    <2>3. c \in Nat /\ recv.credited + b <= c
      <3>1. recv.credited + backlog <= recv.consumed + 1
        BY DEF IInv, CreditBehind
      <3>2. QED BY <1>2, <1>4, <3>1
    <2>4. /\ send' = send /\ relay' = relay /\ resets' = resets
          /\ sealing' = sealing /\ passed' = passed /\ arrived' = arrived
      BY <1>1 DEF sender, carrier
    <2> HIDE DEF b
    <2>5. /\ SenderInside' /\ GrantsGrow'
          /\ recv' \in [consumed : Nat, credited : Nat]
          /\ recv'.consumed = c /\ recv'.credited + b <= c
          /\ grants' \in Seq(Nat) /\ grants' # <<>>
          /\ passed \in 1..Len(grants') /\ arrived \in 1..passed
          /\ resets = 0 => relay.allowed = W + grants'[passed]
      BY <2>1, <2>2, <2>3, <2>4, CreditReaders
    <2>6. TypeOK'
      BY <1>1, <1>2, <2>1, <2>2, <2>4, <2>5
      DEF IInv, TypeOK, Window, sender, carrier
    <2>7. FramesCounted' /\ HonestEndsAgree' /\ CopyExact'
      BY <1>1, <2>4, <2>5 DEF IInv, FramesCounted, HonestEndsAgree, CopyExact
    <2>8. CreditBehind'
      <3>1. recv'.credited \in Nat
        BY <2>5
      <3>2. recv'.credited <= c /\ recv'.credited + b <= c + 1
        BY <2>2, <2>3, <2>5, <3>1
      <3>3. QED BY <2>1, <2>5, <3>2 DEF CreditBehind
    <2>9. NoIdleSlot'
      BY <1>4, <2>1 DEF IInv, NoIdleSlot
    <2>10. QED BY <2>5, <2>6, <2>7, <2>8, <2>9 DEF IInv
  <1>5. QED BY <1>2, <1>3, <1>4

-----------------------------------------------------------------------------
(* The theorems.                                                             *)

LEMMA IInvStep == ASSUME IInv, [Next]_vars PROVE IInv'
  <1>1. CASE Next
    BY <1>1, QueueStep, SealStep, EmitStep, OnCreditStep, PassFrameStep,
       PassCreditStep, ConfirmStep, ResetStep, ConsumeStep, FinishStep
    DEF Next
  <1>2. CASE UNCHANGED vars
    BY <1>2
    DEF vars, sender, carrier, receiver, IInv, TypeOK, Window, GrantsGrow,
        FramesCounted, SenderInside, CreditBehind, CopyExact, HonestEndsAgree,
        NoIdleSlot
  <1>3. QED BY <1>1, <1>2

\* The inductive invariant holds of every behaviour.
THEOREM Inductive == Spec => []IInv
  BY InitIInv, IInvStep, PTL DEF Spec

\* Counts and cursors keep their types (flow.ts's windows never leave Nat).
THEOREM WindowTyped == Spec => []TypeOK
  <1>1. IInv => TypeOK
    BY DEF IInv
  <1>2. QED BY <1>1, Inductive, PTL

\* For every width: a rendezvous that forgets nothing never ends a session
\* whose two ends honour the window, and the backlog never overflows.
THEOREM NeverEndedWrongly == Spec => []HonestEndsAgree
  <1>1. IInv => HonestEndsAgree
    BY DEF IInv
  <1>2. QED BY <1>1, Inductive, PTL

\* For every width and any resets: what was sent and not begun is bounded by a
\* window and one record, as #dispatch says.
THEOREM HeldWithinWindow == Spec => []HeldBounded
  <1>1. IInv => HeldBounded
    BY WindowBound DEF HeldBounded
  <1>2. QED BY <1>1, Inductive, PTL

\* A request waits only while every slot is taken.
THEOREM SlotsFull == Spec => []NoIdleSlot
  <1>1. IInv => NoIdleSlot
    BY DEF IInv
  <1>2. QED BY <1>1, Inductive, PTL

\* The ceiling of grantCredit never swallows a credit of an honest receiver.
THEOREM CreditsArriveWhole == Spec => []NoCreditLost
  <1>1. IInv => NoCreditLost
    BY DEF IInv, SenderInside, GrantsGrow, NoCreditLost
  <1>2. QED BY <1>1, Inductive, PTL
=============================================================================
