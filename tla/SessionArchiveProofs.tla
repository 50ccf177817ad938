------------------------- MODULE SessionArchiveProofs -------------------------
(***************************************************************************)
(* Proofs about SessionArchive for any sessions, writers and requests.     *)
(*                                                                         *)
(* In layers, each invariant with those before it: what an operation is    *)
(* doing and which lines it stands in (Control); file, memory and rows     *)
(* (Homes); what keeps a session (Keeps); who leads whom (Leads).          *)
(***************************************************************************)
EXTENDS SessionArchive, Integers, SequenceTheorems, FiniteSetTheorems, TLAPS

-----------------------------------------------------------------------------
(* Lines: each process stands in a line once, users are those who do, and a
   user that holds is first. *)

Standing(line, p) == \E i \in 1 .. Len(line) : line[i] = p
Ahead(line, p) == line # << >> /\ Head(line) = p
Once(line) == \A i, j \in 1 .. Len(line) : line[i] = line[j] => i = j

Orderly(line, users, holders) ==
  /\ line \in Seq(Proc) /\ Once(line)
  /\ \A p \in Proc : Standing(line, p) <=> p \in users
  /\ \A p \in users \cap holders : Ahead(line, p)

InOrder(lines, keys, holders) ==
  /\ lines \in [Session -> Seq(Proc)]
  /\ \A s \in Session : Orderly(lines[s], {p \in Proc : s \in keys[p]}, holders)

LEMMA AheadStands ==
  ASSUME NEW line \in Seq(Proc), NEW p, Ahead(line, p)
  PROVE  Standing(line, p)
PROOF
<1>1. PICK n \in Nat : n = Len(line) /\ n # 0
  BY DEF Ahead
<1>2. line[1] = p /\ 1 \in 1 .. n
  BY <1>1 DEF Ahead
<1> QED BY <1>1, <1>2 DEF Standing

LEMMA AheadIsAt1 ==
  ASSUME NEW line \in Seq(Proc), NEW p
  PROVE  Ahead(line, p) <=> Len(line) # 0 /\ line[1] = p
BY DEF Ahead

LEMMA OneAhead ==
  ASSUME NEW line, NEW p, NEW q, Ahead(line, p), Ahead(line, q)
  PROVE  p = q
BY DEF Ahead

(* Joining a line. *)
LEMMA OrderlyJoin ==
  ASSUME NEW line, NEW users, NEW holders, NEW p \in Proc,
         Orderly(line, users, holders), p \notin users, p \notin holders
  PROVE  Orderly(Append(line, p), users \cup {p}, holders)
PROOF
<1>1. PICK n \in Nat : n = Len(line)
  BY DEF Orderly
<1>2. /\ line \in Seq(Proc) /\ Append(line, p) \in Seq(Proc) /\ Len(Append(line, p)) = n + 1
      /\ Append(line, p)[n + 1] = p
      /\ \A i \in 1 .. n : Append(line, p)[i] = line[i]
  BY <1>1 DEF Orderly
<1>3. \A i \in 1 .. n : line[i] # p
  BY <1>1 DEF Orderly, Standing
<1>4. 1 .. n + 1 = (1 .. n) \cup {n + 1}
  OBVIOUS
<1>5. Once(Append(line, p))
  <2> SUFFICES ASSUME NEW i \in 1 .. n + 1, NEW j \in 1 .. n + 1,
                      Append(line, p)[i] = Append(line, p)[j]
               PROVE  i = j
    BY <1>2 DEF Once
  <2>1. CASE i \in 1 .. n /\ j \in 1 .. n
    BY <1>1, <1>2, <2>1 DEF Orderly, Once
  <2>2. CASE i = n + 1 \/ j = n + 1
    BY <1>2, <1>3, <1>4, <2>2
  <2> QED BY <1>4, <2>1, <2>2
<1>6. ASSUME NEW x \in Proc PROVE Standing(Append(line, p), x) <=> x \in users \cup {p}
  <2>1. Standing(Append(line, p), x) <=> Standing(line, x) \/ x = p
    BY <1>1, <1>2, <1>4 DEF Standing
  <2> QED BY <2>1 DEF Orderly
<1>7. ASSUME NEW x \in (users \cup {p}) \cap holders PROVE Ahead(Append(line, p), x)
  <2>1. Ahead(line, x)
    BY DEF Orderly
  <2>2. 1 \in 1 .. n /\ line[1] = x
    BY <1>1, <1>2, <2>1, AheadIsAt1
  <2>3. n + 1 # 0
    OBVIOUS
  <2> QED BY <1>2, <2>2, <2>3, AheadIsAt1
<1> QED BY <1>2, <1>5, <1>6, <1>7 DEF Orderly

(* What is left of a line when one who stands in it once has gone. *)
LEMMA CutOut ==
  ASSUME NEW line \in Seq(Proc), NEW n \in Nat, n = Len(line), NEW i \in 1 .. n
  PROVE  LET rest == SubSeq(line, 1, i - 1) \o SubSeq(line, i + 1, n)
         IN  /\ rest \in Seq(Proc) /\ Len(rest) = n - 1
             /\ \A j \in 1 .. i - 1 : rest[j] = line[j]
             /\ \A j \in i .. n - 1 : rest[j] = line[j + 1]
PROOF
<1> DEFINE left == SubSeq(line, 1, i - 1)
           right == SubSeq(line, i + 1, n)
<1>1. i - 1 \in 0 .. n /\ n - i \in Nat /\ i - 1 \in Nat
  OBVIOUS
<1>2. left \in Seq(Proc) /\ Len(left) = i - 1 /\ \A j \in 1 .. i - 1 : left[j] = line[j]
  BY <1>1
<1>3. right \in Seq(Proc) /\ Len(right) = n - i /\ \A j \in 1 .. n - i : right[j] = line[i + j]
  BY <1>1
<1> HIDE DEF left, right
<1>4. left \o right \in Seq(Proc) /\ Len(left \o right) = n - 1
  BY <1>1, <1>2, <1>3
<1>5. \A j \in 1 .. i - 1 : (left \o right)[j] = line[j]
  BY <1>2, <1>3
<1>6. ASSUME NEW j \in i .. n - 1 PROVE (left \o right)[j] = line[j + 1]
  <2>1. j - (i - 1) \in 1 .. n - i /\ i + (j - (i - 1)) = j + 1 /\ j > i - 1 /\ j <= (i - 1) + (n - i)
    OBVIOUS
  <2>2. (left \o right)[j] = right[j - (i - 1)]
    BY <1>2, <1>3, <2>1
  <2> QED BY <1>3, <2>1, <2>2
<1> QED BY <1>4, <1>5, <1>6 DEF left, right

LEMMA OrderlyLeave ==
  ASSUME NEW line, NEW users, NEW holders, NEW p, Orderly(line, users, holders)
  PROVE  Orderly(Without(line, p), users \ {p}, holders)
PROOF
<1>1. PICK n \in Nat : n = Len(line)
  BY DEF Orderly
<1>2. line \in Seq(Proc) /\ DOMAIN line = 1 .. n
  BY <1>1 DEF Orderly
<1> DEFINE places == {i \in DOMAIN line : line[i] = p}
           rest == Without(line, p)
<1>3. CASE places = {}
  <2>1. rest = line
    BY <1>3 DEF Without
  <2>2. ~Standing(line, p)
    BY <1>1, <1>2, <1>3 DEF Standing
  <2>3. p \notin users \/ p \notin Proc
    BY <2>2 DEF Orderly
  <2> QED BY <2>1, <2>3 DEF Orderly
<1>4. CASE places # {}
  <2>1. PICK i \in 1 .. n : i = (CHOOSE m \in places : TRUE) /\ line[i] = p
    BY <1>2, <1>4
  <2>2. rest = SubSeq(line, 1, i - 1) \o SubSeq(line, i + 1, n)
    BY <1>1, <1>4, <2>1 DEF Without
  <2> HIDE DEF rest
  <2>3. /\ rest \in Seq(Proc) /\ Len(rest) = n - 1
        /\ \A j \in 1 .. i - 1 : rest[j] = line[j]
        /\ \A j \in i .. n - 1 : rest[j] = line[j + 1]
    BY <1>1, <1>2, <2>2, CutOut
  <2>4. /\ \A j \in 1 .. n - 1 : j \in 1 .. i - 1 \/ j \in i .. n - 1
        /\ \A j \in 1 .. i - 1 : j \in 1 .. n /\ j # i /\ j \in 1 .. n - 1
        /\ \A j \in i .. n - 1 : j + 1 \in 1 .. n /\ j + 1 # i
        /\ \A j \in 1 .. n : j = i \/ j \in 1 .. i - 1 \/ (j - 1 \in i .. n - 1 /\ (j - 1) + 1 = j)
        /\ \A j \in i .. n - 1 : j \in 1 .. n - 1
    OBVIOUS
  <2>5. \A j \in 1 .. n : line[j] = p => j = i
    BY <1>1, <2>1 DEF Orderly, Once
  <2>6. Once(rest)
    <3> SUFFICES ASSUME NEW j \in 1 .. n - 1, NEW k \in 1 .. n - 1, rest[j] = rest[k]
                 PROVE  j = k
      BY <2>3 DEF Once
    <3> DEFINE old(m) == IF m \in 1 .. i - 1 THEN m ELSE m + 1
    <3>1. old(j) \in 1 .. n /\ old(k) \in 1 .. n /\ rest[j] = line[old(j)] /\ rest[k] = line[old(k)]
      BY <2>3, <2>4
    <3>2. old(j) = old(k)
      BY <1>1, <3>1 DEF Orderly, Once
    <3> QED BY <3>2
  <2>7. ASSUME NEW x PROVE Standing(rest, x) <=> Standing(line, x) /\ x # p
    <3>1. ASSUME Standing(rest, x) PROVE Standing(line, x) /\ x # p
      BY <1>1, <2>3, <2>4, <2>5, <3>1 DEF Standing
    <3>2. ASSUME Standing(line, x), x # p PROVE Standing(rest, x)
      <4>1. PICK j \in 1 .. n : line[j] = x
        BY <1>1, <3>2 DEF Standing
      <4>2. CASE j \in 1 .. i - 1
        BY <2>3, <2>4, <4>1, <4>2 DEF Standing
      <4>3. CASE j - 1 \in i .. n - 1 /\ (j - 1) + 1 = j
        BY <2>3, <2>4, <4>1, <4>3 DEF Standing
      <4> QED BY <2>1, <2>4, <3>2, <4>1, <4>2, <4>3
    <3> QED BY <3>1, <3>2
  <2>8. ASSUME NEW x, Ahead(line, x), x # p PROVE Ahead(rest, x)
    <3>1. n # 0 /\ line[1] = x
      BY <1>1, <1>2, <2>8, AheadIsAt1
    <3>2. i # 1
      BY <2>1, <2>8, <3>1
    <3>3. 1 \in 1 .. i - 1 /\ n - 1 # 0
      BY <3>2
    <3> QED BY <2>3, <3>1, <3>3, AheadIsAt1
  <2> QED BY <2>3, <2>6, <2>7, <2>8 DEF Orderly, rest
<1> QED BY <1>3, <1>4

(* Whoever is first and goes leaves the others. *)
LEMMA TailIsWithout ==
  ASSUME NEW line \in Seq(Proc), NEW p, Once(line), Ahead(line, p)
  PROVE  Tail(line) = Without(line, p)
PROOF
<1>1. PICK n \in Nat : n = Len(line)
  OBVIOUS
<1>2. n # 0 /\ line[1] = p /\ 1 \in 1 .. n
  BY <1>1, AheadIsAt1
<1> DEFINE places == {i \in DOMAIN line : line[i] = p}
<1>3. places = {1}
  BY <1>1, <1>2 DEF Once
<1>4. Without(line, p) = SubSeq(line, 1, 0) \o SubSeq(line, 2, n)
  BY <1>1, <1>3 DEF Without
<1> DEFINE rest == Without(line, p)
<1>5. 1 - 1 = 0 /\ 1 + 1 = 2
  OBVIOUS
<1>6. /\ rest \in Seq(Proc) /\ Len(rest) = n - 1 /\ \A j \in 1 .. n - 1 : rest[j] = line[j + 1]
  <2> HIDE DEF rest
  <2> QED BY <1>1, <1>2, <1>4, <1>5, CutOut DEF rest
<1>7. /\ Tail(line) \in Seq(Proc) /\ Len(Tail(line)) = n - 1
      /\ \A j \in 1 .. n - 1 : Tail(line)[j] = line[j + 1]
  BY <1>1, <1>2, HeadTailProperties
<1> QED BY <1>6, <1>7, SeqEqual

LEMMA OrderlyHold ==
  ASSUME NEW line, NEW users, NEW holders, NEW p, Orderly(line, users, holders), Ahead(line, p)
  PROVE  Orderly(line, users, holders \cup {p})
BY DEF Orderly

LEMMA OrderlySubset ==
  ASSUME NEW line, NEW users, NEW holders, NEW fewer, Orderly(line, users, holders),
         users \cap fewer \subseteq holders
  PROVE  Orderly(line, users, fewer)
BY DEF Orderly

(* Lines of many sessions, of which only p changes what it wants or has. *)
LEMMA LinesStay ==
  ASSUME NEW lines, NEW keys, NEW holders, NEW keys2, NEW holders2, NEW p \in Proc,
         InOrder(lines, keys, holders),
         \A q \in Proc : q # p => keys2[q] = keys[q] /\ (q \in holders2 => q \in holders),
         keys2[p] = keys[p],
         p \in holders2 => p \in holders \/ First(lines, p, keys[p])
  PROVE  InOrder(lines, keys2, holders2)
PROOF
<1> SUFFICES ASSUME NEW s \in Session
             PROVE  Orderly(lines[s], {q \in Proc : s \in keys2[q]}, holders2)
  BY DEF InOrder
<1> DEFINE users == {q \in Proc : s \in keys[q]}
<1>1. {q \in Proc : s \in keys2[q]} = users
  OBVIOUS
<1>2. Orderly(lines[s], users, holders)
  BY DEF InOrder
<1>3. CASE p \in users /\ p \in holders2 /\ p \notin holders
  <2>1. Ahead(lines[s], p)
    BY <1>3 DEF First, Ahead
  <2>2. Orderly(lines[s], users, holders \cup {p})
    BY <1>2, <2>1, OrderlyHold
  <2>3. users \cap holders2 \subseteq holders \cup {p}
    OBVIOUS
  <2> HIDE DEF users
  <2> QED BY <1>1, <2>2, <2>3, OrderlySubset
<1>4. CASE ~(p \in users /\ p \in holders2 /\ p \notin holders)
  <2>1. users \cap holders2 \subseteq holders
    BY <1>4
  <2> HIDE DEF users
  <2> QED BY <1>1, <1>2, <2>1, OrderlySubset
<1> QED BY <1>3, <1>4

LEMMA LinesJoin ==
  ASSUME NEW lines, NEW keys, NEW holders, NEW keys2, NEW holders2, NEW p \in Proc,
         InOrder(lines, keys, holders),
         \A q \in Proc : q # p => keys2[q] = keys[q] /\ (q \in holders2 => q \in holders),
         keys[p] = {}, p \notin holders2
  PROVE  InOrder(Join(lines, p, keys2[p]), keys2, holders2)
PROOF
<1>1. Join(lines, p, keys2[p]) \in [Session -> Seq(Proc)]
  BY DEF Join, InOrder
<1> SUFFICES ASSUME NEW s \in Session
             PROVE  Orderly(Join(lines, p, keys2[p])[s], {q \in Proc : s \in keys2[q]}, holders2)
  BY <1>1 DEF InOrder
<1> DEFINE users == {q \in Proc : s \in keys[q]}
<1>2. p \notin users /\ users \cap holders2 \subseteq holders
  OBVIOUS
<1>3. Orderly(lines[s], users, holders)
  BY DEF InOrder
<1>4. Orderly(lines[s], users, holders2)
  <2> HIDE DEF users
  <2> QED BY <1>2, <1>3, OrderlySubset
<1>5. CASE s \in keys2[p]
  <2>1. Join(lines, p, keys2[p])[s] = Append(lines[s], p)
    BY <1>5 DEF Join
  <2>2. {q \in Proc : s \in keys2[q]} = users \cup {p}
    BY <1>5
  <2> HIDE DEF users
  <2> QED BY <1>2, <1>4, <2>1, <2>2, OrderlyJoin
<1>6. CASE s \notin keys2[p]
  <2>1. Join(lines, p, keys2[p])[s] = lines[s]
    BY <1>6 DEF Join
  <2>2. {q \in Proc : s \in keys2[q]} = users
    BY <1>6
  <2> QED BY <1>4, <2>1, <2>2
<1> QED BY <1>5, <1>6

LEMMA LinesLeave ==
  ASSUME NEW lines, NEW keys, NEW holders, NEW keys2, NEW holders2, NEW p \in Proc,
         InOrder(lines, keys, holders),
         \A q \in Proc : q # p => keys2[q] = keys[q] /\ (q \in holders2 => q \in holders),
         keys2[p] = {}
  PROVE  InOrder(Leave(lines, p), keys2, holders2)
PROOF
<1>1. ASSUME NEW s \in Session
      PROVE  /\ Leave(lines, p)[s] = Without(lines[s], p)
             /\ Orderly(Without(lines[s], p), {q \in Proc : s \in keys2[q]}, holders2)
  <2> DEFINE users == {q \in Proc : s \in keys[q]}
  <2>1. Orderly(lines[s], users, holders)
    BY DEF InOrder
  <2>2. Orderly(Without(lines[s], p), users \ {p}, holders)
    BY <2>1, OrderlyLeave
  <2>3. {q \in Proc : s \in keys2[q]} = users \ {p} /\ (users \ {p}) \cap holders2 \subseteq holders
    OBVIOUS
  <2>4. Leave(lines, p)[s] = Without(lines[s], p)
    BY DEF Leave
  <2> HIDE DEF users
  <2>5. Orderly(Without(lines[s], p), users \ {p}, holders2)
    BY <2>2, <2>3, OrderlySubset
  <2> QED BY <2>3, <2>4, <2>5
<1>2. Leave(lines, p) \in [Session -> Seq(Proc)]
  <2>1. Leave(lines, p) = [s \in Session |-> Leave(lines, p)[s]]
    BY DEF Leave
  <2>2. \A s \in Session : Leave(lines, p)[s] \in Seq(Proc)
    BY <1>1 DEF Orderly
  <2> QED BY <2>1, <2>2
<1> QED BY <1>1, <1>2 DEF InOrder

-----------------------------------------------------------------------------
(* Control. *)

MaybeSession == Session \cup {NoSession}
Retaining == {"chain", "turn", "write", "publish"}
Kinds == {"none", "state", "config", "child", "pin", "sweep", "survey", "pass"}
Places == Retaining \cup
  {"idle", "root", "gate", "lane", "doc", "row", "proof", "pinned", "all", "sweep", "survey",
   "keeps", "list", "verify", "commit", "committed", "late", "later"}

Operation ==
  [kind : Kinds, at : Places, id : MaybeSession,
   to : MaybeSession \cup {"same", "running", "recent"}, root : MaybeSession, prev : MaybeSession,
   moves : Nat, who : MaybeSession, chain : SUBSET Session, after : {"idle", "root", "doc", "later"}]
PassMemory ==
  [ids : Seq(Session), roots : Seq(Session), fresh : BOOLEAN, keeps : SUBSET Session,
   listed : SUBSET Session, leaving : SUBSET Session, left : SUBSET Session]

(* Whoever leads a session, or is led by one, exists. *)
LeadsAreBorn == \A s \in Session : parent[s] # NoSession => s \in born /\ parent[s] \in born

DocsOK ==
  /\ parent \in [Session -> MaybeSession] /\ status \in [Session -> Statuses]
  /\ born \subseteq Session /\ kept \subseteq born
  /\ file \subseteq born /\ archived \subseteq born /\ index \subseteq born
  /\ orphaned \subseteq Session /\ asks \in 0 .. MaxAsks
  /\ faults \in 0 .. MaxFaults /\ crashes \in 0 .. MaxCrashes
  /\ LeadsAreBorn

(* What an operation works on exists, unless it is about to. *)
OnlyBorn ==
  /\ \A p \in Proc : op[p].chain \subseteq born /\ op[p].who \in born \cup {NoSession}
  /\ Members(pass.ids) \subseteq born /\ pass.leaving \subseteq born /\ pass.left \subseteq born

(* Where an operation of each kind can be. *)
RetainsFor(p, afters) == op[p].at \in Retaining /\ op[p].after \in afters
Placed(p) ==
  /\ op[p].kind = "none" => op[p].at = "idle"
  /\ op[p].kind = "state" => op[p].at \in {"lane", "doc", "row"} \/ RetainsFor(p, {"doc"})
  /\ op[p].kind = "config" =>
       op[p].at \in {"root", "gate", "lane", "doc", "row", "proof"} \/ RetainsFor(p, {"doc", "idle"})
  /\ op[p].kind = "child" =>
       \/ op[p].at \in {"root", "gate", "lane", "doc", "row", "proof"}
       \/ RetainsFor(p, {"root", "doc", "idle"})
  /\ op[p].kind = "pin" => op[p].at = "pinned" \/ RetainsFor(p, {"idle"})
  /\ op[p].kind = "sweep" => op[p].at \in {"all", "sweep"}
  /\ op[p].kind = "survey" => op[p].at \in {"all", "survey"}
  /\ op[p].kind = "pass" =>
       \/ op[p].at \in {"root", "gate", "lane", "keeps", "list", "verify", "commit", "committed",
                        "late", "later"}
       \/ RetainsFor(p, {"idle", "later"})

(* What it was asked for, and whom it retains. *)
Asked(p) ==
  /\ p = Archiver => op[p].kind \in {"none", "pass"}
  /\ p # Archiver => op[p].kind # "pass"
  /\ op[p].kind = "state" => op[p].id \in born /\ op[p].to \in {"same", "running", "recent"}
  /\ op[p].kind = "config" => op[p].id \in born /\ op[p].to \in born \cup {NoSession}
  /\ op[p].kind = "child" => op[p].id \in Session /\ op[p].to \in born
  /\ op[p].kind = "pin" \/ op[p].at \in {"row", "proof"} => op[p].id \in born
  /\ op[p].at \in Retaining =>
       /\ op[p].who \in born
       /\ op[p].kind = "pin" \/ op[p].after = "doc" => op[p].who = op[p].id
  /\ op[p].at \in {"turn", "write", "publish"} => op[p].who \in op[p].chain

(* The lines an operation stands in, and the places at which it has what it
   stood in line for. *)
UnderDoc(p) == op[p].at \in {"lane", "doc", "row"} \/ RetainsFor(p, {"doc"})
LaneKeys(p) ==
  IF op[p].kind = "pass"
  THEN IF op[p].at \in {"lane", "keeps", "list", "verify", "commit", "committed"}
       THEN Members(pass.ids) ELSE {}
  ELSE IF op[p].kind \in {"sweep", "survey"} THEN Session
  ELSE IF UnderDoc(p) THEN {op[p].id} ELSE {}
GateKeys(p) ==
  IF op[p].kind = "pass"
  THEN IF op[p].at \in {"gate", "lane", "keeps", "list", "verify", "commit", "committed"}
       THEN Members(pass.roots) ELSE {}
  ELSE IF op[p].kind \in {"config", "child"} /\ (op[p].at \in {"gate", "proof"} \/ UnderDoc(p))
       THEN {op[p].root} ELSE {}

Laned == [p \in Proc |-> LaneKeys(p)]
Gated == [p \in Proc |-> GateKeys(p)]
LaneHolders == {p \in Proc : op[p].at \notin {"lane", "all"}}
GateHolders == {p \in Proc : op[p].at # "gate"}
TurnUsers == {p \in Proc : op[p].at \in {"turn", "write", "publish", "sweep", "commit", "committed"}}
TurnHolders == {p \in Proc : op[p].at \in {"write", "publish", "committed"}}

OpsOK ==
  /\ op \in [Proc -> Operation] /\ pass \in PassMemory
  /\ OnlyBorn /\ \A p \in Proc : Placed(p) /\ Asked(p)

LanesOK == InOrder(lanes, Laned, LaneHolders)
GatesOK == InOrder(gates, Gated, GateHolders)
TurnsOK == Orderly(turns, TurnUsers, TurnHolders)

Control == DocsOK /\ OpsOK /\ LanesOK /\ GatesOK /\ TurnsOK

(* A step of p leaves what the others are doing. *)
Moves(p) ==
  /\ op' \in [Proc -> Operation] /\ pass' \in PassMemory
  /\ \A q \in Proc : q # p => op'[q] = op[q]
  /\ born \subseteq born'
  /\ \/ p = Archiver
     \/ /\ pass'.ids = pass.ids /\ pass'.roots = pass.roots
        /\ pass'.leaving = pass.leaving /\ pass'.left = pass.left

LEMMA OpsMove ==
  ASSUME OpsOK, NEW p \in Proc, Moves(p), Placed(p)', Asked(p)',
         op'[p].chain \subseteq born', op'[p].who \in born' \cup {NoSession},
         p = Archiver =>
           /\ Members(pass'.ids) \subseteq born'
           /\ pass'.leaving \subseteq born' /\ pass'.left \subseteq born'
  PROVE  OpsOK'
PROOF
<1>1. ASSUME NEW q \in Proc, q # p PROVE Placed(q)' /\ Asked(q)'
  <2>1. op'[q] = op[q] /\ Placed(q) /\ Asked(q)
    BY <1>1 DEF Moves, OpsOK
  <2>2. Placed(q)'
    BY <2>1 DEF Placed, RetainsFor
  <2>3. Asked(q)'
    BY <2>1 DEF Asked, Moves
  <2> QED BY <2>2, <2>3
<1>2. \A q \in Proc : op'[q].chain \subseteq born' /\ op'[q].who \in born' \cup {NoSession}
  BY DEF Moves, OpsOK, OnlyBorn
<1>3. Members(pass'.ids) \subseteq born' /\ pass'.leaving \subseteq born' /\ pass'.left \subseteq born'
  <2>1. CASE p # Archiver
    BY <2>1 DEF Moves, OpsOK, OnlyBorn
  <2> QED BY <2>1
<1> QED BY <1>1, <1>2, <1>3 DEF OpsOK, OnlyBorn, Moves

LEMMA OthersStand ==
  ASSUME OpsOK, NEW p \in Proc, Moves(p), NEW q \in Proc, q # p
  PROVE  /\ Laned'[q] = Laned[q] /\ Gated'[q] = Gated[q]
         /\ q \in LaneHolders' <=> q \in LaneHolders
         /\ q \in GateHolders' <=> q \in GateHolders
         /\ q \in TurnHolders' <=> q \in TurnHolders
         /\ q \in TurnUsers' <=> q \in TurnUsers
PROOF
<1>1. op'[q] = op[q]
  BY DEF Moves
<1>2. op[q].kind = "pass" => pass'.ids = pass.ids /\ pass'.roots = pass.roots
  BY DEF Moves, OpsOK, Asked
<1>3. LaneKeys(q)' = LaneKeys(q)
  BY <1>1, <1>2 DEF LaneKeys, UnderDoc, RetainsFor
<1>4. GateKeys(q)' = GateKeys(q)
  BY <1>1, <1>2 DEF GateKeys, UnderDoc, RetainsFor
<1> QED BY <1>1, <1>3, <1>4 DEF Laned, Gated, LaneHolders, GateHolders, TurnHolders, TurnUsers

(* The lanes after a step of p: where p stands stays, is joined, or is left. *)
LEMMA LanesMove ==
  ASSUME OpsOK, LanesOK, NEW p \in Proc, Moves(p),
         \/ /\ lanes' = lanes /\ LaneKeys(p)' = LaneKeys(p)
            /\ p \in LaneHolders' => p \in LaneHolders \/ First(lanes, p, LaneKeys(p))
         \/ lanes' = Join(lanes, p, LaneKeys(p)') /\ LaneKeys(p) = {} /\ op'[p].at \in {"lane", "all"}
         \/ lanes' = Leave(lanes, p) /\ LaneKeys(p)' = {}
  PROVE  LanesOK'
PROOF
<1> DEFINE keys == Laned
           keys2 == Laned'
           holders == LaneHolders
           holders2 == LaneHolders'
<1>1. \A q \in Proc : q # p => keys2[q] = keys[q] /\ (q \in holders2 => q \in holders)
  BY OthersStand
<1>2. keys[p] = LaneKeys(p) /\ keys2[p] = LaneKeys(p)'
  BY DEF Laned
<1>3. InOrder(lanes, keys, holders)
  BY DEF LanesOK
<1>4. op'[p].at \in {"lane", "all"} => p \notin holders2
  BY DEF LaneHolders
<1> HIDE DEF keys, keys2, holders, holders2
<1>5. CASE /\ lanes' = lanes /\ LaneKeys(p)' = LaneKeys(p)
           /\ p \in LaneHolders' => p \in LaneHolders \/ First(lanes, p, LaneKeys(p))
  <2>1. p \in holders2 => p \in holders \/ First(lanes, p, keys[p])
    BY <1>2, <1>5 DEF holders, holders2
  <2>2. InOrder(lanes, keys2, holders2)
    BY <1>1, <1>2, <1>3, <1>5, <2>1, LinesStay
  <2> QED BY <1>5, <2>2 DEF LanesOK, keys2, holders2
<1>6. CASE lanes' = Join(lanes, p, LaneKeys(p)') /\ LaneKeys(p) = {} /\ op'[p].at \in {"lane", "all"}
  <2>1. InOrder(Join(lanes, p, keys2[p]), keys2, holders2)
    BY <1>1, <1>2, <1>3, <1>4, <1>6, LinesJoin
  <2> QED BY <1>2, <1>6, <2>1 DEF LanesOK, keys2, holders2
<1>7. CASE lanes' = Leave(lanes, p) /\ LaneKeys(p)' = {}
  <2>1. InOrder(Leave(lanes, p), keys2, holders2)
    BY <1>1, <1>2, <1>3, <1>7, LinesLeave
  <2> QED BY <1>7, <2>1 DEF LanesOK, keys2, holders2
<1> QED BY <1>5, <1>6, <1>7

LEMMA GatesMove ==
  ASSUME OpsOK, GatesOK, NEW p \in Proc, Moves(p),
         \/ /\ gates' = gates /\ GateKeys(p)' = GateKeys(p)
            /\ p \in GateHolders' => p \in GateHolders \/ First(gates, p, GateKeys(p))
         \/ gates' = Join(gates, p, GateKeys(p)') /\ GateKeys(p) = {} /\ op'[p].at = "gate"
         \/ gates' = Leave(gates, p) /\ GateKeys(p)' = {}
  PROVE  GatesOK'
PROOF
<1> DEFINE keys == Gated
           keys2 == Gated'
           holders == GateHolders
           holders2 == GateHolders'
<1>1. \A q \in Proc : q # p => keys2[q] = keys[q] /\ (q \in holders2 => q \in holders)
  BY OthersStand
<1>2. keys[p] = GateKeys(p) /\ keys2[p] = GateKeys(p)'
  BY DEF Gated
<1>3. InOrder(gates, keys, holders)
  BY DEF GatesOK
<1>4. op'[p].at = "gate" => p \notin holders2
  BY DEF GateHolders
<1> HIDE DEF keys, keys2, holders, holders2
<1>5. CASE /\ gates' = gates /\ GateKeys(p)' = GateKeys(p)
           /\ p \in GateHolders' => p \in GateHolders \/ First(gates, p, GateKeys(p))
  <2>1. p \in holders2 => p \in holders \/ First(gates, p, keys[p])
    BY <1>2, <1>5 DEF holders, holders2
  <2>2. InOrder(gates, keys2, holders2)
    BY <1>1, <1>2, <1>3, <1>5, <2>1, LinesStay
  <2> QED BY <1>5, <2>2 DEF GatesOK, keys2, holders2
<1>6. CASE gates' = Join(gates, p, GateKeys(p)') /\ GateKeys(p) = {} /\ op'[p].at = "gate"
  <2>1. InOrder(Join(gates, p, keys2[p]), keys2, holders2)
    BY <1>1, <1>2, <1>3, <1>4, <1>6, LinesJoin
  <2> QED BY <1>2, <1>6, <2>1 DEF GatesOK, keys2, holders2
<1>7. CASE gates' = Leave(gates, p) /\ GateKeys(p)' = {}
  <2>1. InOrder(Leave(gates, p), keys2, holders2)
    BY <1>1, <1>2, <1>3, <1>7, LinesLeave
  <2> QED BY <1>7, <2>1 DEF GatesOK, keys2, holders2
<1> QED BY <1>5, <1>6, <1>7

LEMMA TurnsMove ==
  ASSUME OpsOK, TurnsOK, NEW p \in Proc, Moves(p),
         \/ /\ turns' = turns /\ (p \in TurnUsers' <=> p \in TurnUsers)
            /\ p \in TurnHolders' => p \in TurnHolders \/ TurnOf(p)
         \/ /\ turns' = Append(turns, p) /\ p \notin TurnUsers
            /\ op'[p].at \in {"turn", "sweep", "commit"}
         \/ turns' = Without(turns, p) /\ p \notin TurnUsers'
         \/ turns' = Tail(turns) /\ TurnOf(p) /\ p \notin TurnUsers'
  PROVE  TurnsOK'
PROOF
<1> DEFINE users == TurnUsers
           users2 == TurnUsers'
           holders == TurnHolders
           holders2 == TurnHolders'
<1>1. /\ \A q \in Proc : q # p => (q \in users2 <=> q \in users) /\ (q \in holders2 <=> q \in holders)
      /\ users \subseteq Proc /\ users2 \subseteq Proc /\ holders2 \subseteq Proc
  <2>1. users \subseteq Proc /\ users2 \subseteq Proc /\ holders2 \subseteq Proc
    BY DEF TurnUsers, TurnHolders
  <2> QED BY <2>1, OthersStand
<1>2. Orderly(turns, users, holders)
  BY DEF TurnsOK
<1>3. op'[p].at \in {"turn", "sweep", "commit"} => p \notin holders2 /\ p \in users2
  BY DEF TurnHolders, TurnUsers
<1> HIDE DEF users, users2, holders, holders2
<1>4. CASE /\ turns' = turns /\ (p \in TurnUsers' <=> p \in TurnUsers)
           /\ p \in TurnHolders' => p \in TurnHolders \/ TurnOf(p)
  <2>0. p \in users2 <=> p \in users
    BY <1>4 DEF users, users2
  <2>9. \A q \in Proc : q \in users2 <=> q \in users
    BY <1>1, <2>0
  <2>1. users2 = users
    BY <1>1, <2>9
  <2>2. CASE p \in holders2 => p \in holders
    <3>1. users \cap holders2 \subseteq holders
      BY <1>1, <2>2
    <3>2. Orderly(turns, users, holders2)
      BY <1>2, <3>1, OrderlySubset
    <3> QED BY <1>4, <2>1, <3>2 DEF TurnsOK, users2, holders2
  <2>3. CASE TurnOf(p)
    <3>1. Orderly(turns, users, holders \cup {p})
      BY <1>2, <2>3, OrderlyHold DEF TurnOf, Ahead
    <3>2. users \cap holders2 \subseteq holders \cup {p}
      BY <1>1
    <3>3. Orderly(turns, users, holders2)
      BY <3>1, <3>2, OrderlySubset
    <3> QED BY <1>4, <2>1, <3>3 DEF TurnsOK, users2, holders2
  <2> QED BY <1>4, <2>2, <2>3 DEF holders, holders2
<1>5. CASE turns' = Append(turns, p) /\ p \notin TurnUsers /\ op'[p].at \in {"turn", "sweep", "commit"}
  <2>1. p \notin users /\ users2 = users \cup {p} /\ p \notin holders2
    BY <1>1, <1>3, <1>5 DEF users
  <2>2. users \cap holders2 \subseteq holders
    BY <1>1, <2>1
  <2>3. Orderly(turns, users, holders2)
    BY <1>2, <2>2, OrderlySubset
  <2>4. Orderly(Append(turns, p), users \cup {p}, holders2)
    BY <2>1, <2>3, OrderlyJoin
  <2> QED BY <1>5, <2>1, <2>4 DEF TurnsOK, users2, holders2
<1>6. ASSUME turns' = Without(turns, p), p \notin TurnUsers' PROVE TurnsOK'
  <2>1. users2 = users \ {p} /\ (users \ {p}) \cap holders2 \subseteq holders
    BY <1>1, <1>6 DEF users2
  <2>2. Orderly(Without(turns, p), users \ {p}, holders)
    BY <1>2, OrderlyLeave
  <2>3. Orderly(Without(turns, p), users \ {p}, holders2)
    BY <2>1, <2>2, OrderlySubset
  <2> QED BY <1>6, <2>1, <2>3 DEF TurnsOK, users2, holders2
<1>7. CASE turns' = Tail(turns) /\ TurnOf(p) /\ p \notin TurnUsers'
  <2>1. turns \in Seq(Proc) /\ Once(turns) /\ Ahead(turns, p)
    BY <1>2, <1>7 DEF Orderly, TurnOf, Ahead
  <2>2. turns' = Without(turns, p)
    BY <1>7, <2>1, TailIsWithout
  <2> QED BY <1>6, <1>7, <2>2
<1> QED BY <1>4, <1>5, <1>6, <1>7

LEMMA Constants ==
  /\ NoSession \notin Session /\ Archiver \notin Writer /\ Archiver \in Proc
  /\ Idle \in Operation /\ NoPass \in PassMemory /\ Members(NoPass.ids) = {}
BY ArchiveConstants DEF Proc, Idle, NoPass, Operation, PassMemory, Kinds, Places, MaybeSession,
   Members, Retaining

LEMMA OwnAncestor == ASSUME NEW s \in Session PROVE s \in Ancestors(s) /\ Ancestors(s) \subseteq Session
BY DEF Ancestors, Lineages

(* A session that exists has leads that exist. *)
LEMMA AncestorsAreBorn ==
  ASSUME DocsOK, NEW s \in born
  PROVE  Ancestors(s) \subseteq born
PROOF
<1>1. born \in Lineages(s)
  BY DEF DocsOK, LeadsAreBorn, Lineages, Above
<1> QED BY <1>1 DEF Ancestors

(* A lineage is a line: of two leads of a session, one leads the other. *)
LEMMA AncestorsUp ==
  ASSUME NEW s \in Session, NEW a \in Ancestors(s)
  PROVE  /\ Ancestors(a) \subseteq Ancestors(s)
         /\ \A m \in Above(a) \cap Session : m \in Ancestors(s)
PROOF
<1>1. a \in Session
  BY OwnAncestor
<1>2. Lineages(s) \subseteq Lineages(a)
  BY <1>1 DEF Lineages, Ancestors
<1>3. \A C \in Lineages(s) : a \in C /\ Above(a) \subseteq C
  BY <1>1 DEF Lineages, Ancestors
<1> QED BY <1>1, <1>2, <1>3 DEF Ancestors

LEMMA AncestorsStep ==
  ASSUME NEW s \in Session, Above(s) \subseteq Session, NEW a \in Ancestors(s), a # s
  PROVE  \E m \in Above(s) : a \in Ancestors(m)
PROOF
<1>1. CASE Above(s) = {}
  <2>1. {s} \in Lineages(s)
    BY <1>1 DEF Lineages
  <2> QED BY <2>1 DEF Ancestors
<1>2. ASSUME NEW m, Above(s) = {m} PROVE a \in Ancestors(m)
  <2>1. ASSUME NEW C \in Lineages(m) PROVE C \cup {s} \in Lineages(s)
    BY <1>2 DEF Lineages
  <2>2. \A C \in Lineages(m) : a \in C
    BY <2>1 DEF Ancestors
  <2> QED BY <2>2, OwnAncestor DEF Ancestors
<1> QED BY <1>1, <1>2 DEF Above

LEMMA OneLeadsTheOther ==
  ASSUME DocsOK, NEW s \in Session, NEW a \in Ancestors(s), NEW b \in Ancestors(s)
  PROVE  a \in Ancestors(b) \/ b \in Ancestors(a)
PROOF
<1> DEFINE C == {c \in Session : b \in Ancestors(c)} \cup Ancestors(b)
<1>1. b \in Session /\ Ancestors(b) \subseteq Session /\ s \in C
  BY OwnAncestor
<1>2. ASSUME NEW m \in Session PROVE Above(m) \subseteq Session
  BY DEF Above, DocsOK, MaybeSession
<1>3. ASSUME NEW c \in C PROVE Above(c) \subseteq C
  <2>1. CASE c \in Ancestors(b)
    BY <1>1, <1>2, <2>1, AncestorsUp
  <2>2. CASE c \in Session /\ b \in Ancestors(c) /\ c # b
    <3>1. PICK m \in Above(c) : b \in Ancestors(m)
      BY <1>2, <2>2, AncestorsStep
    <3>2. Above(c) = {m} /\ m \in Session
      BY <1>2, <2>2, <3>1 DEF Above
    <3> QED BY <3>1, <3>2
  <2>3. CASE c = b
    BY <1>1, <2>1, <2>3, OwnAncestor
  <2> QED BY <2>1, <2>2, <2>3
<1>4. C \in Lineages(s)
  BY <1>1, <1>3 DEF Lineages
<1>5. a \in C
  BY <1>4 DEF Ancestors
<1> QED BY <1>5

(* So every lineage has a root. *)
LEMMA RootIsTop ==
  ASSUME DocsOK, NEW s \in Session
  PROVE  RootOf(s) \in Top(s)
PROOF
<1> DEFINE T == {Ancestors(a) : a \in Ancestors(s)}
           R == StrictSubsetOrdering(Session)
<1>1. T # {} /\ T \subseteq SUBSET Session
  BY OwnAncestor
<1>2. IsWellFoundedOn(R, SUBSET Session)
  BY FS_StrictSubsetOrderingWellFounded, FS_FiniteSubsetsOfFinite, ArchiveConstants
<1> HIDE DEF T, R
<1>3. PICK least \in T : \A other \in T : << other, least >> \notin R
  BY <1>1, <1>2, WFMin
<1>4. PICK r \in Ancestors(s) : least = Ancestors(r)
  BY <1>3 DEF T
<1>5. ASSUME NEW a \in Ancestors(s) PROVE r \in Ancestors(a)
  <2>1. CASE a \in Ancestors(r)
    <3>1. r \in Session /\ Ancestors(a) \subseteq Ancestors(r) /\ Ancestors(a) \in T
      BY <2>1, <1>4, OwnAncestor, AncestorsUp DEF T
    <3>2. Ancestors(a) = least
      BY <1>1, <1>3, <1>4, <3>1 DEF R, StrictSubsetOrdering
    <3> QED BY <1>4, <3>1, <3>2, OwnAncestor
  <2>2. CASE r \in Ancestors(a)
    BY <2>2
  <2> QED BY <2>1, <2>2, OneLeadsTheOther
<1>6. r \in Top(s)
  BY <1>5 DEF Top
<1> QED BY <1>6 DEF RootOf

(* The operation is over. *)
LEMMA EndsKeeps ==
  ASSUME Control, NEW p \in Proc, Ends(p), DocsOK', born \subseteq born'
  PROVE  Control'
PROOF
<1>1. op'[p] = Idle /\ op' \in [Proc -> Operation] /\ \A q \in Proc : q # p => op'[q] = op[q]
  BY Constants DEF Ends, Control, OpsOK
<1>2. Moves(p)
  BY <1>1, Constants DEF Ends, Moves, Control, OpsOK
<1>3. Placed(p)' /\ Asked(p)' /\ op'[p].chain = {} /\ op'[p].who = NoSession
  BY <1>1 DEF Idle, Placed, Asked, RetainsFor, Retaining
<1>4. p = Archiver =>
        /\ Members(pass'.ids) \subseteq born'
        /\ pass'.leaving \subseteq born' /\ pass'.left \subseteq born'
  BY Constants DEF Ends, NoPass
<1>5. OpsOK'
  BY <1>2, <1>3, <1>4, OpsMove DEF Control
<1>6. LaneKeys(p)' = {} /\ GateKeys(p)' = {} /\ p \notin TurnUsers'
  BY <1>1 DEF Idle, LaneKeys, GateKeys, UnderDoc, RetainsFor, Retaining, TurnUsers
<1>7. LanesOK' /\ GatesOK' /\ TurnsOK'
  BY <1>2, <1>6, LanesMove, GatesMove, TurnsMove DEF Control, Ends
<1> QED BY <1>5, <1>7 DEF Control

(* Who is at a place where the turn is held has it. *)
LEMMA HasTurn ==
  ASSUME TurnsOK, NEW p \in Proc, op[p].at \in {"write", "publish", "committed"}
  PROVE  TurnOf(p)
BY DEF TurnsOK, Orderly, TurnUsers, TurnHolders, Ahead, TurnOf

LEMMA OneTurn ==
  ASSUME NEW p \in Proc, NEW q \in Proc, TurnOf(p), TurnOf(q)
  PROVE  p = q
BY DEF TurnOf

(* A retention's turn is over. *)
LEMMA ResumeKeeps ==
  ASSUME Control, NEW p \in Proc, op[p].at \in {"turn", "publish"}, TurnOf(p), Resume(p),
         DocsOK', born \subseteq born'
  PROVE  Control'
PROOF
<1>1. CASE op[p].after = "idle"
  BY <1>1, EndsKeeps DEF Resume
<1>2. CASE op[p].after # "idle"
  <2>1. /\ op' = [op EXCEPT ![p].at = op[p].after, ![p].after = "idle", ![p].who = NoSession,
                            ![p].chain = {}]
        /\ turns' = Tail(turns) /\ UNCHANGED << gates, lanes, pass >>
    BY <1>2 DEF Resume
  <2>2. op \in [Proc -> Operation] /\ op[p].at \in Retaining
    BY DEF Control, OpsOK, Retaining
  <2>20. op[p] \in Operation /\ op[p].after \in Places
    BY <2>2 DEF Operation, Places
  <2>3. /\ op' \in [Proc -> Operation] /\ \A q \in Proc : q # p => op'[q] = op[q]
        /\ op'[p].at = op[p].after /\ op'[p].who = NoSession /\ op'[p].chain = {}
        /\ op'[p].kind = op[p].kind /\ op'[p].id = op[p].id /\ op'[p].to = op[p].to
        /\ op'[p].root = op[p].root
    BY <2>1, <2>2, <2>20 DEF Operation, MaybeSession
  <2>4. Moves(p)
    BY <2>1, <2>3 DEF Moves, Control, OpsOK
  <2>5. Placed(p) /\ Asked(p) /\ op[p].after \in {"root", "doc", "later"}
    BY <1>2, <2>2 DEF Control, OpsOK, Operation
  <2>6. Placed(p)'
    BY <2>2, <2>3, <2>5 DEF Placed, RetainsFor, Retaining
  <2>7. Asked(p)'
    BY <2>2, <2>3, <2>5 DEF Asked, Retaining
  <2>8. OpsOK'
    BY <2>1, <2>3, <2>4, <2>6, <2>7, OpsMove DEF Control, OpsOK, OnlyBorn
  <2>9. LaneKeys(p)' = LaneKeys(p) /\ GateKeys(p)' = GateKeys(p)
    BY <2>1, <2>2, <2>3, <2>5 DEF Placed, LaneKeys, GateKeys, UnderDoc, RetainsFor, Retaining
  <2>10. p \in LaneHolders /\ p \in GateHolders /\ p \notin TurnUsers'
    BY <2>3, <2>5 DEF LaneHolders, GateHolders, TurnUsers, Retaining
  <2> QED BY <2>1, <2>4, <2>8, <2>9, <2>10, LanesMove, GatesMove, TurnsMove DEF Control
<1> QED BY <1>1, <1>2

LEMMA DocsStay ==
  ASSUME DocsOK, UNCHANGED << docVars, homeVars, orphaned, countVars >>
  PROVE  DocsOK' /\ born' = born
BY DEF DocsOK, LeadsAreBorn, docVars, homeVars, countVars

(* A step within the lines: p goes from a place to another one with the same
   lines, or stays in line. *)
LEMMA ReadChainKeeps ==
  ASSUME Control, NEW p \in Proc, ReadChain(p)
  PROVE  Control'
PROOF
<1>1. DocsOK' /\ born' = born
  BY DocsStay DEF ReadChain, Control
<1>2. /\ op[p].at = "chain" /\ op[p] \in Operation /\ op \in [Proc -> Operation]
      /\ op' = [op EXCEPT ![p].at = "turn", ![p].chain = ChainOf(op[p].who)]
      /\ Placed(p) /\ Asked(p) /\ op[p].who \in born
  BY DEF ReadChain, At, Control, OpsOK, Asked, Retaining
<1> DEFINE chain == ChainOf(op[p].who)
<1>3. chain \subseteq born /\ chain \subseteq Session /\ op[p].who \in chain
  BY <1>2, OwnAncestor, AncestorsAreBorn DEF ChainOf, Control, DocsOK
<1> HIDE DEF chain
<1>4. /\ op' \in [Proc -> Operation] /\ \A q \in Proc : q # p => op'[q] = op[q]
      /\ op'[p] = [op[p] EXCEPT !.at = "turn", !.chain = chain]
  BY <1>2, <1>3 DEF Operation, Places, Retaining, chain
<1>5. /\ op'[p].at = "turn" /\ op'[p].chain = chain /\ op'[p].kind = op[p].kind /\ op'[p].id = op[p].id
      /\ op'[p].to = op[p].to /\ op'[p].who = op[p].who /\ op'[p].after = op[p].after
      /\ op'[p].root = op[p].root
  BY <1>2, <1>4 DEF Operation
<1>6. Moves(p) /\ pass' = pass
  BY <1>1, <1>4 DEF Moves, Control, OpsOK, ReadChain
<1>7. Placed(p)'
  BY <1>2, <1>5 DEF Placed, RetainsFor, Retaining
<1>8. Asked(p)'
  BY <1>1, <1>2, <1>3, <1>5 DEF Asked, Retaining
<1>9. OpsOK'
  BY <1>1, <1>3, <1>5, <1>6, <1>7, <1>8, OpsMove DEF Control, OpsOK, OnlyBorn
<1>10. LaneKeys(p)' = LaneKeys(p) /\ GateKeys(p)' = GateKeys(p)
  BY <1>2, <1>5, <1>6 DEF LaneKeys, GateKeys, UnderDoc, RetainsFor, Retaining
<1>11. p \in LaneHolders /\ p \in GateHolders /\ p \notin TurnUsers
  BY <1>2 DEF LaneHolders, GateHolders, TurnUsers
<1> QED BY <1>1, <1>5, <1>6, <1>9, <1>10, <1>11, LanesMove, GatesMove, TurnsMove DEF Control, ReadChain

LEMMA RestoreRowsKeeps ==
  ASSUME Control, NEW p \in Proc, RestoreRows(p)
  PROVE  Control'
PROOF
<1>1. /\ op[p].at = "turn" /\ TurnOf(p) /\ op[p] \in Operation /\ op \in [Proc -> Operation]
      /\ Placed(p) /\ Asked(p) /\ op[p].chain \subseteq born
  BY DEF RestoreRows, At, Control, OpsOK, OnlyBorn
<1>2. DocsOK' /\ born' = born
  BY <1>1 DEF RestoreRows, Restored, Control, DocsOK, LeadsAreBorn, docVars, countVars
<1>3. CASE Resume(p)
  BY <1>1, <1>2, <1>3, ResumeKeeps
<1>4. CASE GoesTo(p, "write") /\ UNCHANGED << lockVars, pass >>
  <2>1. /\ op' \in [Proc -> Operation] /\ \A q \in Proc : q # p => op'[q] = op[q]
        /\ op'[p] = [op[p] EXCEPT !.at = "write"]
    BY <1>1, <1>4 DEF GoesTo, Operation, Places, Retaining
  <2>2. /\ op'[p].at = "write" /\ op'[p].chain = op[p].chain /\ op'[p].kind = op[p].kind
        /\ op'[p].id = op[p].id /\ op'[p].to = op[p].to /\ op'[p].who = op[p].who
        /\ op'[p].after = op[p].after /\ op'[p].root = op[p].root
    BY <1>1, <2>1 DEF Operation
  <2>3. Moves(p) /\ pass' = pass /\ UNCHANGED << gates, lanes, turns >>
    BY <1>2, <1>4, <2>1 DEF Moves, Control, OpsOK, lockVars
  <2>4. Placed(p)'
    BY <1>1, <2>2 DEF Placed, RetainsFor, Retaining
  <2>5. Asked(p)'
    BY <1>1, <1>2, <2>2 DEF Asked, Retaining
  <2>6. OpsOK'
    BY <1>1, <1>2, <2>2, <2>3, <2>4, <2>5, OpsMove DEF Control, OpsOK, OnlyBorn
  <2>7. LaneKeys(p)' = LaneKeys(p) /\ GateKeys(p)' = GateKeys(p)
    BY <1>1, <2>2, <2>3 DEF LaneKeys, GateKeys, UnderDoc, RetainsFor, Retaining
  <2>8. p \in LaneHolders /\ p \in GateHolders /\ p \in TurnUsers /\ p \in TurnUsers'
    BY <1>1, <2>2 DEF LaneHolders, GateHolders, TurnUsers
  <2> QED BY <1>1, <1>2, <2>3, <2>6, <2>7, <2>8, LanesMove, GatesMove, TurnsMove DEF Control
<1> QED BY <1>3, <1>4 DEF RestoreRows

(* What a step that only goes elsewhere leaves. *)
SameButAt(p) ==
  /\ op'[p].kind = op[p].kind /\ op'[p].id = op[p].id /\ op'[p].to = op[p].to
  /\ op'[p].root = op[p].root /\ op'[p].prev = op[p].prev /\ op'[p].who = op[p].who
  /\ op'[p].chain = op[p].chain /\ op'[p].after = op[p].after

LEMMA GoesToIs ==
  ASSUME op \in [Proc -> Operation], NEW p \in Proc, NEW at \in Places, GoesTo(p, at)
  PROVE  /\ op' \in [Proc -> Operation] /\ \A q \in Proc : q # p => op'[q] = op[q]
         /\ op'[p].at = at /\ SameButAt(p)
PROOF
<1>1. op[p] \in Operation /\ op'[p] = [op[p] EXCEPT !.at = at]
  BY DEF GoesTo
<1>2. /\ op'[p] \in Operation /\ op'[p].at = at /\ SameButAt(p)
  BY <1>1 DEF Operation, SameButAt
<1> QED BY <1>2 DEF GoesTo

LEMMA WriteRegistryKeeps ==
  ASSUME Control, NEW p \in Proc, WriteRegistry(p)
  PROVE  Control'
PROOF
<1>1. /\ op[p].at = "write" /\ op[p] \in Operation /\ op \in [Proc -> Operation]
      /\ Placed(p) /\ Asked(p)
  BY DEF WriteRegistry, At, Control, OpsOK
<1>2. DocsOK' /\ born' = born
  BY <1>1 DEF WriteRegistry, Control, DocsOK, LeadsAreBorn, docVars, countVars
<1>3. /\ op' \in [Proc -> Operation] /\ \A q \in Proc : q # p => op'[q] = op[q]
      /\ op'[p].at = "publish" /\ SameButAt(p)
  BY <1>1, GoesToIs DEF WriteRegistry, Places, Retaining
<1>4. Moves(p) /\ pass' = pass /\ UNCHANGED << gates, lanes, turns >>
  BY <1>2, <1>3 DEF Moves, Control, OpsOK, WriteRegistry, lockVars
<1>5. Placed(p)'
  BY <1>1, <1>3 DEF Placed, RetainsFor, Retaining, SameButAt
<1>6. Asked(p)'
  BY <1>1, <1>2, <1>3 DEF Asked, Retaining, SameButAt
<1>7. OpsOK'
  BY <1>1, <1>2, <1>3, <1>4, <1>5, <1>6, OpsMove DEF Control, OpsOK, OnlyBorn, SameButAt
<1>8. LaneKeys(p)' = LaneKeys(p) /\ GateKeys(p)' = GateKeys(p)
  BY <1>1, <1>3, <1>4 DEF LaneKeys, GateKeys, UnderDoc, RetainsFor, Retaining, SameButAt
<1>9. /\ p \in LaneHolders /\ p \in GateHolders /\ p \in TurnUsers /\ p \in TurnUsers'
      /\ p \in TurnHolders
  BY <1>1, <1>3 DEF LaneHolders, GateHolders, TurnUsers, TurnHolders
<1> QED BY <1>2, <1>4, <1>7, <1>8, <1>9, LanesMove, GatesMove, TurnsMove DEF Control

LEMMA PublishKeeps ==
  ASSUME Control, NEW p \in Proc, Publish(p)
  PROVE  Control'
PROOF
<1>1. op[p].at = "publish"
  BY DEF Publish, At
<1>2. DocsOK' /\ born \subseteq born'
  BY DEF Publish, Control, DocsOK, LeadsAreBorn, docVars, countVars
<1> QED BY <1>1, <1>2, HasTurn, ResumeKeeps DEF Publish, Control

LEMMA RegistryFailsKeeps ==
  ASSUME Control, NEW p \in Proc, RegistryFails(p)
  PROVE  Control'
PROOF
<1>1. faults' \in 0 .. MaxFaults
  BY ArchiveConstants DEF RegistryFails, Control, DocsOK
<1>2. DocsOK' /\ born \subseteq born'
  BY <1>1 DEF RegistryFails, Control, DocsOK, LeadsAreBorn, docVars
<1> QED BY <1>2, EndsKeeps DEF RegistryFails

(* A request reaches an idle writer. *)
LEMMA BeginsIs ==
  ASSUME Control, NEW p, NEW r \in Requests, NEW at \in Places, Begins(p, r, at)
  PROVE  /\ p \in Writer /\ p \in Proc /\ p # Archiver /\ op[p].at = "idle"
         /\ op' \in [Proc -> Operation] /\ \A q \in Proc : q # p => op'[q] = op[q]
         /\ op'[p].kind = r.kind /\ op'[p].at = at /\ op'[p].id = r.id /\ op'[p].to = r.to
         /\ op'[p].chain = {} /\ op'[p].who = NoSession /\ op'[p].after = "idle"
         /\ op'[p].root = NoSession /\ op'[p].prev = NoSession
         /\ asks' \in 0 .. MaxAsks
         /\ LaneKeys(p) = {} /\ GateKeys(p) = {} /\ p \notin TurnUsers
         /\ p \in LaneHolders /\ p \in GateHolders
PROOF
<1>1. p \in Writer /\ p \in Proc /\ p # Archiver /\ op[p].at = "idle"
  BY Constants DEF Begins, At, Proc
<1>2. /\ r.kind \in Kinds /\ r.id \in MaybeSession
      /\ r.to \in MaybeSession \cup {"same", "running", "recent"}
  BY ArchiveConstants DEF Kinds, MaybeSession
<1> DEFINE new == [Idle EXCEPT !.kind = r.kind, !.at = at, !.id = r.id, !.to = r.to]
<1>3. /\ new \in Operation /\ new.kind = r.kind /\ new.at = at /\ new.id = r.id /\ new.to = r.to
      /\ new.chain = {} /\ new.who = NoSession /\ new.after = "idle"
      /\ new.root = NoSession /\ new.prev = NoSession
  BY <1>2, Constants DEF Idle, Operation
<1>4. op' = [op EXCEPT ![p] = new] /\ op \in [Proc -> Operation]
  BY DEF Begins, Control, OpsOK
<1> HIDE DEF new
<1>5. op' \in [Proc -> Operation] /\ op'[p] = new /\ \A q \in Proc : q # p => op'[q] = op[q]
  BY <1>1, <1>3, <1>4
<1>6. asks' \in 0 .. MaxAsks
  BY ArchiveConstants DEF Begins, Control, DocsOK
<1>7. Placed(p) /\ Asked(p)
  BY <1>1 DEF Control, OpsOK
<1>8. LaneKeys(p) = {} /\ GateKeys(p) = {} /\ p \notin TurnUsers /\ p \in LaneHolders /\ p \in GateHolders
  BY <1>1, <1>7 DEF Placed, Asked, LaneKeys, GateKeys, UnderDoc, RetainsFor, Retaining, TurnUsers,
     LaneHolders, GateHolders
<1> QED BY <1>1, <1>3, <1>5, <1>6, <1>8

LEMMA AskStateKeeps ==
  ASSUME Control, NEW p \in Writer, AskState(p)
  PROVE  Control'
PROOF
<1>1. PICK r \in Requests :
        r.kind = "state" /\ r.id \in born /\ Begins(p, r, "lane") /\ lanes' = Join(lanes, p, {r.id})
  BY DEF AskState
<1>2. r.to \in {"same", "running", "recent"}
  BY <1>1, ArchiveConstants
<1>3. "lane" \in Places
  BY DEF Places
<1>4. UNCHANGED << docVars, homeVars, gates, turns, pass, orphaned, faults, crashes >>
  BY DEF AskState
<1>5. /\ p \in Proc /\ p # Archiver
      /\ op' \in [Proc -> Operation] /\ \A q \in Proc : q # p => op'[q] = op[q]
      /\ op'[p].kind = "state" /\ op'[p].at = "lane" /\ op'[p].id = r.id /\ op'[p].to = r.to
      /\ op'[p].chain = {} /\ op'[p].who = NoSession
      /\ asks' \in 0 .. MaxAsks /\ LaneKeys(p) = {} /\ GateKeys(p) = {} /\ p \notin TurnUsers
      /\ p \in LaneHolders /\ p \in GateHolders
  BY <1>1, <1>3, BeginsIs
<1>6. DocsOK' /\ born' = born
  BY <1>4, <1>5 DEF Control, DocsOK, LeadsAreBorn, docVars, homeVars
<1>7. Moves(p)
  BY <1>4, <1>5, <1>6 DEF Moves, Control, OpsOK
<1>8. Placed(p)' /\ Asked(p)'
  BY <1>1, <1>2, <1>5, <1>6 DEF Placed, Asked, RetainsFor, Retaining
<1>9. OpsOK'
  BY <1>5, <1>7, <1>8, OpsMove DEF Control
<1>10. LaneKeys(p)' = {r.id} /\ GateKeys(p)' = {} /\ p \notin TurnUsers'
  BY <1>5 DEF LaneKeys, GateKeys, UnderDoc, TurnUsers
<1>11. p \notin TurnHolders'
  BY <1>5 DEF TurnHolders
<1> QED BY <1>1, <1>4, <1>5, <1>6, <1>7, <1>9, <1>10, <1>11, LanesMove, GatesMove, TurnsMove
      DEF Control

LEMMA AskConfigKeeps ==
  ASSUME Control, NEW p \in Writer, AskConfig(p)
  PROVE  Control'
PROOF
<1>1. PICK r \in Requests :
        /\ r.kind = "config" /\ r.id \in born /\ Begins(p, r, "root")
        /\ r.to # NoSession => r.to \in born
  BY DEF AskConfig
<1>2. "root" \in Places
  BY DEF Places
<1>3. UNCHANGED << docVars, homeVars, lanes, gates, turns, pass, orphaned, faults, crashes >>
  BY DEF AskConfig, lockVars
<1>4. /\ p \in Proc /\ p # Archiver
      /\ op' \in [Proc -> Operation] /\ \A q \in Proc : q # p => op'[q] = op[q]
      /\ op'[p].kind = "config" /\ op'[p].at = "root" /\ op'[p].id = r.id /\ op'[p].to = r.to
      /\ op'[p].chain = {} /\ op'[p].who = NoSession
      /\ asks' \in 0 .. MaxAsks /\ LaneKeys(p) = {} /\ GateKeys(p) = {} /\ p \notin TurnUsers
      /\ p \in LaneHolders /\ p \in GateHolders
  BY <1>1, <1>2, BeginsIs
<1>5. DocsOK' /\ born' = born
  BY <1>3, <1>4 DEF Control, DocsOK, LeadsAreBorn, docVars, homeVars
<1>6. Moves(p)
  BY <1>3, <1>4, <1>5 DEF Moves, Control, OpsOK
<1>7. Placed(p)' /\ Asked(p)'
  BY <1>1, <1>4, <1>5 DEF Placed, Asked, RetainsFor, Retaining
<1>8. OpsOK'
  BY <1>4, <1>6, <1>7, OpsMove DEF Control
<1>9. LaneKeys(p)' = {} /\ GateKeys(p)' = {} /\ p \notin TurnUsers' /\ p \notin TurnHolders'
  BY <1>4 DEF LaneKeys, GateKeys, UnderDoc, RetainsFor, Retaining, TurnUsers, TurnHolders
<1> QED BY <1>3, <1>4, <1>5, <1>6, <1>8, <1>9, LanesMove, GatesMove, TurnsMove DEF Control

LEMMA PinKeeps ==
  ASSUME Control, NEW p \in Writer, Pin(p)
  PROVE  Control'
PROOF
<1>1. PICK r \in Requests :
        r.kind = "pin" /\ r.id \in born /\ kept' = kept \cup {r.id} /\ Begins(p, r, "pinned")
  BY DEF Pin
<1>2. "pinned" \in Places
  BY DEF Places
<1>3. UNCHANGED << parent, status, born, homeVars, lanes, gates, turns, pass, orphaned, faults, crashes >>
  BY DEF Pin, lockVars
<1>4. /\ p \in Proc /\ p # Archiver
      /\ op' \in [Proc -> Operation] /\ \A q \in Proc : q # p => op'[q] = op[q]
      /\ op'[p].kind = "pin" /\ op'[p].at = "pinned" /\ op'[p].id = r.id
      /\ op'[p].chain = {} /\ op'[p].who = NoSession
      /\ asks' \in 0 .. MaxAsks /\ LaneKeys(p) = {} /\ GateKeys(p) = {} /\ p \notin TurnUsers
      /\ p \in LaneHolders /\ p \in GateHolders
  BY <1>1, <1>2, BeginsIs
<1>5. DocsOK' /\ born' = born
  BY <1>1, <1>3, <1>4 DEF Control, DocsOK, LeadsAreBorn, homeVars
<1>6. Moves(p)
  BY <1>3, <1>4, <1>5 DEF Moves, Control, OpsOK
<1>7. Placed(p)' /\ Asked(p)'
  BY <1>1, <1>4, <1>5 DEF Placed, Asked, RetainsFor, Retaining
<1>8. OpsOK'
  BY <1>4, <1>6, <1>7, OpsMove DEF Control
<1>9. LaneKeys(p)' = {} /\ GateKeys(p)' = {} /\ p \notin TurnUsers' /\ p \notin TurnHolders'
  BY <1>4 DEF LaneKeys, GateKeys, UnderDoc, RetainsFor, Retaining, TurnUsers, TurnHolders
<1> QED BY <1>3, <1>4, <1>5, <1>6, <1>8, <1>9, LanesMove, GatesMove, TurnsMove DEF Control

LEMMA AskExclusiveKeeps ==
  ASSUME Control, NEW p \in Writer, AskExclusive(p)
  PROVE  Control'
PROOF
<1>1. PICK r \in Requests : r.kind \in {"sweep", "survey"} /\ Begins(p, r, "all")
  BY DEF AskExclusive
<1>2. "all" \in Places
  BY DEF Places
<1>3. /\ UNCHANGED << docVars, homeVars, gates, turns, pass, orphaned, faults, crashes >>
      /\ lanes' = Join(lanes, p, Session)
  BY DEF AskExclusive
<1>4. /\ p \in Proc /\ p # Archiver
      /\ op' \in [Proc -> Operation] /\ \A q \in Proc : q # p => op'[q] = op[q]
      /\ op'[p].kind \in {"sweep", "survey"} /\ op'[p].at = "all"
      /\ op'[p].chain = {} /\ op'[p].who = NoSession
      /\ asks' \in 0 .. MaxAsks /\ LaneKeys(p) = {} /\ GateKeys(p) = {} /\ p \notin TurnUsers
      /\ p \in LaneHolders /\ p \in GateHolders
  BY <1>1, <1>2, BeginsIs
<1>5. DocsOK' /\ born' = born
  BY <1>3, <1>4 DEF Control, DocsOK, LeadsAreBorn, docVars, homeVars
<1>6. Moves(p)
  BY <1>3, <1>4, <1>5 DEF Moves, Control, OpsOK
<1>7. Placed(p)' /\ Asked(p)'
  BY <1>4 DEF Placed, Asked, RetainsFor, Retaining
<1>8. OpsOK'
  BY <1>4, <1>6, <1>7, OpsMove DEF Control
<1>9. /\ LaneKeys(p)' = Session /\ GateKeys(p)' = {}
      /\ p \notin TurnUsers' /\ p \notin TurnHolders'
  BY <1>4 DEF LaneKeys, GateKeys, UnderDoc, RetainsFor, Retaining, TurnUsers, TurnHolders
<1> QED BY <1>3, <1>4, <1>5, <1>6, <1>8, <1>9, LanesMove, GatesMove, TurnsMove DEF Control

LEMMA AskChildKeeps ==
  ASSUME Control, NEW p \in Writer, AskChild(p)
  PROVE  Control'
PROOF
<1>1. PICK r \in Requests :
        /\ r.kind = "child" /\ r.to \in born
        /\ op' = [op EXCEPT ![p] = [Idle EXCEPT !.kind = "child", !.at = "chain", !.id = r.id,
                                                !.to = r.to, !.who = r.to, !.after = "root"]]
  BY DEF AskChild
<1>2. /\ r.id \in Session /\ r.to \in Session /\ op[p].at = "idle"
      /\ p \in Proc /\ p # Archiver /\ asks' \in 0 .. MaxAsks
  BY <1>1, ArchiveConstants, Constants DEF AskChild, At, Proc, Control, DocsOK
<1> DEFINE new == [Idle EXCEPT !.kind = "child", !.at = "chain", !.id = r.id,
                               !.to = r.to, !.who = r.to, !.after = "root"]
<1>3. /\ new \in Operation /\ new.kind = "child" /\ new.at = "chain" /\ new.id = r.id /\ new.to = r.to
      /\ new.chain = {} /\ new.who = r.to /\ new.after = "root"
  BY <1>2, Constants DEF Idle, Operation, Places, Retaining, Kinds, MaybeSession
<1>4. op' = [op EXCEPT ![p] = new] /\ op \in [Proc -> Operation]
  BY <1>1 DEF Control, OpsOK
<1> HIDE DEF new
<1>5. op' \in [Proc -> Operation] /\ op'[p] = new /\ \A q \in Proc : q # p => op'[q] = op[q]
  BY <1>2, <1>3, <1>4
<1>6. /\ UNCHANGED << docVars, homeVars, lanes, gates, turns, orphaned, faults, crashes >>
      /\ pass' = [pass EXCEPT !.fresh = FALSE]
  BY DEF AskChild, lockVars
<1>7. DocsOK' /\ born' = born
  BY <1>2, <1>6 DEF Control, DocsOK, LeadsAreBorn, docVars, homeVars
<1>8. Moves(p)
  BY <1>5, <1>6, <1>7 DEF Moves, Control, OpsOK, PassMemory
<1>9. Placed(p)' /\ Asked(p)'
  BY <1>1, <1>2, <1>3, <1>5, <1>7 DEF Placed, Asked, RetainsFor, Retaining
<1>15. r.to \in born
  BY <1>1
<1>14. op'[p].chain = {} /\ op'[p].who \in born' /\ p # Archiver
  BY <1>15, <1>2, <1>3, <1>5, <1>7
<1>10. OpsOK'
  BY <1>2, <1>8, <1>9, <1>14, OpsMove DEF Control
<1>11. /\ LaneKeys(p)' = {} /\ GateKeys(p)' = {} /\ p \notin TurnUsers' /\ p \notin TurnHolders'
  BY <1>3, <1>5 DEF LaneKeys, GateKeys, UnderDoc, RetainsFor, Retaining, TurnUsers, TurnHolders
<1>12. Placed(p) /\ Asked(p)
  BY <1>2 DEF Control, OpsOK
<1>13. /\ LaneKeys(p) = {} /\ GateKeys(p) = {} /\ p \notin TurnUsers
       /\ p \in LaneHolders /\ p \in GateHolders
  BY <1>2, <1>12 DEF Placed, Asked, LaneKeys, GateKeys, UnderDoc, RetainsFor, Retaining, TurnUsers,
     LaneHolders, GateHolders
<1> QED BY <1>2, <1>6, <1>7, <1>8, <1>10, <1>11, <1>13, LanesMove, GatesMove, TurnsMove DEF Control

LEMMA ReadRootKeeps ==
  ASSUME Control, NEW p \in Proc, ReadRoot(p)
  PROVE  Control'
PROOF
<1>1. /\ op[p].at = "root" /\ p \in Writer /\ op[p] \in Operation /\ op \in [Proc -> Operation]
      /\ Placed(p) /\ Asked(p)
  BY DEF ReadRoot, At, Control, OpsOK
<1> DEFINE r == RootOf(op[p].id)
<1>2. op[p].kind \in {"config", "child"} /\ p # Archiver /\ op[p].id \in Session
  BY <1>1, Constants DEF Placed, Asked, RetainsFor, Retaining, Operation, Kinds, Control, DocsOK
<1>3. r \in Session
  BY <1>2, RootIsTop DEF Top, Ancestors, Control
<1>4. op' = [op EXCEPT ![p].at = "gate", ![p].root = r] /\ gates' = Join(gates, p, {r})
  BY DEF ReadRoot
<1> HIDE DEF r
<1>5. op' \in [Proc -> Operation] /\ \A q \in Proc : q # p => op'[q] = op[q]
  <2>1. [op[p] EXCEPT !.at = "gate", !.root = r] \in Operation
    BY <1>1, <1>3 DEF Operation, MaybeSession, Places
  <2> QED BY <1>1, <1>4, <2>1
<1>6. /\ op'[p].at = "gate" /\ op'[p].root = r /\ op'[p].kind = op[p].kind /\ op'[p].id = op[p].id
      /\ op'[p].to = op[p].to /\ op'[p].chain = op[p].chain /\ op'[p].who = op[p].who
  BY <1>1, <1>4 DEF Operation
<1>7. DocsOK' /\ born' = born /\ pass' = pass /\ lanes' = lanes /\ turns' = turns
  BY DocsStay DEF ReadRoot, Control
<1>8. Moves(p)
  BY <1>5, <1>7 DEF Moves, Control, OpsOK
<1>9. Placed(p)' /\ Asked(p)'
  BY <1>1, <1>2, <1>6, <1>7 DEF Placed, Asked, Retaining
<1>10. OpsOK'
  BY <1>1, <1>2, <1>6, <1>7, <1>8, <1>9, OpsMove DEF Control, OpsOK, OnlyBorn
<1>11. /\ LaneKeys(p)' = {} /\ LaneKeys(p) = {} /\ GateKeys(p) = {} /\ GateKeys(p)' = {r}
       /\ p \notin TurnUsers' /\ p \notin TurnUsers /\ p \notin TurnHolders' /\ p \in LaneHolders
  BY <1>1, <1>2, <1>6 DEF LaneKeys, GateKeys, UnderDoc, RetainsFor, Retaining, TurnUsers,
     TurnHolders, LaneHolders
<1> QED BY <1>1, <1>4, <1>6, <1>7, <1>8, <1>10, <1>11, LanesMove, GatesMove, TurnsMove DEF Control

BeginsToRetain(p, s, after) ==
  op' = [op EXCEPT ![p].at = "chain", ![p].who = s, ![p].after = after]

LEMMA RetainIs ==
  ASSUME OpsOK, NEW p \in Proc, NEW s \in MaybeSession, NEW after \in {"idle", "root", "doc", "later"},
         BeginsToRetain(p, s, after)
  PROVE  /\ op' \in [Proc -> Operation] /\ \A q \in Proc : q # p => op'[q] = op[q]
         /\ op'[p].at = "chain" /\ op'[p].who = s /\ op'[p].after = after
         /\ op'[p].kind = op[p].kind /\ op'[p].id = op[p].id /\ op'[p].to = op[p].to
         /\ op'[p].root = op[p].root /\ op'[p].prev = op[p].prev /\ op'[p].chain = op[p].chain
PROOF
<1>1. op[p] \in Operation /\ op \in [Proc -> Operation]
  BY DEF OpsOK
<1> DEFINE new == [op[p] EXCEPT !.at = "chain", !.who = s, !.after = after]
<1>2. /\ new \in Operation
      /\ new.at = "chain" /\ new.who = s /\ new.after = after
      /\ new.kind = op[p].kind /\ new.id = op[p].id /\ new.to = op[p].to
      /\ new.root = op[p].root /\ new.prev = op[p].prev /\ new.chain = op[p].chain
  BY <1>1 DEF Operation, Places, Retaining
<1> HIDE DEF new
<1>3. op' = [op EXCEPT ![p] = new] /\ op'[p] = new
  BY <1>1 DEF new, BeginsToRetain
<1> QED BY <1>1, <1>2, <1>3

LEMMA RetainMoves ==
  ASSUME OpsOK, NEW p \in Proc, NEW s \in MaybeSession, NEW after \in {"idle", "root", "doc", "later"},
         Retain(p, s, after), born' = born
  PROVE  /\ Moves(p) /\ op'[p].at = "chain" /\ op'[p].who = s /\ op'[p].after = after
         /\ op'[p].kind = op[p].kind /\ op'[p].id = op[p].id /\ op'[p].to = op[p].to
         /\ op'[p].root = op[p].root /\ op'[p].prev = op[p].prev /\ op'[p].chain = op[p].chain
         /\ pass'.ids = pass.ids /\ pass'.roots = pass.roots
         /\ pass'.leaving = pass.leaving /\ pass'.left = pass.left
PROOF
<1>1. BeginsToRetain(p, s, after)
  BY DEF Retain, BeginsToRetain
<1>2. /\ pass' \in PassMemory /\ pass'.ids = pass.ids /\ pass'.roots = pass.roots
      /\ pass'.leaving = pass.leaving /\ pass'.left = pass.left
  BY DEF Retain, OpsOK, PassMemory
<1>3. /\ op' \in [Proc -> Operation] /\ \A q \in Proc : q # p => op'[q] = op[q]
      /\ op'[p].at = "chain" /\ op'[p].who = s /\ op'[p].after = after
      /\ op'[p].kind = op[p].kind /\ op'[p].id = op[p].id /\ op'[p].to = op[p].to
      /\ op'[p].root = op[p].root /\ op'[p].prev = op[p].prev /\ op'[p].chain = op[p].chain
  BY <1>1, RetainIs
<1> QED BY <1>2, <1>3 DEF Moves

LEMMA EnterGateKeeps ==
  ASSUME Control, NEW p \in Proc, EnterGate(p)
  PROVE  Control'
PROOF
<1>1. /\ op[p].at = "gate" /\ p \in Writer /\ op[p] \in Operation /\ op \in [Proc -> Operation]
      /\ Placed(p) /\ Asked(p) /\ First(gates, p, {op[p].root})
  BY DEF EnterGate, At, Control, OpsOK
<1>2. op[p].kind \in {"config", "child"} /\ p # Archiver /\ op[p].id \in Session
  BY <1>1, Constants DEF Placed, Asked, RetainsFor, Retaining, Operation, Kinds, Control, DocsOK
<1>3. UNCHANGED << docVars, homeVars, orphaned, countVars >>
  BY DEF EnterGate
<1>4. DocsOK' /\ born' = born
  BY <1>3, DocsStay DEF Control
<1>5. CASE /\ op' = [op EXCEPT ![p].at = "lane", ![p].prev = parent[op[p].id]]
           /\ lanes' = Join(lanes, p, {op[p].id}) /\ UNCHANGED << gates, turns, pass >>
  <2> DEFINE new == [op[p] EXCEPT !.at = "lane", !.prev = parent[op[p].id]]
  <2>1. parent[op[p].id] \in MaybeSession
    BY <1>2 DEF Control, DocsOK
  <2>2. /\ new \in Operation /\ new.at = "lane" /\ new.kind = op[p].kind /\ new.id = op[p].id
        /\ new.to = op[p].to /\ new.root = op[p].root /\ new.chain = op[p].chain /\ new.who = op[p].who
    BY <1>1, <2>1 DEF Operation, Places
  <2>3. op' = [op EXCEPT ![p] = new]
    BY <1>1, <1>5
  <2> HIDE DEF new
  <2>4. op' \in [Proc -> Operation] /\ op'[p] = new /\ \A q \in Proc : q # p => op'[q] = op[q]
    BY <1>1, <2>2, <2>3
  <2>5. Moves(p)
    BY <1>4, <1>5, <2>4 DEF Moves, Control, OpsOK
  <2>6. Placed(p)' /\ Asked(p)'
    BY <1>1, <1>2, <1>4, <2>2, <2>4 DEF Placed, Asked, Retaining
  <2>7. op'[p].chain \subseteq born' /\ op'[p].who \in born' \cup {NoSession}
    BY <1>4, <2>2, <2>4 DEF Control, OpsOK, OnlyBorn
  <2>8. OpsOK'
    BY <1>2, <2>5, <2>6, <2>7, OpsMove DEF Control
  <2>9. /\ LaneKeys(p)' = {op[p].id} /\ LaneKeys(p) = {} /\ GateKeys(p)' = {op[p].root}
        /\ GateKeys(p) = {op[p].root} /\ op'[p].at = "lane"
        /\ p \notin TurnUsers' /\ p \notin TurnUsers /\ p \notin TurnHolders'
    BY <1>1, <1>2, <2>2, <2>4 DEF LaneKeys, GateKeys, UnderDoc, RetainsFor, Retaining, TurnUsers,
       TurnHolders
  <2> QED BY <1>1, <1>4, <1>5, <2>5, <2>8, <2>9, LanesMove, GatesMove, TurnsMove DEF Control
<1>6. CASE /\ op[p].moves < MaxMoves
           /\ op' = [op EXCEPT ![p].at = "root", ![p].root = NoSession, ![p].moves = @ + 1]
           /\ gates' = Leave(gates, p) /\ UNCHANGED << lanes, turns, pass >>
  <2> DEFINE new == [op[p] EXCEPT !.at = "root", !.root = NoSession, !.moves = @ + 1]
  <2>1. op[p].moves + 1 \in Nat
    BY <1>1 DEF Operation
  <2>2. /\ new \in Operation /\ new.at = "root" /\ new.kind = op[p].kind /\ new.id = op[p].id
        /\ new.to = op[p].to /\ new.chain = op[p].chain /\ new.who = op[p].who
    BY <1>1, <2>1 DEF Operation, Places, MaybeSession
  <2>3. op' = [op EXCEPT ![p] = new]
    BY <1>1, <1>6
  <2> HIDE DEF new
  <2>4. op' \in [Proc -> Operation] /\ op'[p] = new /\ \A q \in Proc : q # p => op'[q] = op[q]
    BY <1>1, <2>2, <2>3
  <2>5. Moves(p)
    BY <1>4, <1>6, <2>4 DEF Moves, Control, OpsOK
  <2>6. Placed(p)' /\ Asked(p)'
    BY <1>1, <1>2, <1>4, <2>2, <2>4 DEF Placed, Asked, Retaining
  <2>7. op'[p].chain \subseteq born' /\ op'[p].who \in born' \cup {NoSession}
    BY <1>4, <2>2, <2>4 DEF Control, OpsOK, OnlyBorn
  <2>8. OpsOK'
    BY <1>2, <2>5, <2>6, <2>7, OpsMove DEF Control
  <2>9. /\ LaneKeys(p)' = {} /\ LaneKeys(p) = {} /\ GateKeys(p)' = {} /\ p \in LaneHolders
        /\ p \notin TurnUsers' /\ p \notin TurnUsers /\ p \notin TurnHolders'
    BY <1>1, <1>2, <2>2, <2>4 DEF LaneKeys, GateKeys, UnderDoc, RetainsFor, Retaining, TurnUsers,
       TurnHolders, LaneHolders
  <2> QED BY <1>1, <1>4, <1>6, <2>5, <2>8, <2>9, LanesMove, GatesMove, TurnsMove DEF Control
<1>7. CASE Ends(p)
  BY <1>4, <1>7, EndsKeeps
<1> QED BY <1>5, <1>6, <1>7 DEF EnterGate

LEMMA EnterLaneKeeps ==
  ASSUME Control, NEW p \in Proc, EnterLane(p)
  PROVE  Control'
PROOF
<1>1. /\ op[p].at = "lane" /\ p \in Writer /\ op[p] \in Operation /\ op \in [Proc -> Operation]
      /\ Placed(p) /\ Asked(p) /\ First(lanes, p, {op[p].id})
  BY DEF EnterLane, At, Control, OpsOK
<1>2. op[p].kind \in {"state", "config", "child"} /\ p # Archiver /\ op[p].id \in Session
  BY <1>1, Constants DEF Placed, Asked, RetainsFor, Retaining, Operation, Kinds, Control, DocsOK
<1>3. UNCHANGED << docVars, homeVars, lockVars, orphaned, countVars >>
  BY DEF EnterLane
<1>4. DocsOK' /\ born' = born
  BY <1>3, DocsStay DEF Control
<1>5. LaneKeys(p) = {op[p].id} /\ p \notin TurnUsers /\ p \in GateHolders
  BY <1>1, <1>2 DEF LaneKeys, UnderDoc, TurnUsers, GateHolders
<1>6. CASE Retain(p, op[p].id, "doc") /\ op[p].id \in archived
  <2>1. op[p].id \in born /\ op[p].id \in MaybeSession
    BY <1>6, <1>2 DEF Control, DocsOK, MaybeSession
  <2>2. /\ Moves(p) /\ op'[p].at = "chain" /\ op'[p].who = op[p].id /\ op'[p].after = "doc"
        /\ op'[p].kind = op[p].kind /\ op'[p].id = op[p].id /\ op'[p].to = op[p].to
        /\ op'[p].root = op[p].root /\ op'[p].chain = op[p].chain
    BY <1>4, <1>6, <2>1, RetainMoves DEF Control
  <2>3. Placed(p)' /\ Asked(p)'
    BY <1>1, <1>2, <1>4, <2>1, <2>2 DEF Placed, Asked, RetainsFor, Retaining
  <2>4. OpsOK'
    BY <1>2, <1>4, <2>1, <2>2, <2>3, OpsMove DEF Control, OpsOK, OnlyBorn
  <2>5. /\ LaneKeys(p)' = LaneKeys(p) /\ GateKeys(p)' = GateKeys(p)
        /\ p \notin TurnUsers' /\ p \notin TurnHolders'
    BY <1>1, <1>2, <2>2 DEF LaneKeys, GateKeys, UnderDoc, RetainsFor, Retaining, TurnUsers,
       TurnHolders
  <2> QED BY <1>1, <1>3, <1>4, <1>5, <2>2, <2>4, <2>5, LanesMove, GatesMove, TurnsMove
        DEF Control, lockVars
<1>7. CASE GoesTo(p, "doc") /\ UNCHANGED pass
  <2>1. /\ op' \in [Proc -> Operation] /\ \A q \in Proc : q # p => op'[q] = op[q]
        /\ op'[p].at = "doc" /\ SameButAt(p)
    BY <1>1, <1>7, GoesToIs DEF Places
  <2>2. Moves(p)
    BY <1>4, <1>7, <2>1 DEF Moves, Control, OpsOK
  <2>3. Placed(p)' /\ Asked(p)'
    BY <1>1, <1>2, <1>4, <2>1 DEF Placed, Asked, RetainsFor, Retaining, SameButAt
  <2>4. OpsOK'
    BY <1>2, <1>4, <2>1, <2>2, <2>3, OpsMove DEF Control, OpsOK, OnlyBorn, SameButAt
  <2>5. /\ LaneKeys(p)' = LaneKeys(p) /\ GateKeys(p)' = GateKeys(p)
        /\ p \notin TurnUsers' /\ p \notin TurnHolders'
    BY <1>1, <1>2, <2>1 DEF LaneKeys, GateKeys, UnderDoc, RetainsFor, Retaining, TurnUsers,
       TurnHolders, SameButAt
  <2> QED BY <1>1, <1>3, <1>4, <1>5, <2>2, <2>4, <2>5, LanesMove, GatesMove, TurnsMove
        DEF Control, lockVars
<1> QED BY <1>6, <1>7 DEF EnterLane, Revives

LEMMA WriteDocKeeps ==
  ASSUME Control, NEW p \in Proc, WriteDoc(p)
  PROVE  Control'
PROOF
<1>1. /\ op[p].at = "doc" /\ op[p] \in Operation /\ op \in [Proc -> Operation]
      /\ Placed(p) /\ Asked(p)
  BY DEF WriteDoc, At, Control, OpsOK
<1>2. op[p].kind \in {"state", "config", "child"} /\ p # Archiver /\ op[p].id \in Session
  BY <1>1, Constants DEF Placed, Asked, RetainsFor, Retaining, Operation, Kinds, Control, DocsOK
<1>3. /\ GoesTo(p, "row")
      /\ UNCHANGED << kept, file, archived, index, gates, lanes, turns, pass, orphaned, asks, faults, crashes >>
  BY DEF WriteDoc, homeVars, lockVars, countVars
<1>4. DocsOK' /\ born \subseteq born' /\ op[p].id \in born'
  <2>1. CASE op[p].kind = "state"
    <3>1. op[p].to \in {"same", "running", "recent"} /\ UNCHANGED << parent, born >>
      BY <1>1, <2>1 DEF Asked, WriteDoc
    <3>2. status' \in [Session -> Statuses]
      BY <1>1, <1>2, <2>1, <3>1 DEF WriteDoc, Control, DocsOK, Statuses
    <3> QED BY <1>1, <1>3, <2>1, <3>1, <3>2 DEF Control, DocsOK, LeadsAreBorn, Asked
  <2>2. CASE op[p].kind \in {"config", "child"}
    <3>1. /\ op[p].to \in born \cup {NoSession}
          /\ parent' = [parent EXCEPT ![op[p].id] = op[p].to] /\ born' = born \cup {op[p].id}
          /\ status' = IF op[p].kind = "child" THEN [status EXCEPT ![op[p].id] = "running"] ELSE status
      BY <1>1, <2>2 DEF Asked, WriteDoc
    <3>2. status' \in [Session -> Statuses]
      BY <1>2, <3>1 DEF Control, DocsOK, Statuses
    <3>3. parent' \in [Session -> MaybeSession]
      BY <1>2, <3>1 DEF Control, DocsOK, MaybeSession
    <3>4. LeadsAreBorn'
      BY <1>2, <3>1 DEF LeadsAreBorn, Control, DocsOK
    <3> QED BY <1>2, <1>3, <3>1, <3>2, <3>3, <3>4 DEF Control, DocsOK
  <2> QED BY <1>2, <2>1, <2>2
<1>5. /\ op' \in [Proc -> Operation] /\ \A q \in Proc : q # p => op'[q] = op[q]
      /\ op'[p].at = "row" /\ SameButAt(p)
  BY <1>1, <1>3, GoesToIs DEF Places
<1>6. Moves(p)
  BY <1>3, <1>4, <1>5 DEF Moves, Control, OpsOK
<1>7. Placed(p)' /\ Asked(p)'
  BY <1>1, <1>2, <1>4, <1>5 DEF Placed, Asked, RetainsFor, Retaining, SameButAt
<1>8. OpsOK'
  BY <1>2, <1>4, <1>5, <1>6, <1>7, OpsMove DEF Control, OpsOK, OnlyBorn, SameButAt
<1>9. /\ LaneKeys(p)' = LaneKeys(p) /\ GateKeys(p)' = GateKeys(p)
      /\ p \in LaneHolders /\ p \in GateHolders
      /\ p \notin TurnUsers /\ p \notin TurnUsers' /\ p \notin TurnHolders'
  BY <1>1, <1>2, <1>5 DEF LaneKeys, GateKeys, UnderDoc, RetainsFor, Retaining, TurnUsers,
     TurnHolders, SameButAt, LaneHolders, GateHolders
<1> QED BY <1>3, <1>4, <1>6, <1>8, <1>9, LanesMove, GatesMove, TurnsMove DEF Control

LEMMA SyncRowKeeps ==
  ASSUME Control, NEW p \in Proc, SyncRow(p)
  PROVE  Control'
PROOF
<1>1. /\ op[p].at = "row" /\ op[p] \in Operation /\ op \in [Proc -> Operation]
      /\ Placed(p) /\ Asked(p)
  BY DEF SyncRow, At, Control, OpsOK
<1>2. op[p].kind \in {"state", "config", "child"} /\ p # Archiver /\ op[p].id \in Session
  BY <1>1, Constants DEF Placed, Asked, RetainsFor, Retaining, Operation, Kinds, Control, DocsOK
<1>3. UNCHANGED << parent, status, born, kept, file, archived, orphaned, asks, faults, crashes >>
  BY DEF SyncRow, docVars, countVars
<1>4. DocsOK' /\ born' = born
  <2>1. op[p].id \in born
    BY <1>1 DEF Asked
  <2> QED BY <1>3, <2>1 DEF SyncRow, Control, DocsOK, LeadsAreBorn
<1>5. CASE Ends(p)
  BY <1>4, <1>5, EndsKeeps
<1>6. CASE /\ op[p].kind # "state" /\ GoesTo(p, "proof") /\ lanes' = Leave(lanes, p)
           /\ UNCHANGED << gates, turns, pass >>
  <2>1. /\ op' \in [Proc -> Operation] /\ \A q \in Proc : q # p => op'[q] = op[q]
        /\ op'[p].at = "proof" /\ SameButAt(p)
    BY <1>1, <1>6, GoesToIs DEF Places
  <2>2. Moves(p)
    BY <1>4, <1>6, <2>1 DEF Moves, Control, OpsOK
  <2>3. Placed(p)' /\ Asked(p)'
    BY <1>1, <1>2, <1>4, <1>6, <2>1 DEF Placed, Asked, RetainsFor, Retaining, SameButAt
  <2>4. OpsOK'
    BY <1>2, <1>4, <2>1, <2>2, <2>3, OpsMove DEF Control, OpsOK, OnlyBorn, SameButAt
  <2>5. /\ LaneKeys(p)' = {} /\ GateKeys(p)' = GateKeys(p) /\ p \in GateHolders
        /\ p \notin TurnUsers /\ p \notin TurnUsers' /\ p \notin TurnHolders'
    BY <1>1, <1>2, <1>6, <2>1 DEF LaneKeys, GateKeys, UnderDoc, RetainsFor, Retaining, TurnUsers,
       TurnHolders, SameButAt, GateHolders
  <2> QED BY <1>4, <1>6, <2>2, <2>4, <2>5, LanesMove, GatesMove, TurnsMove DEF Control
<1> QED BY <1>5, <1>6 DEF SyncRow

LEMMA ProveParentKeeps ==
  ASSUME Control, NEW p \in Proc, ProveParent(p)
  PROVE  Control'
PROOF
<1>1. /\ op[p].at = "proof" /\ op[p] \in Operation /\ op \in [Proc -> Operation]
      /\ Placed(p) /\ Asked(p)
  BY DEF ProveParent, At, Control, OpsOK
<1>2. op[p].kind \in {"config", "child"} /\ p # Archiver /\ op[p].id \in Session
  BY <1>1, Constants DEF Placed, Asked, RetainsFor, Retaining, Operation, Kinds, Control, DocsOK
<1>3. DocsOK' /\ born' = born
  BY DocsStay DEF ProveParent, Control
<1>4. CASE Ends(p)
  BY <1>3, <1>4, EndsKeeps
<1>5. CASE /\ OwesLead(p) /\ gates' = Leave(gates, p) /\ Retain(p, parent[op[p].id], "idle")
           /\ UNCHANGED << lanes, turns >>
  <2>1. parent[op[p].id] \in born /\ parent[op[p].id] \in MaybeSession
    BY <1>2, <1>5 DEF OwesLead, Control, DocsOK, LeadsAreBorn
  <2>2. /\ Moves(p) /\ op'[p].at = "chain" /\ op'[p].who = parent[op[p].id] /\ op'[p].after = "idle"
        /\ op'[p].kind = op[p].kind /\ op'[p].id = op[p].id /\ op'[p].to = op[p].to
        /\ op'[p].chain = op[p].chain
    BY <1>3, <1>5, <2>1, RetainMoves DEF Control
  <2>3. Placed(p)' /\ Asked(p)'
    BY <1>1, <1>2, <1>3, <2>1, <2>2 DEF Placed, Asked, RetainsFor, Retaining
  <2>4. op'[p].chain \subseteq born' /\ op'[p].who \in born'
    BY <1>3, <2>1, <2>2 DEF Control, OpsOK, OnlyBorn
  <2>5. OpsOK'
    BY <1>2, <2>2, <2>3, <2>4, OpsMove DEF Control
  <2>6. /\ LaneKeys(p)' = {} /\ LaneKeys(p) = {} /\ GateKeys(p)' = {} /\ p \in LaneHolders
        /\ p \notin TurnUsers' /\ p \notin TurnUsers /\ p \notin TurnHolders'
    BY <1>1, <1>2, <2>2 DEF LaneKeys, GateKeys, UnderDoc, RetainsFor, Retaining, TurnUsers,
       TurnHolders, LaneHolders
  <2> QED BY <1>3, <1>5, <2>2, <2>5, <2>6, LanesMove, GatesMove, TurnsMove DEF Control
<1> QED BY <1>4, <1>5 DEF ProveParent

LEMMA RetainPinnedKeeps ==
  ASSUME Control, NEW p \in Proc, RetainPinned(p)
  PROVE  Control'
PROOF
<1>1. /\ op[p].at = "pinned" /\ op[p] \in Operation /\ op \in [Proc -> Operation]
      /\ Placed(p) /\ Asked(p)
  BY DEF RetainPinned, At, Control, OpsOK
<1>2. op[p].kind = "pin" /\ p # Archiver /\ op[p].id \in born /\ op[p].id \in MaybeSession
  BY <1>1, Constants DEF Placed, Asked, RetainsFor, Retaining, Operation, Kinds, Control, DocsOK,
     MaybeSession
<1>3. DocsOK' /\ born' = born /\ UNCHANGED << gates, lanes, turns >>
  BY DocsStay DEF RetainPinned, Control, lockVars
<1>4. /\ Moves(p) /\ op'[p].at = "chain" /\ op'[p].who = op[p].id /\ op'[p].after = "idle"
      /\ op'[p].kind = op[p].kind /\ op'[p].id = op[p].id /\ op'[p].to = op[p].to
      /\ op'[p].chain = op[p].chain
  BY <1>2, <1>3, RetainMoves DEF Control, RetainPinned
<1>5. Placed(p)' /\ Asked(p)'
  BY <1>1, <1>2, <1>3, <1>4 DEF Placed, Asked, RetainsFor, Retaining
<1>6. op'[p].chain \subseteq born' /\ op'[p].who \in born'
  BY <1>2, <1>3, <1>4 DEF Control, OpsOK, OnlyBorn
<1>7. OpsOK'
  BY <1>2, <1>4, <1>5, <1>6, OpsMove DEF Control
<1>8. /\ LaneKeys(p)' = {} /\ LaneKeys(p) = {} /\ GateKeys(p)' = {} /\ GateKeys(p) = {}
      /\ p \in LaneHolders /\ p \in GateHolders
      /\ p \notin TurnUsers' /\ p \notin TurnUsers /\ p \notin TurnHolders'
  BY <1>1, <1>2, <1>4 DEF LaneKeys, GateKeys, UnderDoc, RetainsFor, Retaining, TurnUsers,
     TurnHolders, LaneHolders, GateHolders
<1> QED BY <1>3, <1>4, <1>7, <1>8, LanesMove, GatesMove, TurnsMove DEF Control

(* A step that leaves operations and lines alone. *)
LEMMA OnlyDocsMove ==
  ASSUME Control, DocsOK', born' = born, UNCHANGED << lockVars, op, pass >>
  PROVE  Control'
PROOF
<1>1. OpsOK'
  BY DEF Control, OpsOK, OnlyBorn, Placed, Asked, RetainsFor
<1>2. LanesOK' /\ GatesOK' /\ TurnsOK'
  BY DEF Control, LanesOK, GatesOK, TurnsOK, Laned, Gated, LaneHolders, GateHolders, TurnUsers,
     TurnHolders, LaneKeys, GateKeys, UnderDoc, RetainsFor, lockVars
<1> QED BY <1>1, <1>2 DEF Control

LEMMA EnterAllKeeps ==
  ASSUME Control, NEW p \in Proc, EnterAll(p)
  PROVE  Control'
PROOF
<1>1. /\ op[p].at = "all" /\ op[p] \in Operation /\ op \in [Proc -> Operation]
      /\ Placed(p) /\ Asked(p) /\ First(lanes, p, Session)
  BY DEF EnterAll, At, Control, OpsOK
<1>2. op[p].kind \in {"sweep", "survey"} /\ p # Archiver
  BY <1>1, Constants DEF Placed, Asked, RetainsFor, Retaining, Operation, Kinds
<1>3. DocsOK' /\ born' = born /\ UNCHANGED << gates, lanes, pass >>
  BY DocsStay DEF EnterAll, Control
<1>4. Live \subseteq born /\ Live \subseteq Session
  BY DEF Live, Control, DocsOK
<1>5. /\ op' \in [Proc -> Operation] /\ \A q \in Proc : q # p => op'[q] = op[q]
      /\ op'[p].kind = op[p].kind /\ op'[p].id = op[p].id /\ op'[p].to = op[p].to
      /\ op'[p].who = op[p].who /\ op'[p].chain \subseteq born
      /\ \/ op[p].kind = "sweep" /\ op'[p].at = "sweep" /\ turns' = Append(turns, p)
         \/ op[p].kind = "survey" /\ op'[p].at = "survey" /\ turns' = turns
  <2>1. CASE op[p].kind = "sweep"
    <3>1. /\ op' \in [Proc -> Operation] /\ \A q \in Proc : q # p => op'[q] = op[q]
          /\ op'[p].at = "sweep" /\ SameButAt(p) /\ turns' = Append(turns, p)
      BY <1>1, <2>1, GoesToIs DEF EnterAll, Places
    <3> QED BY <2>1, <3>1 DEF SameButAt, Control, OpsOK, OnlyBorn
  <2>2. CASE op[p].kind = "survey"
    <3> DEFINE new == [op[p] EXCEPT !.at = "survey", !.chain = Live]
    <3>1. /\ new \in Operation /\ new.kind = op[p].kind /\ new.id = op[p].id /\ new.to = op[p].to
          /\ new.who = op[p].who /\ new.chain = Live /\ new.at = "survey"
      BY <1>1, <1>4 DEF Operation, Places
    <3>2. op' = [op EXCEPT ![p] = new] /\ turns' = turns
      BY <1>1, <2>2 DEF EnterAll
    <3> HIDE DEF new
    <3> QED BY <1>1, <1>4, <2>2, <3>1, <3>2
  <2> QED BY <1>2, <2>1, <2>2
<1>6. Moves(p)
  BY <1>3, <1>5 DEF Moves, Control, OpsOK
<1>7. Placed(p)' /\ Asked(p)'
  BY <1>1, <1>2, <1>3, <1>5 DEF Placed, Asked, RetainsFor, Retaining
<1>8. OpsOK'
  BY <1>2, <1>3, <1>5, <1>6, <1>7, OpsMove DEF Control, OpsOK, OnlyBorn
<1>9. /\ LaneKeys(p)' = LaneKeys(p) /\ LaneKeys(p) = Session /\ GateKeys(p)' = {} /\ GateKeys(p) = {}
      /\ p \in GateHolders /\ p \notin TurnUsers /\ p \notin TurnHolders'
  BY <1>1, <1>2, <1>5 DEF LaneKeys, GateKeys, UnderDoc, RetainsFor, Retaining, TurnUsers,
     TurnHolders, GateHolders
<1>10. op'[p].at = "survey" => p \notin TurnUsers'
  BY DEF TurnUsers
<1> QED BY <1>1, <1>3, <1>5, <1>6, <1>8, <1>9, <1>10, LanesMove, GatesMove, TurnsMove DEF Control

LEMMA SweepKeeps ==
  ASSUME Control, NEW p \in Proc, Sweep(p) \/ Survey(p)
  PROVE  Control'
PROOF
<1>1. DocsOK' /\ born' = born
  BY DEF Sweep, Survey, SweepRows, Live, Control, OpsOK, OnlyBorn, DocsOK, LeadsAreBorn, docVars,
     countVars
<1> QED BY <1>1, EndsKeeps DEF Sweep, Survey

(* The archive pass: every place of it has its kind. *)
LEMMA PassIs ==
  ASSUME OpsOK, op[Archiver].at # "idle"
  PROVE  /\ op[Archiver].kind = "pass" /\ op[Archiver] \in Operation /\ op \in [Proc -> Operation]
         /\ Placed(Archiver) /\ Asked(Archiver) /\ Archiver \in Proc /\ pass \in PassMemory
         /\ Members(pass.ids) \subseteq Session
PROOF
<1>1. /\ op[Archiver] \in Operation /\ op \in [Proc -> Operation] /\ Archiver \in Proc
      /\ Placed(Archiver) /\ Asked(Archiver) /\ pass \in PassMemory
  BY Constants DEF OpsOK
<1>2. Members(pass.ids) \subseteq Session
  BY <1>1 DEF PassMemory, Members
<1> QED BY <1>1, <1>2 DEF Placed, Asked

LEMMA DecideKeeps ==
  ASSUME Control, Decide
  PROVE  Control'
PROOF
<1>1. op[Archiver].at = "idle" /\ Archiver \in Proc /\ op \in [Proc -> Operation]
  BY Constants DEF Decide, At, Control, OpsOK
<1>2. PICK n \in 1 .. Cardinality(Session) : \E ids \in [1 .. n -> {s \in index : Archivable(s)}] :
        pass' = [NoPass EXCEPT !.ids = ids]
  BY DEF Decide
<1>20. PICK ids \in [1 .. n -> {s \in index : Archivable(s)}] : pass' = [NoPass EXCEPT !.ids = ids]
  BY <1>2
<1>3. Cardinality(Session) \in Nat
  BY ArchiveConstants, FS_CardinalityType
<1>4. /\ ids \in Seq(Session) /\ \A i \in DOMAIN ids : ids[i] \in born
  <2>1. ids \in [1 .. n -> Session] /\ n \in Nat /\ \A i \in DOMAIN ids : ids[i] \in born
    BY <1>3, <1>20 DEF Control, DocsOK
  <2> QED BY <2>1, SeqDef
<1>5. /\ pass' \in PassMemory /\ pass'.ids = ids /\ pass'.leaving = {} /\ pass'.left = {}
  BY <1>4, <1>20, EmptySeq DEF NoPass, PassMemory
<1>6. Members(pass'.ids) \subseteq born
  BY <1>4, <1>5 DEF Members
<1> DEFINE new == [Idle EXCEPT !.kind = "pass", !.at = "root"]
<1>7. new \in Operation /\ new.kind = "pass" /\ new.at = "root" /\ new.chain = {} /\ new.who = NoSession
  BY Constants DEF Idle, Operation, Kinds, Places
<1>8. op' = [op EXCEPT ![Archiver] = new]
  BY DEF Decide
<1> HIDE DEF new
<1>9. op' \in [Proc -> Operation] /\ op'[Archiver] = new /\ \A q \in Proc : q # Archiver => op'[q] = op[q]
  BY <1>1, <1>7, <1>8
<1>10. DocsOK' /\ born' = born /\ UNCHANGED << gates, lanes, turns >>
  BY DocsStay DEF Decide, Control, lockVars
<1>11. Moves(Archiver)
  BY <1>5, <1>9, <1>10 DEF Moves
<1>12. Placed(Archiver)' /\ Asked(Archiver)'
  BY <1>7, <1>9, Constants DEF Placed, Asked, RetainsFor, Retaining
<1>13. op'[Archiver].chain \subseteq born' /\ op'[Archiver].who \in born' \cup {NoSession}
  BY <1>7, <1>9
<1>14. OpsOK'
  BY <1>1, <1>5, <1>6, <1>10, <1>11, <1>12, <1>13, OpsMove DEF Control
<1>15. Placed(Archiver) /\ Asked(Archiver)
  BY <1>1 DEF Control, OpsOK
<1>16. /\ LaneKeys(Archiver)' = {} /\ LaneKeys(Archiver) = {}
       /\ GateKeys(Archiver)' = {} /\ GateKeys(Archiver) = {}
       /\ Archiver \in LaneHolders /\ Archiver \in GateHolders
       /\ Archiver \notin TurnUsers' /\ Archiver \notin TurnUsers /\ Archiver \notin TurnHolders'
  BY <1>1, <1>7, <1>9, <1>15 DEF LaneKeys, GateKeys, UnderDoc, RetainsFor, Retaining, TurnUsers,
     TurnHolders, LaneHolders, GateHolders, Placed, Asked
<1> QED BY <1>1, <1>10, <1>11, <1>14, <1>16, LanesMove, GatesMove, TurnsMove DEF Control

LEMMA RootsAre ==
  ASSUME DocsOK, NEW ids \in Seq(Session)
  PROVE  RootsOf(ids) \in Seq(Session)
PROOF
<1>1. PICK n \in Nat : n = Len(ids) /\ DOMAIN ids = 1 .. n
  OBVIOUS
<1>2. \A i \in 1 .. n : ids[i] \in Session
  BY <1>1
<1>3. \A i \in 1 .. n : RootOf(ids[i]) \in Session
  BY <1>2, RootIsTop DEF Top, Ancestors
<1>4. RootsOf(ids) \in [1 .. n -> Session]
  BY <1>1, <1>3 DEF RootsOf
<1> QED BY <1>4, SeqDef

LEMMA ReadRootsKeeps ==
  ASSUME Control, ReadRoots
  PROVE  Control'
PROOF
<1>1. op[Archiver].at = "root"
  BY DEF ReadRoots, At
<1>2. /\ op[Archiver].kind = "pass" /\ op[Archiver] \in Operation /\ op \in [Proc -> Operation]
      /\ Placed(Archiver) /\ Asked(Archiver) /\ Archiver \in Proc /\ pass \in PassMemory
  BY <1>1, PassIs DEF Control
<1>3. DocsOK' /\ born' = born /\ lanes' = lanes /\ turns' = turns
  BY DocsStay DEF ReadRoots, Control
<1> DEFINE roots == RootsOf(pass.ids)
<1>4. roots \in Seq(Session)
  BY <1>2, RootsAre DEF PassMemory, Control
<1>5. pass' = [pass EXCEPT !.roots = roots] /\ gates' = Join(gates, Archiver, Members(roots))
  BY DEF ReadRoots
<1> HIDE DEF roots
<1>6. /\ pass' \in PassMemory /\ pass'.ids = pass.ids /\ pass'.roots = roots
      /\ pass'.leaving = pass.leaving /\ pass'.left = pass.left
  BY <1>2, <1>4, <1>5 DEF PassMemory
<1>7. /\ op' \in [Proc -> Operation] /\ \A q \in Proc : q # Archiver => op'[q] = op[q]
      /\ op'[Archiver].at = "gate" /\ SameButAt(Archiver)
  BY <1>2, GoesToIs DEF ReadRoots, Places
<1>8. Moves(Archiver)
  BY <1>3, <1>6, <1>7 DEF Moves
<1>9. Placed(Archiver)' /\ Asked(Archiver)'
  BY <1>1, <1>2, <1>3, <1>7 DEF Placed, Asked, RetainsFor, Retaining, SameButAt
<1>10. OpsOK'
  BY <1>2, <1>3, <1>6, <1>7, <1>8, <1>9, OpsMove DEF Control, OpsOK, OnlyBorn, SameButAt
<1>11. /\ LaneKeys(Archiver)' = {} /\ LaneKeys(Archiver) = {}
       /\ GateKeys(Archiver)' = Members(roots) /\ GateKeys(Archiver) = {}
       /\ Archiver \in LaneHolders
       /\ Archiver \notin TurnUsers' /\ Archiver \notin TurnUsers /\ Archiver \notin TurnHolders'
  BY <1>1, <1>2, <1>6, <1>7 DEF LaneKeys, GateKeys, TurnUsers, TurnHolders, LaneHolders, SameButAt
<1> QED BY <1>2, <1>3, <1>5, <1>7, <1>8, <1>10, <1>11, LanesMove, GatesMove, TurnsMove DEF Control

LEMMA EnterGatesKeeps ==
  ASSUME Control, EnterGates
  PROVE  Control'
PROOF
<1>1. op[Archiver].at = "gate" /\ First(gates, Archiver, Members(pass.roots))
  BY DEF EnterGates, At
<1>2. /\ op[Archiver].kind = "pass" /\ op[Archiver] \in Operation /\ op \in [Proc -> Operation]
      /\ Placed(Archiver) /\ Asked(Archiver) /\ Archiver \in Proc /\ pass \in PassMemory
  BY <1>1, PassIs DEF Control
<1>3. DocsOK' /\ born' = born
  BY DocsStay DEF EnterGates, Control
<1>4. CASE /\ lanes' = Join(lanes, Archiver, Members(pass.ids)) /\ GoesTo(Archiver, "lane")
           /\ UNCHANGED << gates, turns, pass >>
  <2>1. /\ op' \in [Proc -> Operation] /\ \A q \in Proc : q # Archiver => op'[q] = op[q]
        /\ op'[Archiver].at = "lane" /\ SameButAt(Archiver)
    BY <1>2, <1>4, GoesToIs DEF Places
  <2>2. Moves(Archiver)
    BY <1>2, <1>3, <1>4, <2>1 DEF Moves
  <2>3. Placed(Archiver)' /\ Asked(Archiver)'
    BY <1>1, <1>2, <1>3, <2>1 DEF Placed, Asked, RetainsFor, Retaining, SameButAt
  <2>4. OpsOK'
    BY <1>2, <1>3, <1>4, <2>1, <2>2, <2>3, OpsMove DEF Control, OpsOK, OnlyBorn, SameButAt
  <2>5. /\ LaneKeys(Archiver)' = Members(pass.ids) /\ LaneKeys(Archiver) = {}
        /\ GateKeys(Archiver)' = Members(pass.roots) /\ GateKeys(Archiver) = Members(pass.roots)
        /\ Archiver \notin TurnUsers' /\ Archiver \notin TurnUsers /\ Archiver \notin TurnHolders'
    BY <1>1, <1>2, <1>4, <2>1 DEF LaneKeys, GateKeys, TurnUsers, TurnHolders, SameButAt
  <2> QED BY <1>1, <1>2, <1>3, <1>4, <2>1, <2>2, <2>4, <2>5, LanesMove, GatesMove, TurnsMove DEF Control
<1>5. CASE /\ op' = [op EXCEPT ![Archiver].at = "root", ![Archiver].moves = @ + 1]
           /\ gates' = Leave(gates, Archiver) /\ pass' = [pass EXCEPT !.roots = << >>]
           /\ UNCHANGED << lanes, turns >>
  <2> DEFINE new == [op[Archiver] EXCEPT !.at = "root", !.moves = @ + 1]
  <2>1. op[Archiver].moves + 1 \in Nat
    BY <1>2 DEF Operation
  <2>2. /\ new \in Operation /\ new.at = "root" /\ new.kind = op[Archiver].kind
        /\ new.id = op[Archiver].id /\ new.to = op[Archiver].to
        /\ new.chain = op[Archiver].chain /\ new.who = op[Archiver].who
    BY <1>2, <2>1 DEF Operation, Places
  <2>3. op' = [op EXCEPT ![Archiver] = new]
    BY <1>2, <1>5
  <2> HIDE DEF new
  <2>4. op' \in [Proc -> Operation] /\ op'[Archiver] = new /\ \A q \in Proc : q # Archiver => op'[q] = op[q]
    BY <1>2, <2>2, <2>3
  <2>5. /\ pass' \in PassMemory /\ pass'.ids = pass.ids
        /\ pass'.leaving = pass.leaving /\ pass'.left = pass.left
    BY <1>2, <1>5, EmptySeq DEF PassMemory
  <2>6. Moves(Archiver)
    BY <1>3, <2>4, <2>5 DEF Moves
  <2>7. Placed(Archiver)' /\ Asked(Archiver)'
    BY <1>2, <1>3, <2>2, <2>4 DEF Placed, Asked, RetainsFor, Retaining
  <2>8. op'[Archiver].chain \subseteq born' /\ op'[Archiver].who \in born' \cup {NoSession}
    BY <1>2, <1>3, <2>2, <2>4 DEF Control, OpsOK, OnlyBorn
  <2>9. OpsOK'
    BY <1>2, <1>3, <2>5, <2>6, <2>7, <2>8, OpsMove DEF Control, OpsOK, OnlyBorn
  <2>10. /\ LaneKeys(Archiver)' = {} /\ LaneKeys(Archiver) = {} /\ GateKeys(Archiver)' = {}
         /\ Archiver \in LaneHolders
         /\ Archiver \notin TurnUsers' /\ Archiver \notin TurnUsers /\ Archiver \notin TurnHolders'
    BY <1>1, <1>2, <2>2, <2>4 DEF LaneKeys, GateKeys, TurnUsers, TurnHolders, LaneHolders
  <2> QED BY <1>2, <1>3, <1>5, <2>6, <2>9, <2>10, LanesMove, GatesMove, TurnsMove DEF Control
<1>6. CASE Ends(Archiver)
  BY <1>2, <1>3, <1>6, EndsKeeps
<1> QED BY <1>4, <1>5, <1>6 DEF EnterGates

(* A step of the pass from a place to the next one. *)
LEMMA PassGoesOn ==
  ASSUME Control, NEW at \in Places, GoesTo(Archiver, at), DocsOK', born' = born,
         gates' = gates, lanes' = lanes,
         op[Archiver].at \in {"lane", "keeps", "list", "verify", "commit"},
         at \in {"keeps", "list", "verify", "commit", "committed"},
         op[Archiver].at = "lane" => First(lanes, Archiver, Members(pass.ids)),
         pass' \in PassMemory, pass'.ids = pass.ids, pass'.roots = pass.roots,
         pass'.leaving \subseteq born, pass'.left \subseteq born,
         \/ turns' = turns /\ at \notin {"commit", "committed"} /\ op[Archiver].at # "commit"
         \/ turns' = turns /\ at = "committed" /\ op[Archiver].at = "commit" /\ TurnOf(Archiver)
         \/ turns' = Append(turns, Archiver) /\ at = "commit" /\ op[Archiver].at # "commit"
  PROVE  Control'
PROOF
<1>1. /\ op[Archiver].kind = "pass" /\ op[Archiver] \in Operation /\ op \in [Proc -> Operation]
      /\ Placed(Archiver) /\ Asked(Archiver) /\ Archiver \in Proc
  BY PassIs DEF Control
<1>2. /\ op' \in [Proc -> Operation] /\ \A q \in Proc : q # Archiver => op'[q] = op[q]
      /\ op'[Archiver].at = at /\ SameButAt(Archiver)
  BY <1>1, GoesToIs
<1>3. Moves(Archiver)
  BY <1>2 DEF Moves
<1>4. Placed(Archiver)' /\ Asked(Archiver)'
  BY <1>1, <1>2 DEF Placed, Asked, RetainsFor, Retaining, SameButAt
<1>5. OpsOK'
  BY <1>1, <1>2, <1>3, <1>4, OpsMove DEF Control, OpsOK, OnlyBorn, SameButAt
<1>6. /\ LaneKeys(Archiver)' = LaneKeys(Archiver) /\ LaneKeys(Archiver) = Members(pass.ids)
      /\ GateKeys(Archiver)' = GateKeys(Archiver)
      /\ Archiver \in GateHolders
  BY <1>1, <1>2 DEF LaneKeys, GateKeys, GateHolders, SameButAt
<1>7. op[Archiver].at # "lane" => Archiver \in LaneHolders
  BY <1>1 DEF LaneHolders
<1>8. LanesOK' /\ GatesOK'
  BY <1>1, <1>3, <1>6, <1>7, LanesMove, GatesMove DEF Control
<1>9. /\ Archiver \in TurnUsers <=> op[Archiver].at = "commit"
      /\ Archiver \in TurnUsers' <=> at \in {"commit", "committed"}
      /\ Archiver \in TurnHolders' <=> at = "committed"
  BY <1>1, <1>2 DEF TurnUsers, TurnHolders
<1>10. TurnsOK'
  BY <1>1, <1>2, <1>3, <1>9, TurnsMove DEF Control
<1> QED BY <1>5, <1>8, <1>10 DEF Control

LEMMA PassReadsKeep ==
  ASSUME Control, EnterLanes \/ ReadKeeps \/ ListLive
  PROVE  Control'
PROOF
<1>1. DocsOK' /\ born' = born /\ UNCHANGED << gates, lanes, turns >>
  BY DocsStay DEF EnterLanes, ReadKeeps, ListLive, Control, lockVars
<1>2. op[Archiver].at \in {"lane", "keeps", "list"}
  BY DEF EnterLanes, ReadKeeps, ListLive, At
<1>3. /\ pass \in PassMemory /\ Members(pass.ids) \subseteq Session
      /\ pass.leaving \subseteq born /\ pass.left \subseteq born
      /\ index \subseteq Session /\ {"keeps", "list", "verify"} \subseteq Places
  BY <1>2, PassIs DEF Control, OpsOK, OnlyBorn, DocsOK, Places
<1>4. /\ pass' \in PassMemory /\ pass'.ids = pass.ids /\ pass'.roots = pass.roots
      /\ pass'.leaving = pass.leaving /\ pass'.left = pass.left
  <2>1. CASE EnterLanes
    BY <1>3, <2>1 DEF EnterLanes, PassMemory
  <2>2. CASE ReadKeeps
    <3>1. kept \cap Members(pass.ids) \in SUBSET Session
      BY <1>3
    <3> QED BY <1>3, <2>2, <3>1 DEF ReadKeeps, PassMemory
  <2>3. CASE ListLive
    BY <1>3, <2>3 DEF ListLive, PassMemory
  <2> QED BY <2>1, <2>2, <2>3
<1>5. CASE EnterLanes
  <2>1. op[Archiver].at = "lane" /\ GoesTo(Archiver, "keeps") /\ First(lanes, Archiver, Members(pass.ids))
    BY <1>5 DEF EnterLanes, At
  <2> QED BY <1>1, <1>3, <1>4, <2>1, PassGoesOn
<1>6. CASE ReadKeeps
  <2>1. op[Archiver].at = "keeps" /\ GoesTo(Archiver, "list")
    BY <1>6 DEF ReadKeeps, At
  <2> QED BY <1>1, <1>3, <1>4, <2>1, PassGoesOn
<1>7. CASE ListLive
  <2>1. op[Archiver].at = "list" /\ GoesTo(Archiver, "verify")
    BY <1>7 DEF ListLive, At
  <2> QED BY <1>1, <1>3, <1>4, <2>1, PassGoesOn
<1> QED BY <1>5, <1>6, <1>7

(* What the verification takes: members of the pass that are live, have ended
   and are not kept, and whose listed children all leave. *)
LEMMA VerifyKeeps ==
  ASSUME Control, Verify
  PROVE  Control'
PROOF
<1>1. op[Archiver].at = "verify"
  BY DEF Verify, At
<1>2. DocsOK' /\ born' = born /\ Archiver \in Proc /\ "commit" \in Places
  BY DocsStay, Constants DEF Verify, Control, Places
<1>3. PICK out \in SUBSET Members(pass.ids) :
        IF out = {} THEN Ends(Archiver)
        ELSE /\ pass' = [pass EXCEPT !.leaving = out] /\ turns' = Append(turns, Archiver)
             /\ GoesTo(Archiver, "commit") /\ UNCHANGED << gates, lanes >>
  BY DEF Verify
<1>4. CASE out = {}
  BY <1>2, <1>3, <1>4, EndsKeeps
<1>5. CASE out # {}
  <2>1. /\ pass \in PassMemory /\ Members(pass.ids) \subseteq Session
        /\ Members(pass.ids) \subseteq born /\ pass.left \subseteq born
    BY <1>1, PassIs DEF Control, OpsOK, OnlyBorn
  <2>2. out \subseteq Session /\ out \subseteq born
    BY <1>3, <2>1
  <2>3. /\ pass' \in PassMemory /\ pass'.ids = pass.ids /\ pass'.roots = pass.roots
        /\ pass'.leaving = out /\ pass'.left = pass.left
    BY <1>3, <1>5, <2>1, <2>2 DEF PassMemory
  <2> QED BY <1>1, <1>2, <1>3, <1>5, <2>1, <2>2, <2>3, PassGoesOn
<1> QED BY <1>4, <1>5

LEMMA CommitKeeps ==
  ASSUME Control, Commit
  PROVE  Control'
PROOF
<1>1. op[Archiver].at = "commit" /\ TurnOf(Archiver)
  BY DEF Commit, At
<1>2. /\ pass \in PassMemory /\ pass.leaving \subseteq born /\ pass.left \subseteq born
      /\ Archiver \in Proc /\ "committed" \in Places
  BY <1>1, PassIs DEF Control, OpsOK, OnlyBorn, Places
<1>3. DocsOK' /\ born' = born
  BY <1>2 DEF Commit, Control, DocsOK, LeadsAreBorn, docVars, countVars
<1>4. CASE GoesTo(Archiver, "committed") /\ UNCHANGED << lockVars, pass >>
  <2>1. UNCHANGED << gates, lanes, turns, pass >>
    BY <1>4 DEF lockVars
  <2> QED BY <1>1, <1>2, <1>3, <1>4, <2>1, PassGoesOn
<1>5. CASE Ends(Archiver)
  BY <1>2, <1>3, <1>5, EndsKeeps
<1> QED BY <1>4, <1>5 DEF Commit

LEMMA PublishPassKeeps ==
  ASSUME Control, PublishPass
  PROVE  Control'
PROOF
<1>1. op[Archiver].at = "committed"
  BY DEF PublishPass, At
<1>2. /\ pass \in PassMemory /\ pass.leaving \subseteq born /\ Archiver \in Proc
      /\ op \in [Proc -> Operation]
  BY <1>1, PassIs DEF Control, OpsOK, OnlyBorn
<1>3. DocsOK' /\ born' = born
  <2>1. Live \subseteq Session
    BY DEF Live, Control, DocsOK
  <2> QED BY <1>2, <2>1 DEF PublishPass, Control, DocsOK, LeadsAreBorn, docVars, countVars, PassMemory
<1>4. CASE ~Valid
  BY <1>2, <1>3, <1>4, EndsKeeps DEF PublishPass
<1>5. CASE Valid
  <2>1. /\ gates' = Leave(gates, Archiver) /\ lanes' = Leave(lanes, Archiver)
        /\ turns' = Tail(turns) /\ pass' = [NoPass EXCEPT !.left = pass.leaving]
        /\ op' = [op EXCEPT ![Archiver] = [Idle EXCEPT !.kind = "pass", !.at = "late"]]
    BY <1>5 DEF PublishPass
  <2>2. /\ pass' \in PassMemory /\ pass'.leaving = {} /\ pass'.left = pass.leaving
        /\ pass'.ids = NoPass.ids
    BY <1>2, <2>1, EmptySeq DEF NoPass, PassMemory
  <2> DEFINE new == [Idle EXCEPT !.kind = "pass", !.at = "late"]
  <2>3. new \in Operation /\ new.kind = "pass" /\ new.at = "late" /\ new.chain = {} /\ new.who = NoSession
    BY Constants DEF Idle, Operation, Kinds, Places
  <2>4. op' = [op EXCEPT ![Archiver] = new]
    BY <2>1
  <2> HIDE DEF new
  <2>5. op' \in [Proc -> Operation] /\ op'[Archiver] = new /\ \A q \in Proc : q # Archiver => op'[q] = op[q]
    BY <1>2, <2>3, <2>4
  <2>6. Moves(Archiver)
    BY <1>3, <2>2, <2>5 DEF Moves
  <2>7. Placed(Archiver)' /\ Asked(Archiver)'
    BY <2>3, <2>5 DEF Placed, Asked, RetainsFor, Retaining
  <2>8. /\ op'[Archiver].chain \subseteq born' /\ op'[Archiver].who \in born' \cup {NoSession}
        /\ Members(pass'.ids) \subseteq born'
    BY <2>2, <2>3, <2>5, Constants
  <2>9. OpsOK'
    BY <1>2, <1>3, <2>2, <2>6, <2>7, <2>8, OpsMove DEF Control
  <2>10. LaneKeys(Archiver)' = {} /\ GateKeys(Archiver)' = {} /\ Archiver \notin TurnUsers'
    BY <2>3, <2>5 DEF LaneKeys, GateKeys, TurnUsers
  <2>11. TurnOf(Archiver)
    BY <1>1, <1>2, HasTurn DEF Control
  <2> QED BY <1>2, <1>3, <2>1, <2>6, <2>9, <2>10, <2>11, LanesMove, GatesMove, TurnsMove DEF Control
<1> QED BY <1>4, <1>5

LEMMA CommitFailsKeeps ==
  ASSUME Control, CommitFails
  PROVE  Control'
PROOF
<1>1. Archiver \in Proc /\ pass.leaving \subseteq born
  BY Constants DEF Control, OpsOK, OnlyBorn
<1>2. faults' \in 0 .. MaxFaults
  BY ArchiveConstants DEF CommitFails, Control, DocsOK
<1>3. DocsOK' /\ born' = born
  BY <1>1, <1>2 DEF CommitFails, Control, DocsOK, LeadsAreBorn, docVars
<1> QED BY <1>1, <1>3, EndsKeeps DEF CommitFails

LEMMA LateKeeps ==
  ASSUME Control, Late
  PROVE  Control'
PROOF
<1>1. op[Archiver].at = "late"
  BY DEF Late, At
<1>2. /\ pass \in PassMemory /\ pass.left \subseteq born /\ Archiver \in Proc /\ op[Archiver].kind = "pass"
      /\ op \in [Proc -> Operation] /\ Placed(Archiver) /\ Asked(Archiver)
  BY <1>1, PassIs DEF Control, OpsOK, OnlyBorn
<1>3. DocsOK' /\ born' = born
  BY DocsStay DEF Late, Control
<1>4. CASE Ends(Archiver)
  BY <1>2, <1>3, <1>4, EndsKeeps
<1>5. CASE ~Ends(Archiver)
  <2>1. PICK late \in SUBSET pass.left :
          pass' = [pass EXCEPT !.left = late] /\ GoesTo(Archiver, "later")
    BY <1>5 DEF Late
  <2>2. UNCHANGED << gates, lanes, turns >>
    BY <1>5 DEF Late, lockVars
  <2>3. /\ pass' \in PassMemory /\ pass'.ids = pass.ids /\ pass'.roots = pass.roots
        /\ pass'.leaving = pass.leaving /\ pass'.left \subseteq born
    BY <1>2, <2>1 DEF PassMemory
  <2>4. /\ op' \in [Proc -> Operation] /\ \A q \in Proc : q # Archiver => op'[q] = op[q]
        /\ op'[Archiver].at = "later" /\ SameButAt(Archiver)
    BY <1>2, <2>1, GoesToIs DEF Places
  <2>5. Moves(Archiver)
    BY <1>3, <2>3, <2>4 DEF Moves
  <2>6. Placed(Archiver)' /\ Asked(Archiver)'
    BY <1>1, <1>2, <1>3, <2>4 DEF Placed, Asked, RetainsFor, Retaining, SameButAt
  <2>7. OpsOK'
    BY <1>2, <1>3, <2>3, <2>4, <2>5, <2>6, OpsMove DEF Control, OpsOK, OnlyBorn, SameButAt
  <2>8. /\ LaneKeys(Archiver)' = {} /\ LaneKeys(Archiver) = {}
        /\ GateKeys(Archiver)' = {} /\ GateKeys(Archiver) = {}
        /\ Archiver \in LaneHolders /\ Archiver \in GateHolders
        /\ Archiver \notin TurnUsers' /\ Archiver \notin TurnUsers /\ Archiver \notin TurnHolders'
    BY <1>1, <1>2, <2>4 DEF LaneKeys, GateKeys, TurnUsers, TurnHolders, LaneHolders, GateHolders,
       SameButAt
  <2> QED BY <1>2, <1>3, <2>2, <2>5, <2>7, <2>8, LanesMove, GatesMove, TurnsMove DEF Control
<1> QED BY <1>4, <1>5

LEMMA RetainLateKeeps ==
  ASSUME Control, RetainLate
  PROVE  Control'
PROOF
<1>1. op[Archiver].at = "later"
  BY DEF RetainLate, At
<1>2. /\ pass \in PassMemory /\ pass.left \subseteq born /\ Archiver \in Proc /\ op[Archiver].kind = "pass"
      /\ op \in [Proc -> Operation] /\ Placed(Archiver) /\ Asked(Archiver)
  BY <1>1, PassIs DEF Control, OpsOK, OnlyBorn
<1>3. DocsOK' /\ born' = born /\ UNCHANGED << gates, lanes, turns >>
  BY DocsStay DEF RetainLate, Control, lockVars
<1>4. PICK s \in pass.left :
        /\ BeginsToRetain(Archiver, s, IF pass.left = {s} THEN "idle" ELSE "later")
        /\ pass' = [pass EXCEPT !.left = @ \ {s}]
  BY DEF RetainLate, BeginsToRetain
<1>5. PICK after \in {"idle", "later"} : BeginsToRetain(Archiver, s, after)
  BY <1>4
<1>6. s \in born /\ s \in MaybeSession /\ after \in {"idle", "root", "doc", "later"}
  BY <1>2, <1>4, <1>5 DEF MaybeSession, Control, DocsOK
<1>7. /\ op' \in [Proc -> Operation] /\ \A q \in Proc : q # Archiver => op'[q] = op[q]
      /\ op'[Archiver].at = "chain" /\ op'[Archiver].who = s /\ op'[Archiver].after = after
      /\ op'[Archiver].kind = op[Archiver].kind /\ op'[Archiver].id = op[Archiver].id
      /\ op'[Archiver].to = op[Archiver].to /\ op'[Archiver].chain = op[Archiver].chain
  BY <1>2, <1>5, <1>6, RetainIs DEF Control
<1>8. /\ pass' \in PassMemory /\ pass'.ids = pass.ids /\ pass'.roots = pass.roots
      /\ pass'.leaving = pass.leaving /\ pass'.left \subseteq born
  BY <1>2, <1>4 DEF PassMemory
<1>9. Moves(Archiver)
  BY <1>3, <1>7, <1>8 DEF Moves
<1>10. Placed(Archiver)' /\ Asked(Archiver)'
  BY <1>2, <1>3, <1>5, <1>6, <1>7 DEF Placed, Asked, RetainsFor, Retaining
<1>11. OpsOK'
  BY <1>2, <1>3, <1>6, <1>7, <1>8, <1>9, <1>10, OpsMove DEF Control, OpsOK, OnlyBorn
<1>12. /\ LaneKeys(Archiver)' = {} /\ LaneKeys(Archiver) = {}
       /\ GateKeys(Archiver)' = {} /\ GateKeys(Archiver) = {}
       /\ Archiver \in LaneHolders /\ Archiver \in GateHolders
       /\ Archiver \notin TurnUsers' /\ Archiver \notin TurnUsers /\ Archiver \notin TurnHolders'
  BY <1>1, <1>2, <1>7 DEF LaneKeys, GateKeys, TurnUsers, TurnHolders, LaneHolders, GateHolders
<1> QED BY <1>2, <1>3, <1>9, <1>11, <1>12, LanesMove, GatesMove, TurnsMove DEF Control

LEMMA AgeKeeps ==
  ASSUME Control, NEW s \in Session, Age(s) \/ Unpin(s)
  PROVE  Control'
PROOF
<1>1. DocsOK' /\ born' = born
  BY DEF Age, Unpin, Control, DocsOK, LeadsAreBorn, Statuses, homeVars, countVars
<1> QED BY <1>1, OnlyDocsMove DEF Age, Unpin

(* Nobody is in any line. *)
AtRest ==
  /\ op = [p \in Proc |-> Idle] /\ pass = NoPass
  /\ gates = [s \in Session |-> << >>] /\ lanes = [s \in Session |-> << >>] /\ turns = << >>

LEMMA EmptyLines == DocsOK /\ AtRest => Control
PROOF
<1> SUFFICES ASSUME DocsOK, AtRest PROVE Control
  OBVIOUS
<1> USE DEF AtRest
<1>1. OpsOK
  BY Constants DEF OpsOK, OnlyBorn, Placed, Asked, RetainsFor, Idle, NoPass, Retaining
<1>2. \A p \in Proc : LaneKeys(p) = {} /\ GateKeys(p) = {}
  BY DEF LaneKeys, GateKeys, Idle, UnderDoc, RetainsFor, Retaining
<1>3. ASSUME NEW holders PROVE Orderly(<< >>, {}, holders)
  BY EmptySeq DEF Orderly, Once, Standing
<1>4. \A s \in Session : {p \in Proc : s \in Laned[p]} = {} /\ {p \in Proc : s \in Gated[p]} = {}
  BY <1>2 DEF Laned, Gated
<1>5. TurnUsers = {}
  BY DEF TurnUsers, Idle
<1> QED BY <1>1, <1>3, <1>4, <1>5, EmptySeq DEF Control, LanesOK, GatesOK, TurnsOK, InOrder

LEMMA RestartKeeps ==
  ASSUME Control, Restart
  PROVE  Control'
PROOF
<1>1. crashes' \in 0 .. MaxCrashes
  BY ArchiveConstants DEF Restart, Control, DocsOK
<1>2. DocsOK'
  BY <1>1 DEF Restart, LoadArchive, Control, DocsOK, LeadsAreBorn, docVars
<1>3. AtRest'
  BY DEF Restart, AtRest
<1>4. (DocsOK /\ AtRest => Control)'
  BY EmptyLines, PTL
<1> QED BY <1>2, <1>3, <1>4

LEMMA ControlInit == Init => Control
PROOF
<1> SUFFICES ASSUME Init PROVE Control
  OBVIOUS
<1>1. DocsOK
  BY ArchiveConstants DEF Init, DocsOK, LeadsAreBorn, Statuses, MaybeSession
<1> QED BY <1>1, EmptyLines DEF Init, AtRest

LEMMA StepKeeps ==
  ASSUME Control, NEW p \in Proc, Step(p) \/ RegistryFails(p)
  PROVE  Control'
BY ReadChainKeeps, RestoreRowsKeeps, WriteRegistryKeeps, PublishKeeps, RegistryFailsKeeps,
   ReadRootKeeps, EnterGateKeeps, EnterLaneKeeps, WriteDocKeeps, SyncRowKeeps, ProveParentKeeps,
   RetainPinnedKeeps, EnterAllKeeps, SweepKeeps DEF Step

LEMMA AskKeeps ==
  ASSUME Control, NEW p \in Writer, Ask(p)
  PROVE  Control'
BY AskStateKeeps, AskConfigKeeps, AskChildKeeps, PinKeeps, AskExclusiveKeeps DEF Ask

LEMMA PassKeeps ==
  ASSUME Control, Decide \/ PassStep \/ CommitFails
  PROVE  Control'
BY DecideKeeps, ReadRootsKeeps, EnterGatesKeeps, PassReadsKeep, VerifyKeeps, CommitKeeps,
   PublishPassKeeps, CommitFailsKeeps, LateKeeps, RetainLateKeeps DEF PassStep

LEMMA ControlNext ==
  ASSUME Control, [Next]_vars
  PROVE  Control'
PROOF
<1>1. CASE UNCHANGED vars
  <2>1. DocsOK' /\ born' = born
    BY <1>1, DocsStay DEF vars, docVars, homeVars, countVars, Control
  <2> QED BY <1>1, <2>1, OnlyDocsMove DEF vars
<1>2. CASE Next
  BY <1>2, AskKeeps, StepKeeps, PassKeeps, AgeKeeps, RestartKeeps DEF Next
<1> QED BY <1>1, <1>2

(* What every operation is doing, whom it retains and which lines it stands in,
   whatever is asked, fails and restarts. *)
THEOREM Controlled == Spec => []Control
BY ControlInit, ControlNext, PTL DEF Spec

(* Every variable holds a value of its kind. *)
THEOREM ArchiveTyped == Spec => []TypeOK
PROOF
<1>1. Control => TypeOK
  BY DEF Control, DocsOK, OpsOK, LanesOK, GatesOK, TurnsOK, InOrder, Orderly, TypeOK, MaybeSession
<1> QED BY <1>1, Controlled, PTL

-----------------------------------------------------------------------------
(* Homes. *)

(* The registry file, at each place of whoever has the turn. *)
FileFollows ==
  faults = 0 =>
    /\ FileIsMemory
    /\ \A p \in Proc : op[p].at = "publish" => file = archived \ op[p].chain
    /\ op[Archiver].at = "committed" => file = archived \cup pass.leaving

(* A session without a row has its writer at it; one with a row too many is
   being restored; and what a survey saw is live. *)
Restoring(p) == op[p].at \in {"write", "publish"}
RowsFollow ==
  /\ \A s \in Live \ index : \E p \in Proc : op[p].at = "row" /\ op[p].id = s
  /\ \A s \in index \cap archived : \E p \in Proc : Restoring(p) /\ s \in op[p].chain
  /\ \A p \in Proc : Restoring(p) => op[p].chain \subseteq index
  /\ \A p \in Proc : op[p].at = "survey" => op[p].chain \subseteq Live

(* What is being written is live, and what is leaving has ended. *)
Committing == op[Archiver].at \in {"commit", "committed"}
WrittenIsLive == \A p \in Proc : op[p].at \in {"doc", "row"} => op[p].id \notin archived
LeavingHasEnded ==
  Committing =>
    pass.leaving \subseteq Members(pass.ids) /\ \A s \in pass.leaving : status[s] = "ended"

Homes ==
  FileFollows /\ (faults = 0 => RowsFollow) /\ WrittenIsLive /\ LeavingHasEnded /\ RunningIsLive

(* Who has a turn or a lane has it alone. *)
LEMMA TurnIsHis ==
  ASSUME Control, NEW p \in Proc, TurnOf(p), NEW q \in Proc, q # p
  PROVE  op[q].at \notin {"write", "publish", "committed"}
BY HasTurn, OneTurn DEF Control

LEMMA HasLane ==
  ASSUME Control, NEW p \in Proc, NEW s \in Session, s \in LaneKeys(p), op[p].at \notin {"lane", "all"}
  PROVE  Ahead(lanes[s], p)
PROOF
<1>1. /\ p \in {q \in Proc : s \in Laned[q]} \cap LaneHolders
      /\ Orderly(lanes[s], {q \in Proc : s \in Laned[q]}, LaneHolders)
  BY DEF Control, LanesOK, InOrder, Laned, LaneHolders
<1> QED BY <1>1 DEF Orderly

LEMMA OneLane ==
  ASSUME Control, NEW p \in Proc, NEW q \in Proc, NEW s \in Session,
         s \in LaneKeys(p), op[p].at \notin {"lane", "all"},
         s \in LaneKeys(q), op[q].at \notin {"lane", "all"}
  PROVE  p = q
BY HasLane, OneAhead

LEMMA WriterHasLane ==
  ASSUME Control, NEW p \in Proc, op[p].at \in {"doc", "row"}
  PROVE  /\ op[p].id \in Session /\ LaneKeys(p) = {op[p].id} /\ p # Archiver
         /\ op[p].kind \in {"state", "config", "child"}
PROOF
<1>1. Placed(p) /\ Asked(p) /\ op[p] \in Operation
  BY DEF Control, OpsOK
<1>2. op[p].kind \in {"state", "config", "child"} /\ op[p].id \in Session
  BY <1>1 DEF Placed, Asked, RetainsFor, Retaining, Operation, Kinds, Control, DocsOK
<1> QED BY <1>1, <1>2 DEF LaneKeys, UnderDoc, Asked

(* Nothing is written of a session that is leaving. *)
LEMMA LeavingIsHeld ==
  ASSUME Control, LeavingHasEnded, Committing, NEW p \in Proc, op[p].at \in {"doc", "row"}
  PROVE  op[p].id \notin pass.leaving
PROOF
<1>1. op[p].id \in Session /\ LaneKeys(p) = {op[p].id} /\ p # Archiver
  BY WriterHasLane
<1>2. LaneKeys(Archiver) = Members(pass.ids) /\ Archiver \in Proc
  BY PassIs DEF Committing, LaneKeys, Control
<1>3. op[p].id \notin Members(pass.ids)
  BY <1>1, <1>2, OneLane DEF Committing
<1> QED BY <1>3 DEF LeavingHasEnded

(* Steps between places no home depends on. *)
LEMMA HomesUnmoved ==
  ASSUME Homes, NEW p \in Proc,
         UNCHANGED << born, status, homeVars, faults, crashes >>,
         \A q \in Proc : q # p => op'[q] = op[q],
         op[p].at \notin {"write", "publish", "committed", "row"},
         op'[p].at \notin {"write", "publish", "commit", "committed", "row", "survey"},
         op'[p].at = "doc" => op'[p].id \notin archived,
         p = Archiver \/ (pass'.leaving = pass.leaving /\ pass'.ids = pass.ids)
  PROVE  Homes'
PROOF
<1> USE DEF homeVars
<1>1. FileFollows'
  BY Constants DEF Homes, FileFollows, FileIsMemory
<1>2. ASSUME faults' = 0 PROVE RowsFollow'
  BY <1>2 DEF Homes, RowsFollow, Restoring, Live
<1>3. WrittenIsLive'
  BY DEF Homes, WrittenIsLive
<1>4. LeavingHasEnded'
  BY Constants DEF Homes, LeavingHasEnded, Committing
<1>5. RunningIsLive'
  BY DEF Homes, RunningIsLive
<1> QED BY <1>1, <1>2, <1>3, <1>4, <1>5 DEF Homes

(* The operation ends where no home depends on it. *)
LEMMA HomesAtEnd ==
  ASSUME Control, Homes, NEW p \in Proc, Ends(p),
         UNCHANGED << born, status, homeVars, faults, crashes >>,
         op[p].at \notin {"write", "publish", "committed", "row"}
  PROVE  Homes'
PROOF
<1>1. op'[p] = Idle /\ \A q \in Proc : q # p => op'[q] = op[q]
  BY DEF Ends, Control, OpsOK
<1>2. p = Archiver \/ pass' = pass
  BY DEF Ends
<1>3. op'[p].at = "idle"
  BY <1>1 DEF Idle
<1>4. p = Archiver \/ (pass'.leaving = pass.leaving /\ pass'.ids = pass.ids)
  BY <1>2
<1> QED BY <1>1, <1>3, <1>4, HomesUnmoved

LEMMA HomesRestoreRows ==
  ASSUME Control, Homes, NEW p \in Proc, RestoreRows(p)
  PROVE  Homes'
PROOF
<1>1. /\ op[p].at = "turn" /\ TurnOf(p) /\ op \in [Proc -> Operation] /\ Placed(p) /\ Asked(p)
      /\ UNCHANGED << parent, status, born, file, archived, faults, crashes >>
  BY DEF RestoreRows, At, Control, OpsOK, docVars, countVars
<1>2. CASE Restored(p) = {}
  <2>1. Resume(p) /\ index' = index
    BY <1>2 DEF RestoreRows
  <2>2. CASE op[p].after = "idle"
    BY <1>1, <2>1, <2>2, HomesAtEnd DEF Resume, homeVars
  <2>3. CASE op[p].after # "idle"
    <3>1. /\ \A q \in Proc : q # p => op'[q] = op[q]
          /\ op'[p].at = op[p].after /\ op'[p].id = op[p].id /\ pass' = pass
      BY <1>1, <2>1, <2>3 DEF Resume, Operation
    <3>2. op[p].after \in {"root", "doc", "later"}
      BY <1>1, <2>3 DEF Operation
    <3>3. op[p].after = "doc" => op[p].id \notin archived
      BY <1>1, <1>2 DEF Asked, Restored, Retaining
    <3> QED BY <1>1, <2>1, <3>1, <3>2, <3>3, HomesUnmoved DEF homeVars
  <2> QED BY <2>2, <2>3
<1>3. CASE Restored(p) # {}
  <2>1. GoesTo(p, "write") /\ index' = index \cup Restored(p) /\ pass' = pass
    BY <1>3 DEF RestoreRows
  <2>2. /\ op'[p].at = "write" /\ SameButAt(p) /\ \A q \in Proc : q # p => op'[q] = op[q]
    BY <1>1, <2>1, GoesToIs DEF Places, Retaining
  <2>3. /\ op'[p].chain = op[p].chain /\ op'[p].id = op[p].id /\ Restored(p) \subseteq op[p].chain
        /\ op[p].chain \subseteq index'
    BY <1>1, <2>1, <2>2 DEF SameButAt, Restored
  <2>4. FileFollows'
    BY <1>1, <2>1, <2>2, Constants DEF Homes, FileFollows, FileIsMemory
  <2>5. ASSUME faults' = 0 PROVE RowsFollow'
    <3>1. RowsFollow
      BY <1>1, <2>5 DEF Homes
    <3>2. \A s \in (Live \ index)' : \E q \in Proc : op'[q].at = "row" /\ op'[q].id = s
      BY <1>1, <2>1, <2>2, <3>1 DEF RowsFollow, Live
    <3>3. \A s \in (index \cap archived)' : \E q \in Proc : Restoring(q)' /\ s \in op'[q].chain
      BY <1>1, <2>1, <2>2, <2>3, <3>1 DEF RowsFollow, Restoring
    <3>4. \A q \in Proc : Restoring(q)' => op'[q].chain \subseteq index'
      BY <1>1, <2>1, <2>2, <2>3, <3>1 DEF RowsFollow, Restoring
    <3>5. \A q \in Proc : op'[q].at = "survey" => op'[q].chain \subseteq Live'
      BY <1>1, <2>1, <2>2, <2>3, <3>1 DEF RowsFollow, Live
    <3> QED BY <3>2, <3>3, <3>4, <3>5 DEF RowsFollow
  <2>6. WrittenIsLive'
    BY <1>1, <2>1, <2>2 DEF Homes, WrittenIsLive
  <2>7. LeavingHasEnded'
    BY <1>1, <2>1, <2>2, Constants DEF Homes, LeavingHasEnded, Committing
  <2>8. RunningIsLive'
    BY <1>1, <2>1 DEF Homes, RunningIsLive
  <2> QED BY <2>4, <2>5, <2>6, <2>7, <2>8 DEF Homes
<1> QED BY <1>2, <1>3

(* Requests, and steps of one operation that only read. *)
LEMMA HomesAsk ==
  ASSUME Control, Homes, NEW p \in Writer, Ask(p)
  PROVE  Homes'
PROOF
<1>1. /\ op[p].at = "idle" /\ p # Archiver /\ op \in [Proc -> Operation] /\ p \in Proc
  BY ArchiveConstants DEF Ask, AskState, AskConfig, AskChild, Pin, AskExclusive, Begins, At, Control, OpsOK, Proc
<1>2. /\ UNCHANGED << born, status, homeVars, faults, crashes >>
      /\ pass'.leaving = pass.leaving /\ pass'.ids = pass.ids
  <2>1. CASE AskChild(p)
    BY <2>1 DEF AskChild, docVars, Control, OpsOK, PassMemory
  <2> QED BY <2>1 DEF Ask, AskState, AskConfig, Pin, AskExclusive, docVars
<1>3. /\ \A q \in Proc : q # p => op'[q] = op[q]
      /\ op'[p].at \in {"lane", "root", "chain", "pinned", "all"}
  <2>1. CASE AskChild(p)
    <3>1. PICK r \in Requests : op' = [op EXCEPT ![p] = [Idle EXCEPT !.kind = "child", !.at = "chain",
                                         !.id = r.id, !.to = r.to, !.who = r.to, !.after = "root"]]
      BY <2>1 DEF AskChild
    <3> QED BY <1>1, <3>1 DEF Idle
  <2>2. CASE \E r \in Requests, at \in {"lane", "root", "pinned", "all"} : Begins(p, r, at)
    <3>1. PICK r \in Requests, at \in {"lane", "root", "pinned", "all"} : Begins(p, r, at)
      BY <2>2
    <3> QED BY <1>1, <3>1 DEF Begins, Idle
  <2> QED BY <2>1, <2>2 DEF Ask, AskState, AskConfig, Pin, AskExclusive
<1> QED BY <1>1, <1>2, <1>3, HomesUnmoved

LEMMA HomesReadChain ==
  ASSUME Control, Homes, NEW p \in Proc, ReadChain(p)
  PROVE  Homes'
PROOF
<1>1. /\ op[p].at = "chain" /\ op \in [Proc -> Operation] /\ pass' = pass
      /\ UNCHANGED << born, status, homeVars, faults, crashes >>
  BY DEF ReadChain, At, Control, OpsOK, docVars, countVars
<1>2. op'[p].at = "turn" /\ \A q \in Proc : q # p => op'[q] = op[q]
  BY <1>1 DEF ReadChain, Operation
<1> QED BY <1>1, <1>2, HomesUnmoved

(* A step to another place. *)
LEMMA HomesGoesTo ==
  ASSUME Control, Homes, NEW p \in Proc, NEW at \in {"doc", "sweep"}, GoesTo(p, at),
         UNCHANGED << born, status, homeVars, faults, crashes >>,
         at = "doc" => op[p].id \notin archived,
         op[p].at \notin {"write", "publish", "committed", "row"},
         p = Archiver \/ (pass'.leaving = pass.leaving /\ pass'.ids = pass.ids)
  PROVE  Homes'
PROOF
<1>1. /\ op'[p].at = at /\ op'[p].id = op[p].id /\ \A q \in Proc : q # p => op'[q] = op[q]
  BY GoesToIs DEF Places, SameButAt, Control, OpsOK
<1> QED BY <1>1, HomesUnmoved

(* A retention begins. *)
LEMMA HomesRetain ==
  ASSUME Control, Homes, NEW p \in Proc, NEW s, NEW after, Retain(p, s, after),
         UNCHANGED << born, status, homeVars, faults, crashes >>,
         op[p].at \notin {"write", "publish", "committed", "row"}
  PROVE  Homes'
PROOF
<1>1. /\ op \in [Proc -> Operation] /\ pass \in PassMemory
  BY DEF Control, OpsOK
<1>2. op'[p].at = "chain" /\ \A q \in Proc : q # p => op'[q] = op[q]
  BY <1>1 DEF Retain, Operation
<1>3. pass'.leaving = pass.leaving /\ pass'.ids = pass.ids
  BY <1>1 DEF Retain, PassMemory
<1> QED BY <1>2, <1>3, HomesUnmoved

LEMMA HomesReadRoot ==
  ASSUME Control, Homes, NEW p \in Proc, ReadRoot(p) \/ EnterGate(p)
  PROVE  Homes'
PROOF
<1>1. /\ op[p].at \in {"root", "gate"} /\ op \in [Proc -> Operation]
      /\ UNCHANGED << born, status, homeVars, faults, crashes >>
  BY DEF ReadRoot, EnterGate, At, Control, OpsOK, docVars, countVars
<1>2. CASE Ends(p)
  BY <1>1, <1>2, HomesAtEnd
<1>3. CASE ~Ends(p)
  <2>1. /\ pass' = pass /\ \A q \in Proc : q # p => op'[q] = op[q]
        /\ op'[p].at \in {"root", "gate", "lane"}
    <3>1. CASE ReadRoot(p)
      BY <1>1, <3>1 DEF ReadRoot, Operation
    <3>2. CASE EnterGate(p)
      BY <1>1, <1>3, <3>2 DEF EnterGate, Operation
    <3> QED BY <3>1, <3>2
  <2> QED BY <1>1, <2>1, HomesUnmoved
<1> QED BY <1>2, <1>3

LEMMA HomesEnterLane ==
  ASSUME Control, Homes, NEW p \in Proc, EnterLane(p)
  PROVE  Homes'
PROOF
<1>1. /\ op[p].at = "lane" /\ UNCHANGED << born, status, homeVars, faults, crashes >>
  BY DEF EnterLane, At, docVars, countVars
<1> QED BY <1>1, HomesRetain, HomesGoesTo DEF EnterLane, Revives

LEMMA HomesProveParent ==
  ASSUME Control, Homes, NEW p \in Proc, ProveParent(p) \/ RetainPinned(p)
  PROVE  Homes'
PROOF
<1>1. /\ op[p].at \in {"proof", "pinned"} /\ UNCHANGED << born, status, homeVars, faults, crashes >>
  BY DEF ProveParent, RetainPinned, At, docVars, countVars
<1> QED BY <1>1, HomesRetain, HomesAtEnd DEF ProveParent, RetainPinned

LEMMA HomesEnterAll ==
  ASSUME Control, Homes, NEW p \in Proc, EnterAll(p)
  PROVE  Homes'
PROOF
<1>1. /\ op[p].at = "all" /\ op \in [Proc -> Operation] /\ pass' = pass
      /\ UNCHANGED << born, status, homeVars, faults, crashes >>
  BY DEF EnterAll, At, docVars, countVars, Control, OpsOK
<1>2. CASE op[p].kind = "sweep"
  BY <1>1, <1>2, HomesGoesTo DEF EnterAll
<1>3. CASE op[p].kind # "sweep"
  <2>1. /\ op'[p].at = "survey" /\ op'[p].chain = Live /\ \A q \in Proc : q # p => op'[q] = op[q]
    BY <1>1, <1>3 DEF EnterAll, Operation
  <2> USE DEF homeVars
  <2>2. FileFollows'
    BY <1>1, <2>1, Constants DEF Homes, FileFollows, FileIsMemory
  <2>3. ASSUME faults' = 0 PROVE RowsFollow'
    <3>1. RowsFollow /\ UNCHANGED << Live, index, archived >>
      BY <1>1, <2>3 DEF Homes, Live
    <3>2. \A q \in Proc : Restoring(q)' => Restoring(q) /\ op'[q] = op[q]
      BY <1>1, <2>1 DEF Restoring
    <3>3. \A s \in (Live \ index)' : \E q \in Proc : op'[q].at = "row" /\ op'[q].id = s
      BY <1>1, <2>1, <3>1 DEF RowsFollow
    <3>4. \A s \in (index \cap archived)' : \E q \in Proc : Restoring(q)' /\ s \in op'[q].chain
      BY <1>1, <2>1, <3>1 DEF RowsFollow, Restoring
    <3>5. \A q \in Proc : op'[q].at = "survey" => op'[q].chain \subseteq Live'
      BY <2>1, <3>1 DEF RowsFollow
    <3> QED BY <3>1, <3>2, <3>3, <3>4, <3>5 DEF RowsFollow
  <2>4. WrittenIsLive' /\ RunningIsLive'
    BY <1>1, <2>1 DEF Homes, WrittenIsLive, RunningIsLive
  <2>5. LeavingHasEnded'
    BY <1>1, <2>1, Constants DEF Homes, LeavingHasEnded, Committing
  <2> QED BY <2>2, <2>3, <2>4, <2>5 DEF Homes
<1> QED BY <1>2, <1>3

LEMMA HomesWriteRegistry ==
  ASSUME Control, Homes, NEW p \in Proc, WriteRegistry(p)
  PROVE  Homes'
PROOF
<1>1. /\ op[p].at = "write" /\ file' = archived \ op[p].chain /\ op \in [Proc -> Operation] /\ pass' = pass
      /\ UNCHANGED << born, status, archived, index, faults, crashes >>
  BY DEF WriteRegistry, At, docVars, countVars, Control, OpsOK
<1>2. /\ op'[p].at = "publish" /\ op'[p].chain = op[p].chain /\ \A q \in Proc : q # p => op'[q] = op[q]
  BY <1>1, GoesToIs DEF Places, Retaining, SameButAt, WriteRegistry
<1>3. \A q \in Proc : q # p => op[q].at \notin {"write", "publish", "committed"}
  BY <1>1, HasTurn, TurnIsHis DEF Control
<1>4. FileFollows'
  BY <1>1, <1>2, <1>3, Constants DEF FileFollows, FileIsMemory
<1>5. ASSUME faults' = 0 PROVE RowsFollow'
  <2>1. RowsFollow /\ UNCHANGED << Live, index, archived >>
    BY <1>1, <1>5 DEF Homes, Live
  <2>2. \A q \in Proc : (Restoring(q)' <=> Restoring(q)) /\ op'[q].chain = op[q].chain
    BY <1>1, <1>2 DEF Restoring
  <2>3. \A s \in (Live \ index)' : \E q \in Proc : op'[q].at = "row" /\ op'[q].id = s
    BY <1>1, <1>2, <2>1 DEF RowsFollow
  <2>4. \A s \in (index \cap archived)' : \E q \in Proc : Restoring(q)' /\ s \in op'[q].chain
    BY <2>1, <2>2 DEF RowsFollow
  <2>5. \A q \in Proc : op'[q].at = "survey" => op'[q].chain \subseteq Live'
    BY <1>2, <2>1 DEF RowsFollow
  <2> QED BY <2>1, <2>2, <2>3, <2>4, <2>5 DEF RowsFollow
<1>6. WrittenIsLive' /\ RunningIsLive'
  BY <1>1, <1>2 DEF Homes, WrittenIsLive, RunningIsLive
<1>7. LeavingHasEnded'
  BY <1>1, <1>2, Constants DEF Homes, LeavingHasEnded, Committing
<1> QED BY <1>4, <1>5, <1>6, <1>7 DEF Homes

(* The caller goes on, or is done. *)
LEMMA ResumeIs ==
  ASSUME Control, NEW p \in Proc, op[p].at \in {"turn", "publish"}, Resume(p)
  PROVE  /\ op'[p].at \in {"idle", "root", "doc", "later"} /\ \A q \in Proc : q # p => op'[q] = op[q]
         /\ op'[p].at = "doc" => op'[p].id = op[p].id /\ op[p].after = "doc"
         /\ p = Archiver \/ (pass'.leaving = pass.leaving /\ pass'.ids = pass.ids)
PROOF
<1>1. op \in [Proc -> Operation]
  BY DEF Control, OpsOK
<1>2. CASE op[p].after = "idle"
  BY <1>1, <1>2 DEF Resume, Ends, Idle
<1>3. CASE op[p].after # "idle"
  <2>1. /\ op'[p].at = op[p].after /\ op'[p].id = op[p].id /\ \A q \in Proc : q # p => op'[q] = op[q]
        /\ pass' = pass
    BY <1>1, <1>3 DEF Resume, Operation
  <2>2. op[p].after \in {"root", "doc", "later"}
    BY <1>1, <1>3 DEF Operation
  <2> QED BY <2>1, <2>2
<1> QED BY <1>2, <1>3

LEMMA HomesPublish ==
  ASSUME Control, Homes, NEW p \in Proc, Publish(p)
  PROVE  Homes'
PROOF
<1>1. /\ op[p].at = "publish" /\ archived' = archived \ op[p].chain /\ Resume(p)
      /\ UNCHANGED << born, status, file, index, faults, crashes >> /\ Asked(p)
  BY DEF Publish, At, docVars, countVars, Control, OpsOK
<1>2. /\ op'[p].at \in {"idle", "root", "doc", "later"} /\ \A q \in Proc : q # p => op'[q] = op[q]
      /\ op'[p].at = "doc" => op'[p].id = op[p].id /\ op[p].after = "doc"
      /\ p = Archiver \/ (pass'.leaving = pass.leaving /\ pass'.ids = pass.ids)
  BY <1>1, ResumeIs
<1>3. \A q \in Proc : q # p => op[q].at \notin {"write", "publish", "committed"}
  BY <1>1, HasTurn, TurnIsHis DEF Control
<1>4. \A q \in Proc : op'[q].at \notin {"write", "publish", "committed"}
  BY <1>2, <1>3
<1>5. FileFollows'
  BY <1>1, <1>4, Constants DEF Homes, FileFollows, FileIsMemory
<1>6. ASSUME faults' = 0 PROVE RowsFollow'
  <2>1. RowsFollow /\ op[p].chain \subseteq index
    BY <1>1, <1>6 DEF Homes, RowsFollow, Restoring
  <2>2. \A s \in (Live \ index)' : \E q \in Proc : op'[q].at = "row" /\ op'[q].id = s
    <3>1. (Live \ index)' \subseteq Live \ index
      BY <1>1, <2>1 DEF Live
    <3> QED BY <1>1, <1>2, <2>1, <3>1 DEF RowsFollow
  <2>3. (index \cap archived)' = {}
    BY <1>1, <1>3, <2>1 DEF RowsFollow, Restoring
  <2>4. \A q \in Proc : op'[q].at = "survey" => op'[q].chain \subseteq Live'
    BY <1>1, <1>2, <2>1 DEF RowsFollow, Live
  <2> QED BY <1>4, <2>2, <2>3, <2>4 DEF RowsFollow, Restoring
<1>7. WrittenIsLive'
  <2>1. op'[p].at = "doc" => op'[p].id \notin archived'
    BY <1>1, <1>2 DEF Asked, Retaining
  <2> QED BY <1>1, <1>2, <2>1 DEF Homes, WrittenIsLive
<1>8. RunningIsLive'
  BY <1>1 DEF Homes, RunningIsLive
<1>9. LeavingHasEnded'
  BY <1>1, <1>2, Constants DEF Homes, LeavingHasEnded, Committing
<1> QED BY <1>5, <1>6, <1>7, <1>8, <1>9 DEF Homes

(* A write of the registry throws: what holds from here on is little. *)
LEMMA HomesFail ==
  ASSUME Control, Homes, NEW p \in Proc, Ends(p), faults' = faults + 1,
         UNCHANGED << born, status, archived, index, crashes >>
  PROVE  Homes'
PROOF
<1>1. faults' # 0
  BY ArchiveConstants DEF Control, DocsOK
<1>2. op'[p] = Idle /\ \A q \in Proc : q # p => op'[q] = op[q]
  BY DEF Ends, Control, OpsOK
<1>3. p = Archiver \/ pass' = pass
  BY DEF Ends
<1>4. WrittenIsLive' /\ RunningIsLive'
  BY <1>1, <1>2 DEF Homes, WrittenIsLive, RunningIsLive, Idle
<1>5. LeavingHasEnded'
  BY <1>2, <1>3, Constants DEF Homes, LeavingHasEnded, Committing, Idle
<1> QED BY <1>1, <1>4, <1>5 DEF Homes, FileFollows

LEMMA HomesWriteDoc ==
  ASSUME Control, Homes, NEW p \in Proc, WriteDoc(p)
  PROVE  Homes'
PROOF
<1> DEFINE s == op[p].id
<1>1. /\ op[p].at = "doc" /\ op \in [Proc -> Operation] /\ pass' = pass /\ status \in [Session -> Statuses]
      /\ UNCHANGED << file, archived, index, faults, crashes >>
  BY DEF WriteDoc, At, homeVars, countVars, Control, OpsOK, DocsOK
<1>2. s \in Session /\ s \notin archived /\ p # Archiver
  BY <1>1, WriterHasLane DEF Homes, WrittenIsLive
<1>3. born' \in {born, born \cup {s}} /\ \A x \in Session : x # s => status'[x] = status[x]
  BY <1>1 DEF WriteDoc
<1>4. /\ op'[p].at = "row" /\ op'[p].id = s /\ \A q \in Proc : q # p => op'[q] = op[q]
  BY <1>1, GoesToIs DEF Places, SameButAt, WriteDoc
<1>5. FileFollows'
  BY <1>1, <1>4, Constants DEF Homes, FileFollows, FileIsMemory
<1>6. ASSUME faults' = 0 PROVE RowsFollow'
  <2>1. RowsFollow
    BY <1>1, <1>6 DEF Homes
  <2>2. Live' \in {Live, Live \cup {s}}
    BY <1>1, <1>2, <1>3 DEF Live
  <2>3. \A x \in (Live \ index)' : \E q \in Proc : op'[q].at = "row" /\ op'[q].id = x
    BY <1>1, <1>4, <2>1, <2>2 DEF RowsFollow
  <2>4. \A x \in (index \cap archived)' : \E q \in Proc : Restoring(q)' /\ x \in op'[q].chain
    BY <1>1, <1>4, <2>1 DEF RowsFollow, Restoring
  <2>5. \A q \in Proc : Restoring(q)' => op'[q].chain \subseteq index'
    BY <1>1, <1>4, <2>1 DEF RowsFollow, Restoring
  <2>6. \A q \in Proc : op'[q].at = "survey" => op'[q].chain \subseteq Live'
    BY <1>1, <1>4, <2>1, <2>2 DEF RowsFollow
  <2> QED BY <2>3, <2>4, <2>5, <2>6 DEF RowsFollow
<1>7. WrittenIsLive'
  BY <1>1, <1>2, <1>4 DEF Homes, WrittenIsLive
<1>8. RunningIsLive'
  BY <1>1, <1>2, <1>3 DEF Homes, RunningIsLive, Control, DocsOK
<1>9. LeavingHasEnded'
  <2>1. Committing' <=> Committing
    BY <1>2, <1>4, Constants DEF Committing
  <2>2. Committing => s \notin pass.leaving
    BY <1>1, LeavingIsHeld DEF Homes
  <2>3. pass.leaving \subseteq Session
    BY DEF Control, OpsOK, PassMemory
  <2> QED BY <1>1, <1>3, <2>1, <2>2, <2>3 DEF Homes, LeavingHasEnded
<1> QED BY <1>5, <1>6, <1>7, <1>8, <1>9 DEF Homes

LEMMA HomesSyncRow ==
  ASSUME Control, Homes, NEW p \in Proc, SyncRow(p)
  PROVE  Homes'
PROOF
<1> DEFINE s == op[p].id
<1>1. /\ op[p].at = "row" /\ op \in [Proc -> Operation] /\ index' = index \cup {s}
      /\ UNCHANGED << born, status, file, archived, faults, crashes >>
  BY DEF SyncRow, At, docVars, countVars, Control, OpsOK
<1>2. s \in Session /\ s \notin archived /\ p # Archiver
  BY <1>1, WriterHasLane DEF Homes, WrittenIsLive
<1>3. /\ op'[p].at \in {"idle", "proof"} /\ pass' = pass /\ \A q \in Proc : q # p => op'[q] = op[q]
  <2>1. CASE op[p].kind = "state"
    BY <1>1, <1>2, <2>1 DEF SyncRow, Ends, Idle
  <2>2. CASE op[p].kind # "state"
    BY <1>1, <2>2, GoesToIs DEF SyncRow, Places
  <2> QED BY <2>1, <2>2
<1>4. FileFollows'
  BY <1>1, <1>3, Constants DEF Homes, FileFollows, FileIsMemory
<1>5. ASSUME faults' = 0 PROVE RowsFollow'
  <2>1. RowsFollow
    BY <1>1, <1>5 DEF Homes
  <2>2. \A x \in (Live \ index)' : \E q \in Proc : op'[q].at = "row" /\ op'[q].id = x
    BY <1>1, <1>3, <2>1 DEF RowsFollow, Live
  <2>3. \A x \in (index \cap archived)' : \E q \in Proc : Restoring(q)' /\ x \in op'[q].chain
    BY <1>1, <1>2, <1>3, <2>1 DEF RowsFollow, Restoring
  <2>4. \A q \in Proc : Restoring(q)' => op'[q].chain \subseteq index'
    BY <1>1, <1>3, <2>1 DEF RowsFollow, Restoring
  <2>5. \A q \in Proc : op'[q].at = "survey" => op'[q].chain \subseteq Live'
    BY <1>1, <1>3, <2>1 DEF RowsFollow, Live
  <2> QED BY <2>2, <2>3, <2>4, <2>5 DEF RowsFollow
<1>6. WrittenIsLive' /\ RunningIsLive'
  BY <1>1, <1>3 DEF Homes, WrittenIsLive, RunningIsLive
<1>7. LeavingHasEnded'
  BY <1>1, <1>3, Constants DEF Homes, LeavingHasEnded, Committing
<1> QED BY <1>4, <1>5, <1>6, <1>7 DEF Homes

(* A sweep has the turn, and leaves the rows of what is live. *)
LEMMA HomesSweep ==
  ASSUME Control, Homes, NEW p \in Proc, Sweep(p) \/ Survey(p)
  PROVE  Homes'
PROOF
<1>1. /\ op[p].at \in {"sweep", "survey"} /\ Ends(p) /\ op \in [Proc -> Operation]
      /\ UNCHANGED << born, status, file, archived, faults, crashes >>
  BY DEF Sweep, Survey, At, docVars, countVars, Control, OpsOK
<1>2. op'[p] = Idle /\ \A q \in Proc : q # p => op'[q] = op[q]
  BY <1>1 DEF Ends
<1>3. p = Archiver \/ pass' = pass
  BY <1>1 DEF Ends
<1>4. FileFollows'
  BY <1>1, <1>2, <1>3, Constants DEF Homes, FileFollows, FileIsMemory, Idle
<1>5. ASSUME faults' = 0 PROVE RowsFollow'
  <2>1. RowsFollow
    BY <1>1, <1>5 DEF Homes
  <2>2. CASE Sweep(p)
    <3>1. index' = Live /\ \A q \in Proc : q # p => ~Restoring(q)
      BY <2>2, TurnIsHis DEF Sweep, SweepRows, Restoring
    <3>2. Live' = Live
      BY <1>1 DEF Live
    <3>3. \A q \in Proc : ~Restoring(q)'
      BY <1>2, <3>1 DEF Restoring, Idle
    <3>4. \A q \in Proc : op'[q].at = "survey" => op'[q].chain \subseteq Live'
      BY <1>1, <1>2, <2>1, <3>2 DEF RowsFollow, Idle
    <3> QED BY <1>1, <3>1, <3>2, <3>3, <3>4 DEF RowsFollow, Live
  <2>3. CASE Survey(p)
    <3>1. op[p].chain \subseteq Live /\ index' \in {index, index \cup op[p].chain}
      BY <2>1, <2>3 DEF Survey, RowsFollow, At
    <3>2. Live' = Live
      BY <1>1 DEF Live
    <3>3. \A x \in (Live \ index)' : \E q \in Proc : op'[q].at = "row" /\ op'[q].id = x
      BY <1>1, <1>2, <2>1, <3>1, <3>2 DEF RowsFollow
    <3>4. (index \cap archived)' \subseteq index \cap archived
      BY <1>1, <3>1 DEF Live
    <3>5. \A x \in (index \cap archived)' : \E q \in Proc : Restoring(q)' /\ x \in op'[q].chain
      BY <1>1, <1>2, <2>1, <3>4 DEF RowsFollow, Restoring
    <3>6. \A q \in Proc : Restoring(q)' => op'[q].chain \subseteq index'
      BY <1>1, <1>2, <2>1, <3>1 DEF RowsFollow, Restoring, Idle
    <3>7. \A q \in Proc : op'[q].at = "survey" => op'[q].chain \subseteq Live'
      BY <1>1, <1>2, <2>1, <3>2 DEF RowsFollow, Idle
    <3> QED BY <3>3, <3>5, <3>6, <3>7 DEF RowsFollow
  <2> QED BY <2>2, <2>3
<1>6. WrittenIsLive' /\ RunningIsLive'
  BY <1>1, <1>2 DEF Homes, WrittenIsLive, RunningIsLive, Idle
<1>7. LeavingHasEnded'
  BY <1>1, <1>2, <1>3, Constants DEF Homes, LeavingHasEnded, Committing, Idle
<1> QED BY <1>4, <1>5, <1>6, <1>7 DEF Homes

(* The pass, up to its verification. *)
LEMMA HomesPassReads ==
  ASSUME Control, Homes,
         Decide \/ ReadRoots \/ EnterGates \/ EnterLanes \/ ReadKeeps \/ ListLive \/ Late \/ RetainLate
  PROVE  Homes'
PROOF
<1> DEFINE places == {"root", "gate", "lane", "keeps", "list", "verify", "chain", "later"}
<1>1. /\ op[Archiver].at \in {"idle", "root", "gate", "lane", "keeps", "list", "late", "later"}
      /\ Archiver \in Proc /\ op \in [Proc -> Operation]
      /\ UNCHANGED << born, status, homeVars, faults, crashes >>
  BY Constants DEF Decide, ReadRoots, EnterGates, EnterLanes, ReadKeeps, ListLive, Late, RetainLate, At,
     docVars, countVars, Control, OpsOK
<1>2. CASE Ends(Archiver)
  BY <1>1, <1>2, HomesAtEnd
<1>3. CASE ~Ends(Archiver)
  <2>1. /\ op'[Archiver].at \in places /\ \A q \in Proc : q # Archiver => op'[q] = op[q]
    <3>1. CASE Decide
      BY <1>1, <3>1 DEF Decide, Idle
    <3>2. CASE EnterGates
      BY <1>1, <1>3, <3>2 DEF EnterGates, GoesTo, Operation
    <3>3. CASE RetainLate
      <4>1. PICK s \in pass.left :
              op' = [op EXCEPT ![Archiver].at = "chain", ![Archiver].who = s,
                               ![Archiver].after = IF pass.left = {s} THEN "idle" ELSE "later"]
        BY <3>3 DEF RetainLate
      <4> QED BY <1>1, <4>1 DEF Operation
    <3>4. CASE ReadRoots \/ EnterLanes \/ ReadKeeps \/ ListLive \/ Late
      <4>1. PICK at \in {"gate", "keeps", "list", "verify", "later"} : GoesTo(Archiver, at)
        BY <1>3, <3>4 DEF ReadRoots, EnterLanes, ReadKeeps, ListLive, Late
      <4> QED BY <1>1, <4>1, GoesToIs DEF Places
    <3> QED BY <3>1, <3>2, <3>3, <3>4
  <2> QED BY <1>1, <2>1, HomesUnmoved
<1> QED BY <1>2, <1>3

LEMMA HomesVerify ==
  ASSUME Control, Homes, Verify
  PROVE  Homes'
PROOF
<1>1. /\ op[Archiver].at = "verify" /\ UNCHANGED << born, status, homeVars, faults, crashes >>
      /\ op \in [Proc -> Operation] /\ Archiver \in Proc /\ pass \in PassMemory
      /\ Members(pass.ids) \subseteq Session
  BY PassIs DEF Verify, At, docVars, countVars, Control
<1>2. PICK out \in SUBSET Members(pass.ids) :
        /\ Leaving(out)
        /\ \/ Ends(Archiver)
           \/ pass' = [pass EXCEPT !.leaving = out] /\ GoesTo(Archiver, "commit")
  BY DEF Verify
<1>3. CASE Ends(Archiver)
  BY <1>1, <1>3, HomesAtEnd
<1>4. CASE pass' = [pass EXCEPT !.leaving = out] /\ GoesTo(Archiver, "commit")
  <2>1. op'[Archiver].at = "commit" /\ \A q \in Proc : q # Archiver => op'[q] = op[q]
    BY <1>1, <1>4, GoesToIs DEF Places
  <2>2. pass'.leaving = out /\ pass'.ids = pass.ids
    BY <1>1, <1>4 DEF PassMemory
  <2>3. \A s \in out : status[s] = "ended"
    <3>1. ASSUME NEW s \in out PROVE StillMay(s)
      <4>1. PICK i \in DOMAIN pass.ids : s = pass.ids[i]
        BY <1>2 DEF Members
      <4> QED BY <1>2, <4>1 DEF Leaving
    <3> QED BY <3>1 DEF StillMay, MayLeave
  <2>4. LeavingHasEnded'
    BY <1>1, <1>2, <2>2, <2>3 DEF LeavingHasEnded, Members
  <2> USE DEF homeVars
  <2>5. FileFollows'
    BY <1>1, <2>1 DEF Homes, FileFollows, FileIsMemory
  <2>6. ASSUME faults' = 0 PROVE RowsFollow'
    BY <1>1, <2>1, <2>6 DEF Homes, RowsFollow, Restoring, Live
  <2>7. WrittenIsLive' /\ RunningIsLive'
    BY <1>1, <2>1 DEF Homes, WrittenIsLive, RunningIsLive
  <2> QED BY <2>4, <2>5, <2>6, <2>7 DEF Homes
<1> QED BY <1>2, <1>3, <1>4

(* Whoever has the turn writes the file and is done. *)
LEMMA HomesFileEnds ==
  ASSUME Control, Homes, NEW p \in Proc, TurnOf(p), Ends(p), file' = archived,
         op[p].at # "row", ~Restoring(p), UNCHANGED << born, status, archived, index, faults, crashes >>
  PROVE  Homes'
PROOF
<1>1. op'[p].at = "idle" /\ \A q \in Proc : q # p => op'[q] = op[q]
  BY DEF Ends, Control, OpsOK, Idle
<1>2. p = Archiver \/ pass' = pass
  BY DEF Ends
<1>3. \A q \in Proc : op'[q].at \notin {"write", "publish", "committed"}
  BY <1>1, TurnIsHis
<1>4. FileFollows'
  BY <1>3, Constants DEF FileFollows, FileIsMemory
<1>5. ASSUME faults' = 0 PROVE RowsFollow'
  BY <1>1, <1>5 DEF Homes, RowsFollow, Restoring, Live
<1>6. WrittenIsLive' /\ RunningIsLive'
  BY <1>1 DEF Homes, WrittenIsLive, RunningIsLive
<1>7. LeavingHasEnded'
  BY <1>1, <1>2, Constants DEF Homes, LeavingHasEnded, Committing
<1> QED BY <1>4, <1>5, <1>6, <1>7 DEF Homes

LEMMA HomesCommit ==
  ASSUME Control, Homes, Commit
  PROVE  Homes'
PROOF
<1>1. /\ op[Archiver].at = "commit" /\ TurnOf(Archiver) /\ Archiver \in Proc /\ op \in [Proc -> Operation]
      /\ UNCHANGED << born, status, archived, index, faults, crashes >>
  BY Constants DEF Commit, At, docVars, countVars, Control, OpsOK
<1>2. \A q \in Proc : q # Archiver => op[q].at \notin {"write", "publish", "committed"}
  BY <1>1, TurnIsHis
<1>3. CASE ~Valid
  BY <1>1, <1>3, HomesAtEnd DEF Commit, homeVars
<1>4. CASE Valid
  <2>1. file' = archived \cup pass.leaving /\ pass' = pass /\ GoesTo(Archiver, "committed")
    BY <1>4 DEF Commit
  <2>2. op'[Archiver].at = "committed" /\ \A q \in Proc : q # Archiver => op'[q] = op[q]
    BY <1>1, <2>1, GoesToIs DEF Places
  <2>3. FileFollows'
    BY <1>1, <1>2, <2>1, <2>2 DEF FileFollows, FileIsMemory
  <2>4. ASSUME faults' = 0 PROVE RowsFollow'
    BY <1>1, <2>2, <2>4 DEF Homes, RowsFollow, Restoring, Live
  <2>5. WrittenIsLive' /\ RunningIsLive'
    BY <1>1, <2>2 DEF Homes, WrittenIsLive, RunningIsLive
  <2>6. LeavingHasEnded'
    BY <1>1, <2>1 DEF Homes, LeavingHasEnded, Committing
  <2> QED BY <2>3, <2>4, <2>5, <2>6 DEF Homes
<1> QED BY <1>3, <1>4

(* What the pass publishes had ended, and nobody is at its documents or rows. *)
LEMMA HomesPublishPass ==
  ASSUME Control, Homes, PublishPass
  PROVE  Homes'
PROOF
<1>1. /\ op[Archiver].at = "committed" /\ Archiver \in Proc /\ op \in [Proc -> Operation]
      /\ UNCHANGED << born, status, faults, crashes >> /\ pass.leaving \subseteq Session
  BY Constants DEF PublishPass, At, docVars, countVars, Control, OpsOK, PassMemory
<1>2. TurnOf(Archiver) /\ \A q \in Proc : q # Archiver => op[q].at \notin {"write", "publish", "committed"}
  BY <1>1, HasTurn, TurnIsHis DEF Control
<1>3. CASE ~Valid
  BY <1>1, <1>2, <1>3, HomesFileEnds DEF PublishPass, Restoring
<1>4. CASE Valid
  <2>1. /\ archived' = archived \cup pass.leaving /\ index' = index \ pass.leaving /\ file' = file
        /\ op' = [op EXCEPT ![Archiver] = [Idle EXCEPT !.kind = "pass", !.at = "late"]]
    BY <1>4 DEF PublishPass
  <2>2. op'[Archiver].at = "late" /\ \A q \in Proc : q # Archiver => op'[q] = op[q]
    BY <1>1, <2>1 DEF Idle
  <2>3. \A q \in Proc : op'[q].at \notin {"write", "publish", "committed"}
    BY <1>2, <2>2
  <2>4. FileFollows'
    BY <1>1, <2>1, <2>3 DEF Homes, FileFollows, FileIsMemory
  <2>5. ASSUME faults' = 0 PROVE RowsFollow'
    <3>1. RowsFollow
      BY <1>1, <2>5 DEF Homes
    <3>2. Live' = Live \ pass.leaving
      BY <1>1, <2>1 DEF Live
    <3>3. \A s \in (Live \ index)' : \E q \in Proc : op'[q].at = "row" /\ op'[q].id = s
      BY <1>1, <2>1, <2>2, <3>1, <3>2 DEF RowsFollow
    <3>4. (index \cap archived)' = {}
      BY <1>1, <1>2, <2>1, <3>1 DEF RowsFollow, Restoring
    <3>5. ASSUME NEW q \in Proc, op'[q].at = "survey" PROVE op'[q].chain \subseteq Live'
      <4>1. q # Archiver /\ op'[q] = op[q] /\ op[q].at = "survey" /\ op[q].chain \subseteq Live
        BY <1>1, <2>2, <3>1, <3>5 DEF RowsFollow
      <4>2. LaneKeys(q) = Session
        BY <4>1 DEF LaneKeys, Control, OpsOK, Placed, Operation, Kinds, Retaining, RetainsFor
      <4>3. LaneKeys(Archiver) = Members(pass.ids) /\ pass.leaving \subseteq Members(pass.ids)
        BY <1>1, PassIs DEF LaneKeys, Control, Homes, LeavingHasEnded, Committing
      <4>4. pass.leaving = {}
        BY <1>1, <4>1, <4>2, <4>3, OneLane
      <4> QED BY <3>2, <4>1, <4>4
    <3> QED BY <2>3, <3>3, <3>4, <3>5 DEF RowsFollow, Restoring
  <2>6. WrittenIsLive'
    <3>1. \A q \in Proc : op[q].at \in {"doc", "row"} => op[q].id \notin pass.leaving
      BY <1>1, LeavingIsHeld DEF Homes, Committing
    <3> QED BY <2>1, <2>2, <3>1 DEF Homes, WrittenIsLive
  <2>7. RunningIsLive'
    BY <1>1, <2>1 DEF Homes, RunningIsLive, LeavingHasEnded, Committing
  <2>8. LeavingHasEnded'
    BY <2>2 DEF LeavingHasEnded, Committing
  <2> QED BY <2>4, <2>5, <2>6, <2>7, <2>8 DEF Homes
<1> QED BY <1>3, <1>4

(* Documents age, and the daemon restarts with the registry of the file. *)
LEMMA HomesStand ==
  ASSUME Control, Homes,
         UNCHANGED << born, homeVars, op, pass, faults, crashes >>,
         \A s \in Session : status'[s] \in {status[s], "ended"}
  PROVE  Homes'
PROOF
<1> USE DEF homeVars
<1>1. FileFollows'
  BY DEF Homes, FileFollows, FileIsMemory
<1>2. ASSUME faults' = 0 PROVE RowsFollow'
  BY <1>2 DEF Homes, RowsFollow, Restoring, Live
<1>3. WrittenIsLive'
  BY DEF Homes, WrittenIsLive
<1>4. RunningIsLive'
  BY DEF Homes, RunningIsLive, Control, DocsOK
<1>5. LeavingHasEnded'
  BY DEF Homes, LeavingHasEnded, Committing, Control, OpsOK, PassMemory
<1> QED BY <1>1, <1>2, <1>3, <1>4, <1>5 DEF Homes

LEMMA HomesRestart ==
  ASSUME Control, Homes, Restart
  PROVE  Homes'
PROOF
<1>1. /\ archived' = file /\ index' = born \ file /\ op' = [p \in Proc |-> Idle]
      /\ UNCHANGED << born, status, file, faults >> /\ crashes' # 0
  BY ArchiveConstants DEF Restart, LoadArchive, docVars, Control, DocsOK
<1>2. \A p \in Proc : op'[p].at = "idle"
  BY <1>1 DEF Idle
<1>3. FileFollows'
  BY <1>1, <1>2, Constants DEF FileFollows, FileIsMemory
<1>4. RowsFollow'
  BY <1>1, <1>2 DEF RowsFollow, Restoring, Live
<1>5. WrittenIsLive'
  BY <1>2 DEF WrittenIsLive
<1>6. LeavingHasEnded'
  BY <1>2, Constants DEF LeavingHasEnded, Committing
<1>7. RunningIsLive'
  <2> SUFFICES ASSUME faults = 0, NEW s \in born, status[s] = "running" PROVE s \notin file
    BY <1>1 DEF RunningIsLive
  <2>1. s \notin archived
    BY DEF Homes, RunningIsLive
  <2>2. op[Archiver].at = "committed" => s \notin pass.leaving
    BY DEF Homes, LeavingHasEnded, Committing
  <2>3. \A p \in Proc : op[p].at = "committed" => p = Archiver
    BY DEF Control, OpsOK, Operation, Kinds, Placed, Asked, RetainsFor, Retaining
  <2>4. CASE \E p \in Proc : op[p].at = "publish"
    BY <2>1, <2>4 DEF Homes, FileFollows
  <2>5. CASE op[Archiver].at = "committed"
    BY <2>1, <2>2, <2>5 DEF Homes, FileFollows
  <2>6. CASE \A p \in Proc : op[p].at \notin {"publish", "committed"}
    BY <2>1, <2>6 DEF Homes, FileFollows, FileIsMemory
  <2> QED BY <2>3, <2>4, <2>5, <2>6
<1> QED BY <1>3, <1>4, <1>5, <1>6, <1>7 DEF Homes

LEMMA HomesInit == Init => Homes
PROOF
<1> SUFFICES ASSUME Init PROVE Homes
  OBVIOUS
<1>1. /\ \A p \in Proc : op[p].at = "idle"
      /\ archived = {} /\ file = {} /\ index = born
  BY DEF Init, Idle
<1> QED BY <1>1, Constants DEF Homes, FileFollows, FileIsMemory, RowsFollow, Restoring, Live, WrittenIsLive,
     LeavingHasEnded, Committing, RunningIsLive

LEMMA HomesStep ==
  ASSUME Control, Homes, NEW p \in Proc, Step(p) \/ RegistryFails(p)
  PROVE  Homes'
PROOF
<1>1. CASE RegistryFails(p)
  BY <1>1, HomesFail DEF RegistryFails, docVars
<1>2. CASE Step(p)
  BY <1>2, HomesReadChain, HomesRestoreRows, HomesWriteRegistry, HomesPublish, HomesReadRoot,
     HomesEnterLane, HomesWriteDoc, HomesSyncRow, HomesProveParent, HomesEnterAll, HomesSweep DEF Step
<1> QED BY <1>1, <1>2

LEMMA HomesPass ==
  ASSUME Control, Homes, Decide \/ PassStep \/ CommitFails
  PROVE  Homes'
PROOF
<1>1. CASE CommitFails
  BY <1>1, HomesFail, Constants DEF CommitFails, docVars
<1>2. CASE Decide \/ PassStep
  BY <1>2, HomesPassReads, HomesVerify, HomesCommit, HomesPublishPass DEF PassStep
<1> QED BY <1>1, <1>2

LEMMA HomesNext ==
  ASSUME Control, Homes, [Next]_vars
  PROVE  Homes'
PROOF
<1>1. CASE UNCHANGED vars
  BY <1>1, HomesStand DEF vars, docVars, countVars
<1>2. CASE Next
  <2>1. ASSUME NEW s \in Session, Age(s) \/ Unpin(s) PROVE Homes'
    BY <2>1, HomesStand DEF Age, Unpin, Control, DocsOK, countVars
  <2> QED BY <1>2, <2>1, HomesAsk, HomesStep, HomesPass, HomesRestart DEF Next
<1> QED BY <1>1, <1>2

LEMMA Housed == Spec => [](Control /\ Homes)
BY ControlInit, ControlNext, HomesInit, HomesNext, PTL DEF Spec

(* A session that runs is live, whoever resumes it when: nothing is written of a
   session without its lane, which a pass holds for as long as it commits. *)
THEOREM RunningStays == Spec => []RunningIsLive
BY Housed, PTL DEF Homes

(* The registry file is what memory published whenever nobody is between the
   write of it and its publication. *)
THEOREM FileAgrees == Spec => []FileIsMemory
PROOF
<1>1. Homes => FileIsMemory
  BY DEF Homes, FileFollows, FileIsMemory
<1> QED BY <1>1, Housed, PTL

(* Rows and registry share the sessions between them: rows are restored before
   the registry is written, and whoever wrote a document writes its row. *)
THEOREM HomesAgree == Spec => []OneHome
PROOF
<1>1. Control /\ Homes => OneHome
  <2> SUFFICES ASSUME Control, Homes, Quiet, faults = 0 PROVE index = Live
    BY DEF OneHome
  <2>1. RowsFollow /\ index \subseteq born
    BY DEF Homes, Control, DocsOK
  <2>2. Live \ index = {} /\ index \cap archived = {}
    BY <2>1 DEF RowsFollow, Quiet, Restoring
  <2> QED BY <2>1, <2>2 DEF Live
<1> QED BY <1>1, Housed, PTL

-----------------------------------------------------------------------------
(* Keeps. *)

(* As long as no retention was counted, whatever keeps a session of the pass
   was read, or its publisher has yet to retain it. *)
Reading == op[Archiver].at \in {"list", "verify"} \/ Committing
KeepsAreRead ==
  pass.fresh /\ Reading =>
    \A s \in (kept \cap Members(pass.ids)) \ pass.keeps :
      \E p \in Writer : op[p].at = "pinned" /\ op[p].id = s
NoneKeptLeaves == Committing => pass.leaving \cap pass.keeps = {}

Keeps == KeepsAreRead /\ NoneKeptLeaves /\ KeptIsLive

(* What the pass does with what it read. *)
PassStands ==
  /\ pass'.fresh /\ Reading' =>
       pass.fresh /\ Reading /\ pass'.ids = pass.ids /\ pass'.keeps = pass.keeps
  /\ Committing' => Committing /\ pass'.leaving = pass.leaving /\ pass'.keeps = pass.keeps

LEMMA KeepsMove ==
  ASSUME Keeps, NEW p \in Proc, \A q \in Proc : q # p => op'[q] = op[q],
         kept' = kept, archived' \subseteq archived, Unharmed' => Unharmed, PassStands,
         op[p].at = "pinned" => ~pass'.fresh,
         op[p].kind = "pin" /\ Unharmed' =>
           (op'[p].kind = "pin" /\ op'[p].id = op[p].id) \/ op[p].id \notin archived'
  PROVE  Keeps'
PROOF
<1>1. Writer \subseteq Proc
  BY DEF Proc
<1>2. KeepsAreRead'
  <2> SUFFICES ASSUME pass'.fresh, Reading', NEW s \in (kept' \cap Members(pass'.ids)) \ pass'.keeps
               PROVE  \E q \in Writer : op'[q].at = "pinned" /\ op'[q].id = s
    BY DEF KeepsAreRead
  <2>1. PICK q \in Writer : op[q].at = "pinned" /\ op[q].id = s
    BY DEF Keeps, KeepsAreRead, PassStands
  <2>2. q # p
    BY <2>1
  <2> QED BY <1>1, <2>1, <2>2
<1>3. NoneKeptLeaves'
  BY DEF Keeps, NoneKeptLeaves, PassStands
<1>4. KeptIsLive'
  <2> SUFFICES ASSUME Unharmed', NEW s \in kept' \cap archived'
               PROVE  \E q \in Writer : op'[q].kind = "pin" /\ op'[q].id = s
    BY DEF KeptIsLive
  <2>1. PICK q \in Writer : op[q].kind = "pin" /\ op[q].id = s
    BY DEF Keeps, KeptIsLive
  <2> QED BY <1>1, <2>1
<1> QED BY <1>2, <1>3, <1>4 DEF Keeps

(* A writer's step leaves the pass, but for its freshness. *)
LEMMA WriterLeavesPass ==
  ASSUME NEW p \in Writer, \A q \in Proc : q # p => op'[q] = op[q],
         pass'.ids = pass.ids, pass'.keeps = pass.keeps, pass'.leaving = pass.leaving,
         pass'.fresh => pass.fresh
  PROVE  PassStands
PROOF
<1>1. op'[Archiver] = op[Archiver]
  BY Constants, ArchiveConstants
<1> QED BY <1>1 DEF PassStands, Reading, Committing

LEMMA KeepsAtEnd ==
  ASSUME Control, Keeps, NEW p \in Proc, Ends(p), kept' = kept, archived' = archived,
         Unharmed' => Unharmed, op[p].at # "pinned",
         op[p].kind = "pin" => op[p].id \notin archived' \/ ~Unharmed'
  PROVE  Keeps'
PROOF
<1>1. op'[p] = Idle /\ \A q \in Proc : q # p => op'[q] = op[q]
  BY DEF Ends, Control, OpsOK
<1>2. PassStands
  <2>1. CASE p = Archiver
    BY <1>1, <2>1 DEF PassStands, Reading, Committing, Idle
  <2>2. CASE p # Archiver
    BY <1>1, <2>2, WriterLeavesPass DEF Ends, Proc
  <2> QED BY <2>1, <2>2
<1> QED BY <1>1, <1>2, KeepsMove

(* Who has the kind of a pin is at it, or retains what it pinned. *)
LEMMA PinIsHis ==
  ASSUME Control, NEW p \in Proc
  PROVE  /\ op[p].at = "pinned" => op[p].kind = "pin"
         /\ op[p].kind = "pin" => op[p].at = "pinned" \/ RetainsFor(p, {"idle"})
         /\ op[p].kind = "pin" /\ op[p].at \in Retaining => op[p].who = op[p].id
         /\ op[p].at \in {"turn", "write", "publish"} => op[p].who \in op[p].chain
BY DEF Control, OpsOK, Operation, Kinds, Placed, Asked, RetainsFor, Retaining

LEMMA KeepsAsk ==
  ASSUME Control, Keeps, NEW p \in Writer, Ask(p)
  PROVE  Keeps'
PROOF
<1>1. /\ op[p].at = "idle" /\ op[p].kind # "pin" /\ op \in [Proc -> Operation] /\ p \in Proc
      /\ pass \in PassMemory
  BY PinIsHis DEF Ask, AskState, AskConfig, AskChild, Pin, AskExclusive, Begins, At, Control, OpsOK, Proc,
     RetainsFor, Retaining
<1>2. /\ UNCHANGED << archived, faults, crashes >> /\ Unharmed' = Unharmed
      /\ pass'.leaving = pass.leaving /\ pass'.ids = pass.ids /\ pass'.keeps = pass.keeps
      /\ pass'.fresh => pass.fresh
  <2>1. CASE AskChild(p)
    BY <1>1, <2>1 DEF AskChild, homeVars, PassMemory, Unharmed
  <2> QED BY <2>1 DEF Ask, AskState, AskConfig, Pin, AskExclusive, homeVars, Unharmed
<1>3. \A q \in Proc : q # p => op'[q] = op[q]
  BY <1>1 DEF Ask, AskState, AskConfig, AskChild, Pin, AskExclusive, Begins
<1>4. PassStands
  BY <1>2, <1>3, WriterLeavesPass
<1>5. CASE ~Pin(p)
  <2>1. kept' = kept
    BY <1>5 DEF Ask, AskState, AskConfig, AskChild, AskExclusive, docVars
  <2> QED BY <1>1, <1>2, <1>3, <1>4, <2>1, KeepsMove
<1>6. CASE Pin(p)
  <2>1. PICK r \in Requests : r.kind = "pin" /\ kept' = kept \cup {r.id} /\ Begins(p, r, "pinned")
    BY <1>6 DEF Pin
  <2>2. op'[p].kind = "pin" /\ op'[p].at = "pinned" /\ op'[p].id = r.id
    BY <1>1, <2>1 DEF Begins, Idle
  <2>3. \A q \in Writer : q # p => op'[q] = op[q]
    BY <1>3 DEF Proc
  <2>4. KeepsAreRead'
    <3> SUFFICES ASSUME pass'.fresh, Reading', NEW s \in (kept' \cap Members(pass'.ids)) \ pass'.keeps
                 PROVE  \E q \in Writer : op'[q].at = "pinned" /\ op'[q].id = s
      BY DEF KeepsAreRead
    <3>1. CASE s = r.id
      BY <2>2, <3>1
    <3>2. CASE s # r.id
      <4>1. PICK q \in Writer : op[q].at = "pinned" /\ op[q].id = s
        BY <1>4, <2>1, <3>2 DEF Keeps, KeepsAreRead, PassStands
      <4> QED BY <1>1, <2>3, <4>1
    <3> QED BY <3>1, <3>2
  <2>5. NoneKeptLeaves'
    BY <1>4 DEF Keeps, NoneKeptLeaves, PassStands
  <2>6. KeptIsLive'
    <3> SUFFICES ASSUME Unharmed', NEW s \in kept' \cap archived'
                 PROVE  \E q \in Writer : op'[q].kind = "pin" /\ op'[q].id = s
      BY DEF KeptIsLive
    <3>1. CASE s = r.id
      BY <2>2, <3>1
    <3>2. CASE s # r.id
      <4>1. PICK q \in Writer : op[q].kind = "pin" /\ op[q].id = s
        BY <1>2, <2>1, <3>2 DEF Keeps, KeptIsLive
      <4> QED BY <1>1, <2>3, <4>1
    <3> QED BY <3>1, <3>2
  <2> QED BY <2>4, <2>5, <2>6 DEF Keeps
<1> QED BY <1>5, <1>6

(* A step that goes on with the same request, outside what the pass reads. *)
LEMMA KeepsGoOn ==
  ASSUME Control, Keeps, NEW p \in Proc, \A q \in Proc : q # p => op'[q] = op[q],
         kept' = kept, archived' \subseteq archived, Unharmed' => Unharmed,
         op[p].at = "pinned" => ~pass'.fresh,
         op'[p].kind = op[p].kind, op'[p].id = op[p].id,
         op'[p].at \notin {"list", "verify", "commit", "committed"},
         p = Archiver \/ (/\ pass'.ids = pass.ids /\ pass'.keeps = pass.keeps
                          /\ pass'.leaving = pass.leaving /\ (pass'.fresh => pass.fresh))
  PROVE  Keeps'
PROOF
<1>1. PassStands
  <2>1. CASE p = Archiver
    BY <2>1 DEF PassStands, Reading, Committing
  <2>2. CASE p # Archiver
    BY <2>2, WriterLeavesPass DEF Proc
  <2> QED BY <2>1, <2>2
<1> QED BY <1>1, KeepsMove

LEMMA KeepsRetain ==
  ASSUME Control, Keeps, NEW p \in Proc, NEW s, NEW after, Retain(p, s, after),
         UNCHANGED << kept, archived, faults, crashes >>
  PROVE  Keeps'
PROOF
<1>1. /\ op \in [Proc -> Operation] /\ pass \in PassMemory
  BY DEF Control, OpsOK
<1>2. /\ op'[p].at = "chain" /\ op'[p].kind = op[p].kind /\ op'[p].id = op[p].id
      /\ \A q \in Proc : q # p => op'[q] = op[q]
  BY <1>1 DEF Retain, Operation
<1>3. /\ pass'.leaving = pass.leaving /\ pass'.ids = pass.ids /\ pass'.keeps = pass.keeps
      /\ pass'.fresh = FALSE
  BY <1>1 DEF Retain, PassMemory
<1> QED BY <1>2, <1>3, KeepsGoOn DEF Unharmed

(* A pin's retention is over once what it pinned is live. *)
LEMMA KeepsResume ==
  ASSUME Control, Keeps, NEW p \in Proc, op[p].at \in {"turn", "publish"}, Resume(p),
         UNCHANGED << kept, faults, crashes >>,
         archived' \subseteq archived, op[p].chain \cap archived' = {}
  PROVE  Keeps'
PROOF
<1>1. /\ op \in [Proc -> Operation]
      /\ op[p].kind = "pin" => op[p].id \in op[p].chain
  BY PinIsHis DEF Control, OpsOK, Retaining
<1>2. /\ \A q \in Proc : q # p => op'[q] = op[q]
      /\ op'[p].at \in {"idle", "root", "doc", "later"}
  BY ResumeIs
<1>3. CASE op[p].after = "idle"
  <2>1. op'[p] = Idle /\ (p = Archiver \/ pass' = pass)
    BY <1>1, <1>3 DEF Resume, Ends, Control, OpsOK
  <2>2. PassStands
    <3>1. CASE p = Archiver
      BY <2>1, <3>1 DEF PassStands, Reading, Committing, Idle
    <3>2. CASE p # Archiver
      BY <1>2, <2>1, <3>2, WriterLeavesPass DEF Proc
    <3> QED BY <3>1, <3>2
  <2>3. op[p].kind = "pin" => op[p].id \notin archived'
    BY <1>1
  <2>4. Unharmed' = Unharmed /\ op[p].at # "pinned"
    BY DEF Unharmed
  <2> QED BY <1>2, <2>2, <2>3, <2>4, KeepsMove
<1>4. CASE op[p].after # "idle"
  <2>1. op'[p].kind = op[p].kind /\ op'[p].id = op[p].id /\ pass' = pass
    BY <1>4 DEF Resume, Operation, Control, OpsOK
  <2> QED BY <1>2, <2>1, KeepsGoOn DEF Unharmed
<1> QED BY <1>3, <1>4

LEMMA KeepsRestoreRows ==
  ASSUME Control, Keeps, NEW p \in Proc, RestoreRows(p) \/ WriteRegistry(p) \/ Publish(p)
  PROVE  Keeps'
PROOF
<1>1. op \in [Proc -> Operation]
  BY DEF Control, OpsOK
<1>2. CASE WriteRegistry(p)
  <2>1. /\ op'[p].at = "publish" /\ SameButAt(p) /\ \A q \in Proc : q # p => op'[q] = op[q]
    BY <1>1, <1>2, GoesToIs DEF WriteRegistry, Places, Retaining
  <2> QED BY <1>2, <2>1, KeepsGoOn DEF WriteRegistry, At, docVars, countVars, Unharmed, SameButAt
<1>3. CASE Publish(p)
  BY <1>3, KeepsResume DEF Publish, At, docVars, countVars
<1>4. CASE RestoreRows(p) /\ Restored(p) = {}
  BY <1>4, KeepsResume DEF RestoreRows, Restored, At, docVars, countVars
<1>5. CASE RestoreRows(p) /\ Restored(p) # {}
  <2>1. GoesTo(p, "write") /\ pass' = pass
    BY <1>5 DEF RestoreRows
  <2>2. op'[p].at = "write" /\ SameButAt(p) /\ \A q \in Proc : q # p => op'[q] = op[q]
    BY <1>1, <2>1, GoesToIs DEF Places, Retaining
  <2> QED BY <1>5, <2>1, <2>2, KeepsGoOn DEF RestoreRows, At, docVars, countVars, Unharmed, SameButAt
<1> QED BY <1>2, <1>3, <1>4, <1>5

(* What a writer does to documents, rows and lines. *)
LEMMA KeepsWrite ==
  ASSUME Control, Keeps, NEW p \in Proc,
         ReadChain(p) \/ ReadRoot(p) \/ EnterGate(p) \/ WriteDoc(p) \/ EnterAll(p)
  PROVE  Keeps'
PROOF
<1>1. /\ UNCHANGED << kept, archived, faults, crashes >> /\ op \in [Proc -> Operation]
      /\ op[p].at \in {"chain", "root", "gate", "doc", "all"}
  BY DEF ReadChain, ReadRoot, EnterGate, WriteDoc, EnterAll, docVars, homeVars, countVars, Control, OpsOK, At
<1>2. CASE Ends(p)
  <2>1. op[p].kind # "pin" \/ op[p].at = "chain"
    BY <1>1, PinIsHis DEF RetainsFor, Retaining
  <2>2. ~ReadChain(p)
    <3>1. op'[p].at = "idle"
      BY <1>1, <1>2 DEF Ends, Idle
    <3> QED BY <1>1, <3>1 DEF ReadChain, Operation
  <2>3. op[p].at # "chain"
    BY <2>2 DEF ReadRoot, EnterGate, WriteDoc, EnterAll, At
  <2> QED BY <1>1, <1>2, <2>1, <2>3, KeepsAtEnd DEF Unharmed
<1>3. CASE ~Ends(p)
  <2>1. pass' = pass
    BY <1>3 DEF ReadChain, ReadRoot, EnterGate, WriteDoc, EnterAll
  <2>2. /\ op'[p].kind = op[p].kind /\ op'[p].id = op[p].id /\ \A q \in Proc : q # p => op'[q] = op[q]
        /\ op'[p].at \in {"turn", "root", "gate", "lane", "row", "sweep", "survey"}
    <3>1. CASE ReadChain(p)
      BY <1>1, <3>1 DEF ReadChain, Operation
    <3>2. CASE ReadRoot(p)
      BY <1>1, <3>2 DEF ReadRoot, Operation
    <3>3. CASE EnterGate(p)
      BY <1>1, <1>3, <3>3 DEF EnterGate, Operation
    <3>4. CASE WriteDoc(p)
      BY <1>1, <3>4, GoesToIs DEF WriteDoc, Places, SameButAt
    <3>5. CASE EnterAll(p)
      <4>1. CASE GoesTo(p, "sweep")
        BY <1>1, <4>1, GoesToIs DEF Places, SameButAt
      <4>2. CASE op' = [op EXCEPT ![p].at = "survey", ![p].chain = Live]
        BY <1>1, <4>2 DEF Operation
      <4> QED BY <3>5, <4>1, <4>2 DEF EnterAll
    <3> QED BY <3>1, <3>2, <3>3, <3>4, <3>5
  <2> QED BY <1>1, <2>1, <2>2, KeepsGoOn DEF Unharmed
<1> QED BY <1>2, <1>3

LEMMA KeepsRest ==
  ASSUME Control, Keeps, NEW p \in Proc,
         EnterLane(p) \/ SyncRow(p) \/ ProveParent(p) \/ RetainPinned(p) \/ Sweep(p) \/ Survey(p)
  PROVE  Keeps'
PROOF
<1>1. /\ UNCHANGED << kept, archived, faults, crashes >> /\ op \in [Proc -> Operation]
      /\ op[p].at \in {"lane", "row", "proof", "pinned", "sweep", "survey"}
  BY DEF EnterLane, SyncRow, ProveParent, RetainPinned, Sweep, Survey, docVars, homeVars, countVars,
     Control, OpsOK, At
<1>2. CASE \E s, after : Retain(p, s, after)
  BY <1>1, <1>2, KeepsRetain
<1>3. CASE Ends(p) /\ op[p].at # "pinned"
  <2>1. op[p].kind # "pin"
    BY <1>1, <1>3, PinIsHis DEF RetainsFor, Retaining
  <2> QED BY <1>1, <1>3, <2>1, KeepsAtEnd DEF Unharmed
<1>4. CASE \E at \in {"doc", "proof"} : GoesTo(p, at) /\ pass' = pass /\ op[p].at # "pinned"
  <2>1. PICK at \in {"doc", "proof"} : GoesTo(p, at)
    BY <1>4
  <2>2. op'[p].at = at /\ SameButAt(p) /\ \A q \in Proc : q # p => op'[q] = op[q]
    BY <1>1, <2>1, GoesToIs DEF Places
  <2> QED BY <1>1, <1>4, <2>2, KeepsGoOn DEF Unharmed, SameButAt
<1>5. CASE RetainPinned(p)
  BY <1>2, <1>5 DEF RetainPinned
<1>6. CASE ~RetainPinned(p)
  <2>1. op[p].at # "pinned"
    BY <1>6 DEF EnterLane, SyncRow, ProveParent, Sweep, Survey, At
  <2> QED BY <1>2, <1>3, <1>4, <1>6, <2>1 DEF EnterLane, SyncRow, ProveParent, Sweep, Survey
<1> QED BY <1>5, <1>6

LEMMA KeepsFail ==
  ASSUME Control, Keeps, NEW p \in Proc, Ends(p), faults' = faults + 1, op[p].at # "pinned",
         UNCHANGED << kept, archived >>
  PROVE  Keeps'
PROOF
<1>1. ~Unharmed'
  BY ArchiveConstants DEF Unharmed, Control, DocsOK
<1> QED BY <1>1, KeepsAtEnd

(* The pass: it goes on, reads, or publishes what nothing keeps. *)
LEMMA KeepsPassGoesOn ==
  ASSUME Control, Keeps,
         \/ Decide \/ ReadRoots \/ EnterGates \/ EnterLanes \/ ListLive \/ Commit \/ Late \/ RetainLate
  PROVE  Keeps'
PROOF
<1>1. /\ UNCHANGED << kept, archived, faults, crashes >> /\ Archiver \in Proc
      /\ op \in [Proc -> Operation] /\ pass \in PassMemory
      /\ op[Archiver].at \in {"idle", "root", "gate", "lane", "list", "commit", "late", "later"}
  BY Constants DEF Decide, ReadRoots, EnterGates, EnterLanes, ListLive, Commit, Late, RetainLate, At,
     docVars, homeVars, countVars, Control, OpsOK
<1>2. op[Archiver].kind # "pin"
  BY <1>1 DEF Control, OpsOK, Asked
<1>3. CASE Ends(Archiver)
  BY <1>1, <1>2, <1>3, KeepsAtEnd DEF Unharmed
<1>4. CASE ~Ends(Archiver)
  <2>1. \A q \in Proc : q # Archiver => op'[q] = op[q]
    BY <1>1, <1>4 DEF Decide, ReadRoots, EnterGates, EnterLanes, ListLive, Commit, Late, RetainLate, GoesTo
  <2>2. PassStands
    <3>1. CASE EnterLanes
      BY <1>1, <3>1, GoesToIs DEF EnterLanes, PassStands, Reading, Committing, Places
    <3>2. CASE ListLive
      <4>1. op'[Archiver].at = "verify" /\ op[Archiver].at = "list"
        BY <1>1, <3>2, GoesToIs DEF ListLive, Places, At
      <4>2. pass'.ids = pass.ids /\ pass'.keeps = pass.keeps /\ pass'.fresh = pass.fresh
        BY <1>1, <3>2 DEF ListLive, PassMemory
      <4> QED BY <4>1, <4>2 DEF PassStands, Reading, Committing
    <3>3. CASE Commit
      <4>1. op'[Archiver].at = "committed" /\ op[Archiver].at = "commit" /\ pass' = pass
        BY <1>1, <1>4, <3>3, GoesToIs DEF Commit, Places, At
      <4> QED BY <4>1 DEF PassStands, Reading, Committing
    <3>4. CASE Decide
      BY <1>1, <3>4 DEF Decide, PassStands, Reading, Committing, Idle
    <3>5. CASE EnterGates
      <4>1. op'[Archiver].at \in {"lane", "root"}
        BY <1>1, <1>4, <3>5 DEF EnterGates, GoesTo, Operation
      <4> QED BY <4>1 DEF PassStands, Reading, Committing
    <3>6. CASE ReadRoots \/ Late
      <4>1. op'[Archiver].at \in {"gate", "later"}
        BY <1>1, <1>4, <3>6, GoesToIs DEF ReadRoots, Late, Places
      <4> QED BY <4>1 DEF PassStands, Reading, Committing
    <3>7. CASE RetainLate
      <4>1. PICK s \in pass.left :
              op' = [op EXCEPT ![Archiver].at = "chain", ![Archiver].who = s,
                               ![Archiver].after = IF pass.left = {s} THEN "idle" ELSE "later"]
        BY <3>7 DEF RetainLate
      <4>2. op'[Archiver].at = "chain"
        BY <1>1, <4>1 DEF Operation
      <4> QED BY <4>2 DEF PassStands, Reading, Committing
    <3> QED BY <3>1, <3>2, <3>3, <3>4, <3>5, <3>6, <3>7
  <2> QED BY <1>1, <1>2, <2>1, <2>2, KeepsMove DEF Unharmed
<1> QED BY <1>3, <1>4

LEMMA KeepsReadKeeps ==
  ASSUME Control, Keeps, ReadKeeps
  PROVE  Keeps'
PROOF
<1>1. /\ UNCHANGED << kept, archived, faults, crashes >> /\ Archiver \in Proc
      /\ op \in [Proc -> Operation] /\ pass \in PassMemory
  BY Constants DEF ReadKeeps, docVars, homeVars, countVars, Control, OpsOK
<1>2. op'[Archiver].at = "list" /\ SameButAt(Archiver) /\ \A q \in Proc : q # Archiver => op'[q] = op[q]
  BY <1>1, GoesToIs DEF ReadKeeps, Places
<1>3. pass'.keeps = kept \cap Members(pass.ids) /\ pass'.ids = pass.ids
  BY <1>1 DEF ReadKeeps, PassMemory
<1>4. KeepsAreRead' /\ NoneKeptLeaves'
  BY <1>1, <1>2, <1>3 DEF KeepsAreRead, NoneKeptLeaves, Committing
<1>5. KeptIsLive'
  BY <1>1, <1>2, ArchiveConstants DEF Keeps, KeptIsLive, Unharmed, Proc
<1> QED BY <1>4, <1>5 DEF Keeps

LEMMA KeepsVerify ==
  ASSUME Control, Keeps, Verify
  PROVE  Keeps'
PROOF
<1>1. /\ op[Archiver].at = "verify" /\ UNCHANGED << kept, archived, faults, crashes >>
      /\ op \in [Proc -> Operation] /\ Archiver \in Proc /\ pass \in PassMemory
  BY PassIs DEF Verify, At, docVars, homeVars, countVars, Control
<1>2. PICK out \in SUBSET Members(pass.ids) :
        /\ Leaving(out)
        /\ \/ Ends(Archiver)
           \/ pass' = [pass EXCEPT !.leaving = out] /\ GoesTo(Archiver, "commit")
  BY DEF Verify
<1>3. CASE Ends(Archiver)
  <2>1. op[Archiver].kind # "pin"
    BY <1>1 DEF Control, OpsOK, Asked
  <2> QED BY <1>1, <1>3, <2>1, KeepsAtEnd DEF Unharmed
<1>4. CASE pass' = [pass EXCEPT !.leaving = out] /\ GoesTo(Archiver, "commit")
  <2>1. op'[Archiver].at = "commit" /\ \A q \in Writer : op'[q] = op[q]
    BY <1>1, <1>4, GoesToIs, ArchiveConstants DEF Places, Proc
  <2>2. pass'.leaving = out /\ pass'.ids = pass.ids /\ pass'.keeps = pass.keeps /\ pass'.fresh = pass.fresh
    BY <1>1, <1>4 DEF PassMemory
  <2>3. out \cap pass.keeps = {}
    <3>1. ASSUME NEW s \in out PROVE StillMay(s)
      <4>1. PICK i \in DOMAIN pass.ids : s = pass.ids[i]
        BY <1>2 DEF Members
      <4> QED BY <1>2, <4>1 DEF Leaving
    <3> QED BY <3>1 DEF StillMay, MayLeave
  <2>4. NoneKeptLeaves'
    BY <2>2, <2>3 DEF NoneKeptLeaves
  <2>5. KeepsAreRead'
    BY <1>1, <2>1, <2>2 DEF Keeps, KeepsAreRead, Reading, Members
  <2>6. KeptIsLive'
    BY <1>1, <2>1 DEF Keeps, KeptIsLive, Unharmed
  <2> QED BY <2>4, <2>5, <2>6 DEF Keeps
<1> QED BY <1>2, <1>3, <1>4

(* A pin stored since the keeps were read has its publisher still to come: else
   it would have made the pass stale. *)
LEMMA KeepsPublishPass ==
  ASSUME Control, LeavingHasEnded, Keeps, PublishPass
  PROVE  Keeps'
PROOF
<1>1. /\ op[Archiver].at = "committed" /\ UNCHANGED << kept, faults, crashes >>
      /\ op \in [Proc -> Operation] /\ Archiver \in Proc /\ pass \in PassMemory
      /\ op[Archiver].kind # "pin"
  BY PassIs DEF PublishPass, At, docVars, countVars, Control
<1>2. CASE ~Valid
  BY <1>1, <1>2, KeepsAtEnd DEF PublishPass, Unharmed
<1>3. CASE Valid
  <2>1. /\ archived' = archived \cup pass.leaving
        /\ op' = [op EXCEPT ![Archiver] = [Idle EXCEPT !.kind = "pass", !.at = "late"]]
    BY <1>3 DEF PublishPass
  <2>2. op'[Archiver].at = "late" /\ \A q \in Writer : op'[q] = op[q]
    BY <1>1, <2>1, ArchiveConstants DEF Proc, Idle
  <2>3. ASSUME NEW s \in kept \cap pass.leaving
        PROVE  \E q \in Writer : op[q].kind = "pin" /\ op[q].id = s
    <3>1. s \in (kept \cap Members(pass.ids)) \ pass.keeps
      BY <1>1 DEF LeavingHasEnded, Committing, Keeps, NoneKeptLeaves
    <3>2. PICK q \in Writer : op[q].at = "pinned" /\ op[q].id = s
      BY <1>1, <1>3, <3>1 DEF Keeps, KeepsAreRead, Reading, Committing, Valid
    <3> QED BY <3>2, PinIsHis DEF Proc
  <2>4. KeptIsLive'
    BY <1>1, <2>1, <2>2, <2>3 DEF Keeps, KeptIsLive, Unharmed
  <2>5. KeepsAreRead' /\ NoneKeptLeaves'
    BY <2>2 DEF KeepsAreRead, NoneKeptLeaves, Reading, Committing
  <2> QED BY <2>4, <2>5 DEF Keeps
<1> QED BY <1>2, <1>3

LEMMA KeepsNext ==
  ASSUME Control, Homes, Keeps, [Next]_vars
  PROVE  Keeps'
PROOF
<1>1. ASSUME UNCHANGED << archived, op, pass, faults, crashes >>, kept' \subseteq kept
      PROVE  Keeps'
  BY <1>1 DEF Keeps, KeepsAreRead, NoneKeptLeaves, KeptIsLive, Reading, Committing, Unharmed
<1>2. CASE UNCHANGED vars
  BY <1>1, <1>2 DEF vars, docVars, homeVars, countVars
<1>3. ASSUME NEW s \in Session, Age(s) \/ Unpin(s) PROVE Keeps'
  BY <1>1, <1>3 DEF Age, Unpin, homeVars, countVars
<1>4. CASE Restart
  <2>1. \A p \in Proc : op'[p].at = "idle"
    BY <1>4 DEF Restart, Idle
  <2>2. ~Unharmed'
    BY <1>4, ArchiveConstants DEF Restart, Unharmed, Control, DocsOK
  <2> QED BY <2>1, <2>2, Constants DEF Keeps, KeepsAreRead, NoneKeptLeaves, KeptIsLive, Reading, Committing
<1>5. ASSUME NEW p \in Proc, Step(p) \/ RegistryFails(p) PROVE Keeps'
  <2>1. CASE RegistryFails(p)
    BY <2>1, KeepsFail DEF RegistryFails, docVars, At
  <2> QED BY <1>5, <2>1, KeepsRestoreRows, KeepsWrite, KeepsRest DEF Step
<1>6. CASE CommitFails
  BY <1>6, KeepsFail, Constants DEF CommitFails, docVars, At
<1>7. CASE Decide \/ PassStep
  BY <1>7, KeepsPassGoesOn, KeepsReadKeeps, KeepsVerify, KeepsPublishPass DEF PassStep, Homes
<1> QED BY <1>2, <1>3, <1>4, <1>5, <1>6, <1>7, KeepsAsk DEF Next

(* What is kept stays live from its retention on: a pass that read its keeps
   earlier is stale by then, and a later one reads them. *)
THEOREM KeptStays == Spec => []KeptIsLive
PROOF
<1>1. Init => Keeps
  BY Constants DEF Init, Keeps, KeepsAreRead, NoneKeptLeaves, KeptIsLive, Reading, Committing, Idle
<1>2. Keeps => KeptIsLive
  BY DEF Keeps
<1> QED BY <1>1, <1>2, Housed, KeepsNext, PTL DEF Spec

-----------------------------------------------------------------------------
(* Leads. *)

(* Under the gate a session's root and lead are what its operation found. *)
UnderGate(p) ==
  op[p].kind \in {"config", "child"} /\ (op[p].at \in {"lane", "doc"} \/ RetainsFor(p, {"doc"}))
GatesHold ==
  \A p \in Proc : UnderGate(p) =>
    RootOf(op[p].id) = op[p].root /\ parent[op[p].id] = op[p].prev

(* A chain that was read is still the lineage of whatever of it is archived, or
   will be by the pass that is ahead of it. *)
ChainRead(p) == op[p].at \in {"turn", "write", "publish"}
Behind(line, a, p) == \E i, j \in 1 .. Len(line) : i < j /\ line[i] = a /\ line[j] = p
BehindPass(p) == Behind(turns, Archiver, p)
Gone(p) == archived \cup (IF Committing /\ BehindPass(p) THEN pass.leaving ELSE {})
ChainsAreWhole ==
  \A p \in Proc : ChainRead(p) => \A s \in op[p].chain \cap Gone(p) : Above(s) \subseteq op[p].chain

(* A session of the roster that got a leaving lead has its writer still to prove it. *)
Proving(p, s) ==
  op[p].kind \in {"config", "child"} /\ op[p].id = s /\ op[p].at \in {"row", "proof"}
ListedLeadsStay ==
  Committing /\ pass.fresh =>
    \A s \in pass.listed \ pass.leaving : parent[s] \in pass.leaving =>
      \E p \in Proc : Proving(p, s) /\ op[p].prev # parent[s]

(* A live session's lead is live, or is about to be retained. *)
Owes(p, s) ==
  \/ Proving(p, s)
  \/ op[p].at = "chain" /\ op[p].who = parent[s]
  \/ ChainRead(p) /\ parent[s] \in op[p].chain
LeadsAreOwed ==
  Unharmed => \A s \in Live \ orphaned : parent[s] \in archived => \E p \in Proc : Owes(p, s)

Leads == GatesHold /\ ChainsAreWhole /\ ListedLeadsStay /\ LeadsAreOwed

(* Nobody gets behind another whose line is joined or left by a third. *)
LEMMA BehindStays ==
  ASSUME NEW line \in Seq(Proc), NEW p \in Proc, NEW a, NEW q, q # p,
         NEW line2 \in {line, Append(line, p), Without(line, p)}, Behind(line2, a, q)
  PROVE  Behind(line, a, q)
PROOF
<1>1. PICK n \in Nat : n = Len(line)
  OBVIOUS
<1>2. CASE line2 = line
  BY <1>2
<1>3. CASE line2 = Append(line, p)
  <2>1. Len(line2) = n + 1 /\ line2[n + 1] = p /\ \A i \in 1 .. n : line2[i] = line[i]
    BY <1>1, <1>3
  <2>2. PICK i, j \in 1 .. n + 1 : i < j /\ line2[i] = a /\ line2[j] = q
    BY <2>1 DEF Behind
  <2>3. i \in 1 .. n /\ j \in 1 .. n
    BY <2>1, <2>2
  <2> QED BY <1>1, <2>1, <2>2, <2>3 DEF Behind
<1>4. CASE line2 = Without(line, p)
  <2> DEFINE places == {i \in DOMAIN line : line[i] = p}
  <2>1. CASE places = {}
    BY <1>4, <2>1 DEF Without
  <2>2. CASE places # {}
    <3>1. PICK k \in 1 .. n : k = (CHOOSE m \in places : TRUE)
      BY <1>1, <2>2
    <3>2. line2 = SubSeq(line, 1, k - 1) \o SubSeq(line, k + 1, n)
      BY <1>1, <1>4, <2>2, <3>1 DEF Without
    <3>3. /\ Len(line2) = n - 1
          /\ \A j \in 1 .. k - 1 : line2[j] = line[j]
          /\ \A j \in k .. n - 1 : line2[j] = line[j + 1]
      BY <1>1, <3>2, CutOut
    <3>4. PICK i, j \in 1 .. n - 1 : i < j /\ line2[i] = a /\ line2[j] = q
      BY <3>3 DEF Behind
    <3> DEFINE old(m) == IF m \in 1 .. k - 1 THEN m ELSE m + 1
    <3>5. old(i) \in 1 .. n /\ old(j) \in 1 .. n /\ old(i) < old(j)
      BY <3>4
    <3>6. line2[i] = line[old(i)] /\ line2[j] = line[old(j)]
      <4>1. \A m \in 1 .. n - 1 : m \in 1 .. k - 1 \/ m \in k .. n - 1
        OBVIOUS
      <4> QED BY <3>3, <3>4, <4>1
    <3> QED BY <1>1, <3>4, <3>5, <3>6 DEF Behind
  <2> QED BY <2>1, <2>2
<1> QED BY <1>2, <1>3, <1>4

(* Documents that stay, and one that changes outside a lineage. *)
LEMMA ParentStands ==
  ASSUME parent' = parent
  PROVE  /\ \A s : Above(s)' = Above(s) /\ Ancestors(s)' = Ancestors(s)
         /\ \A s : RootOf(s)' = RootOf(s)
BY DEF Above, Ancestors, Lineages, RootOf, Top

LEMMA AncestorsStand ==
  ASSUME DocsOK, NEW s \in Session, NEW b, b \notin Ancestors(s),
         \A m \in Session : m # b => parent'[m] = parent[m]
  PROVE  Ancestors(s)' = Ancestors(s)
PROOF
<1>1. \A m \in Session : m # b => Above(m)' = Above(m)
  BY DEF Above
<1>2. Ancestors(s) \in Lineages(s)' /\ Ancestors(s) \subseteq Session
  <2>1. s \in Ancestors(s) /\ Ancestors(s) \subseteq Session
    BY OwnAncestor
  <2>2. ASSUME NEW m \in Ancestors(s) PROVE Above(m)' \subseteq Ancestors(s)
    <3>1. Above(m)' = Above(m) /\ m \in Session
      BY <1>1, <2>1
    <3>2. Above(m) \subseteq Session
      BY <3>1 DEF Above, DocsOK, MaybeSession
    <3> QED BY <3>1, <3>2, AncestorsUp
  <2> QED BY <2>1, <2>2 DEF Lineages
<1>3. Ancestors(s)' \subseteq Ancestors(s)
  BY <1>2 DEF Ancestors
<1>4. ASSUME NEW C \in Lineages(s)' PROVE Ancestors(s) \subseteq C
  <2>1. C \cap Ancestors(s) \in Lineages(s)
    <3>1. s \in C /\ C \subseteq Session /\ \A m \in C : Above(m)' \subseteq C
      BY DEF Lineages
    <3>2. \A m \in C \cap Ancestors(s) : Above(m) \subseteq C
      BY <1>1, <3>1
    <3>3. \A m \in Ancestors(s) : Above(m)' \subseteq Ancestors(s)
      BY <1>2 DEF Lineages
    <3>4. \A m \in C \cap Ancestors(s) : Above(m) \subseteq Ancestors(s)
      BY <1>1, <3>1, <3>3
    <3> QED BY <3>1, <3>2, <3>4, OwnAncestor DEF Lineages
  <2> QED BY <2>1 DEF Ancestors
<1>5. Ancestors(s) \subseteq Ancestors(s)'
  BY <1>2, <1>4 DEF Ancestors
<1> QED BY <1>3, <1>5

(* All of a lineage has one root. *)
LEMMA OneRoot ==
  ASSUME DocsOK, NEW s \in Session, NEW b \in Ancestors(s)
  PROVE  RootOf(b) = RootOf(s)
PROOF
<1>1. b \in Session /\ Ancestors(b) \subseteq Ancestors(s)
  BY OwnAncestor, AncestorsUp
<1>2. Top(s) \subseteq Top(b)
  BY <1>1 DEF Top
<1>3. ASSUME NEW r \in Top(b), NEW a \in Ancestors(s) PROVE r \in Ancestors(a)
  <2>1. CASE a \in Ancestors(b)
    BY <2>1 DEF Top
  <2>2. CASE b \in Ancestors(a)
    <3>1. a \in Session /\ r \in Ancestors(b)
      BY OwnAncestor DEF Top
    <3> QED BY <2>2, <3>1, AncestorsUp
  <2> QED BY <2>1, <2>2, OneLeadsTheOther
<1>4. Top(b) \subseteq Top(s)
  BY <1>1, <1>3 DEF Top
<1> QED BY <1>2, <1>4 DEF RootOf

LEMMA RootStands ==
  ASSUME DocsOK, NEW s \in Session, NEW b, b \notin Ancestors(s),
         \A m \in Session : m # b => parent'[m] = parent[m]
  PROVE  RootOf(s)' = RootOf(s)
PROOF
<1>1. ASSUME NEW a \in Ancestors(s) PROVE Ancestors(a)' = Ancestors(a)
  <2>1. a \in Session /\ Ancestors(a) \subseteq Ancestors(s)
    BY OwnAncestor, AncestorsUp
  <2> QED BY <2>1, AncestorsStand
<1>2. Ancestors(s)' = Ancestors(s)
  BY AncestorsStand
<1>3. Top(s)' = Top(s)
  BY <1>1, <1>2 DEF Top
<1> QED BY <1>3 DEF RootOf

(* What of each part a step leaves that writes no document. *)
LEMMA GatesOn ==
  ASSUME GatesHold, parent' = parent,
         \A q \in Proc : UnderGate(q)' =>
           RootOf(op'[q].id) = op'[q].root /\ parent[op'[q].id] = op'[q].prev
  PROVE  GatesHold'
BY ParentStands DEF GatesHold

LEMMA ChainsOn ==
  ASSUME ChainsAreWhole, parent' = parent,
         \A q \in Proc : ChainRead(q)' =>
           \/ ChainRead(q) /\ op'[q].chain = op[q].chain /\ Gone(q)' \subseteq Gone(q)
           \/ \A s \in op'[q].chain : Above(s) \subseteq op'[q].chain
  PROVE  ChainsAreWhole'
BY ParentStands DEF ChainsAreWhole

Strayed(p, s) == Proving(p, s) /\ parent[s] \in Session /\ op[p].prev # parent[s]

LEMMA ListedOn ==
  ASSUME ListedLeadsStay, parent' = parent,
         Committing' /\ pass'.fresh =>
           /\ Committing /\ pass.fresh /\ pass'.leaving = pass.leaving /\ pass'.listed = pass.listed
           /\ \A q \in Proc, s \in Session :
                Strayed(q, s) => Proving(q, s)' /\ op'[q].prev = op[q].prev,
         pass.listed \subseteq Session, pass.leaving \subseteq Session
  PROVE  ListedLeadsStay'
BY DEF ListedLeadsStay, Strayed

LEMMA OwedOn ==
  ASSUME LeadsAreOwed, parent' = parent, Unharmed' => Unharmed,
         archived' \subseteq archived, (Live \ orphaned)' \subseteq Live \ orphaned, Live \subseteq Session,
         \A q \in Proc, s \in Session : parent[s] \in archived' /\ Owes(q, s) => Owes(q, s)'
  PROVE  LeadsAreOwed'
BY DEF LeadsAreOwed

(* A step of p that writes no document and goes on with the same request, or ends it. *)
Steady(p) ==
  /\ \A q \in Proc : q # p => op'[q] = op[q]
  /\ UNCHANGED << parent, born, archived, orphaned >> /\ (Unharmed' => Unharmed)
  /\ turns' \in {turns, Append(turns, p), Without(turns, p)}
  /\ UnderGate(p)' =>
       \/ UnderGate(p) /\ op'[p].id = op[p].id /\ op'[p].root = op[p].root /\ op'[p].prev = op[p].prev
       \/ RootOf(op'[p].id) = op'[p].root /\ parent[op'[p].id] = op'[p].prev
  /\ ChainRead(p)' =>
       \/ ChainRead(p) /\ op'[p].chain = op[p].chain /\ turns' = turns
       \/ \A s \in op'[p].chain : Above(s) \subseteq op'[p].chain
  /\ Committing' /\ pass'.fresh =>
       Committing /\ pass.fresh /\ pass'.leaving = pass.leaving /\ pass'.listed = pass.listed
  /\ Committing' => Committing /\ pass'.leaving = pass.leaving
  /\ \A s \in Session :
       pass'.fresh /\ Strayed(p, s) => Proving(p, s)' /\ op'[p].prev = op[p].prev
  /\ \A s \in Session : parent[s] \in archived /\ Owes(p, s) /\ Unharmed' => Owes(p, s)'

LEMMA SteadyKeeps ==
  ASSUME Control, Leads, NEW p \in Proc, Steady(p)
  PROVE  Leads'
PROOF
<1>1. turns \in Seq(Proc)
  BY DEF Control, TurnsOK, Orderly
<1>2. ASSUME NEW q \in Proc, q # p PROVE Gone(q)' \subseteq Gone(q)
  <2>1. BehindPass(q)' => BehindPass(q)
    <3>1. turns' \in {turns, Append(turns, p), Without(turns, p)}
      BY DEF Steady
    <3>2. Behind(turns', Archiver, q) => Behind(turns, Archiver, q)
      BY <1>1, <1>2, <3>1, BehindStays
    <3> QED BY <3>2 DEF BehindPass
  <2> QED BY <2>1 DEF Gone, Steady
<1>3. turns' = turns => Gone(p)' \subseteq Gone(p)
  BY DEF Steady, Gone, BehindPass, Behind
<1>4. GatesHold'
  <2>1. \A q \in Proc : q # p => (UnderGate(q)' => UnderGate(q) /\ op'[q] = op[q])
    BY DEF Steady, UnderGate, RetainsFor
  <2>2. \A q \in Proc : UnderGate(q)' => RootOf(op'[q].id) = op'[q].root /\ parent[op'[q].id] = op'[q].prev
    BY <2>1 DEF Leads, GatesHold, Steady
  <2> QED BY <2>2, GatesOn DEF Leads, Steady
<1>5. ChainsAreWhole'
  <2>1. \A q \in Proc : q # p => (ChainRead(q)' => ChainRead(q) /\ op'[q] = op[q])
    BY DEF Steady, ChainRead
  <2> QED BY <1>2, <1>3, <2>1, ChainsOn DEF Leads, Steady
<1>6. ListedLeadsStay'
  <2>1. \A q \in Proc, s \in Session :
          q # p /\ Strayed(q, s) => Proving(q, s)' /\ op'[q].prev = op[q].prev
    BY DEF Steady, Proving, Strayed
  <2>2. pass.listed \subseteq Session /\ pass.leaving \subseteq Session
    BY DEF Control, OpsOK, PassMemory
  <2> QED BY <2>1, <2>2, ListedOn DEF Leads, Steady
<1>7. LeadsAreOwed'
  <2>1. CASE ~Unharmed'
    BY <2>1 DEF LeadsAreOwed
  <2>2. CASE Unharmed'
    <3>1. \A q \in Proc, s \in Session : q # p /\ Owes(q, s) => Owes(q, s)'
      BY DEF Steady, Owes, Proving, ChainRead
    <3>2. Live \subseteq Session /\ (Live \ orphaned)' \subseteq Live \ orphaned
      BY DEF Live, Control, DocsOK, Steady
    <3> QED BY <2>2, <3>1, <3>2, OwedOn DEF Leads, Steady
  <2> QED BY <2>1, <2>2
<1> QED BY <1>4, <1>5, <1>6, <1>7 DEF Leads

(* A step of p that neither retained nor wrote, nor does so now. *)
LEMMA LeadsAway ==
  ASSUME Control, Leads, NEW p \in Proc, \A q \in Proc : q # p => op'[q] = op[q],
         UNCHANGED << parent, born, archived, orphaned >>, Unharmed' => Unharmed,
         turns' \in {turns, Append(turns, p), Without(turns, p)},
         Unharmed' => op[p].at \notin Retaining,
         op[p].at \notin {"row", "proof"} \/ op[p].kind \notin {"config", "child"},
         op'[p].at \notin {"turn", "write", "publish", "doc"},
         op'[p].at = "lane" => op'[p].kind \notin {"config", "child"},
         op'[p].at = "chain" => op'[p].after # "doc" \/ op'[p].kind \notin {"config", "child"},
         IF p = Archiver THEN op'[p].at \notin {"commit", "committed"}
         ELSE /\ pass'.leaving = pass.leaving /\ pass'.listed = pass.listed
              /\ pass'.fresh => pass.fresh
  PROVE  Leads'
PROOF
<1>1. ~UnderGate(p)' /\ ~ChainRead(p)'
  BY DEF UnderGate, RetainsFor, Retaining, ChainRead
<1>2. \A s : ~Proving(p, s)
  BY DEF Proving
<1>3. Unharmed' => \A s : ~Owes(p, s)
  BY <1>2 DEF Owes, ChainRead, Retaining
<1>4. Committing' =>
        /\ Committing /\ pass'.leaving = pass.leaving /\ pass'.listed = pass.listed
        /\ pass'.fresh => pass.fresh
  BY Constants DEF Committing
<1>5. Steady(p)
  BY <1>1, <1>2, <1>3, <1>4 DEF Steady, Strayed
<1> QED BY <1>5, SteadyKeeps

LEMMA LeadsAtEnd ==
  ASSUME Control, Leads, NEW p \in Proc, Ends(p),
         UNCHANGED << parent, born, archived, orphaned >>, Unharmed' => Unharmed,
         Unharmed' => op[p].at \notin Retaining,
         op[p].at \notin {"row", "proof"} \/ op[p].kind \notin {"config", "child"}
  PROVE  Leads'
PROOF
<1>1. op'[p] = Idle /\ \A q \in Proc : q # p => op'[q] = op[q]
  BY DEF Ends, Control, OpsOK
<1>2. op'[p].at = "idle"
  BY <1>1 DEF Idle
<1>3. p = Archiver \/ pass' = pass
  BY DEF Ends
<1>4. turns' = Without(turns, p)
  BY DEF Ends
<1> QED BY <1>1, <1>2, <1>3, <1>4, LeadsAway

LEMMA LeadsAsk ==
  ASSUME Control, Leads, NEW p \in Writer, Ask(p)
  PROVE  Leads'
PROOF
<1>1. /\ op[p].at = "idle" /\ p # Archiver /\ op \in [Proc -> Operation] /\ p \in Proc
      /\ pass \in PassMemory
  BY ArchiveConstants DEF Ask, AskState, AskConfig, AskChild, Pin, AskExclusive, Begins, At, Control, OpsOK, Proc
<1>2. /\ UNCHANGED << parent, born, archived, orphaned, turns >> /\ (Unharmed' => Unharmed)
  BY DEF Ask, AskState, AskConfig, AskChild, Pin, AskExclusive, docVars, homeVars, lockVars, Unharmed
<1>3. /\ pass'.leaving = pass.leaving /\ pass'.listed = pass.listed /\ (pass'.fresh => pass.fresh)
  <2>1. CASE AskChild(p)
    BY <1>1, <2>1 DEF AskChild, PassMemory
  <2> QED BY <2>1 DEF Ask, AskState, AskConfig, Pin, AskExclusive
<1>4. /\ \A q \in Proc : q # p => op'[q] = op[q]
      /\ op'[p].at \in {"lane", "root", "chain", "pinned", "all"}
      /\ op'[p].at = "lane" => op'[p].kind \notin {"config", "child"}
      /\ op'[p].at = "chain" => op'[p].after # "doc"
  <2>1. CASE AskChild(p)
    <3>1. PICK r \in Requests : op' = [op EXCEPT ![p] = [Idle EXCEPT !.kind = "child", !.at = "chain",
                                         !.id = r.id, !.to = r.to, !.who = r.to, !.after = "root"]]
      BY <2>1 DEF AskChild
    <3> QED BY <1>1, <3>1 DEF Idle
  <2>2. CASE \E r \in Requests, at \in {"root", "pinned", "all"} : Begins(p, r, at)
    <3>1. PICK r \in Requests, at \in {"root", "pinned", "all"} : Begins(p, r, at)
      BY <2>2
    <3> QED BY <1>1, <3>1 DEF Begins, Idle
  <2>3. CASE AskState(p)
    <3>1. PICK r \in Requests : r.kind = "state" /\ Begins(p, r, "lane")
      BY <2>3 DEF AskState
    <3> QED BY <1>1, <3>1 DEF Begins, Idle
  <2> QED BY <2>1, <2>2, <2>3 DEF Ask, AskConfig, Pin, AskExclusive
<1> QED BY <1>1, <1>2, <1>3, <1>4, LeadsAway DEF Retaining

LEMMA LeadsReadRoot ==
  ASSUME Control, Leads, NEW p \in Proc,
         ReadRoot(p) \/ RetainPinned(p) \/ EnterAll(p) \/ Sweep(p) \/ Survey(p)
  PROVE  Leads'
PROOF
<1>1. /\ op[p].at \in {"root", "pinned", "all", "sweep", "survey"} /\ op \in [Proc -> Operation]
      /\ pass \in PassMemory
      /\ UNCHANGED << parent, born, archived, orphaned >> /\ (Unharmed' => Unharmed)
  BY DEF ReadRoot, RetainPinned, EnterAll, Sweep, Survey, At, docVars, homeVars, countVars, Control, OpsOK,
     Unharmed
<1>2. CASE Ends(p)
  BY <1>1, <1>2, LeadsAtEnd DEF Retaining
<1>3. CASE ~Ends(p)
  <2>1. /\ \A q \in Proc : q # p => op'[q] = op[q]
        /\ op'[p].at \in {"gate", "chain", "sweep", "survey"}
        /\ op'[p].at = "chain" => op'[p].after = "idle"
    <3>1. CASE ReadRoot(p)
      BY <1>1, <3>1 DEF ReadRoot, Operation
    <3>2. CASE RetainPinned(p)
      BY <1>1, <3>2 DEF RetainPinned, Retain, Operation
    <3>3. CASE EnterAll(p)
      BY <1>1, <3>3 DEF EnterAll, GoesTo, Operation
    <3> QED BY <1>3, <3>1, <3>2, <3>3 DEF Sweep, Survey
  <2>2. /\ pass'.leaving = pass.leaving /\ pass'.listed = pass.listed /\ (pass'.fresh => pass.fresh)
    <3>1. CASE RetainPinned(p)
      BY <1>1, <3>1 DEF RetainPinned, Retain, PassMemory
    <3> QED BY <1>3, <3>1 DEF ReadRoot, EnterAll, Sweep, Survey
  <2>3. turns' \in {turns, Append(turns, p)}
    BY <1>3 DEF ReadRoot, RetainPinned, EnterAll, Sweep, Survey, lockVars
  <2> QED BY <1>1, <2>1, <2>2, <2>3, LeadsAway DEF Retaining
<1> QED BY <1>2, <1>3

LEMMA LeadsEnterGate ==
  ASSUME Control, Leads, NEW p \in Proc, EnterGate(p)
  PROVE  Leads'
PROOF
<1>1. /\ op[p].at = "gate" /\ op \in [Proc -> Operation] /\ p # Archiver
      /\ UNCHANGED << parent, born, archived, orphaned >> /\ (Unharmed' => Unharmed)
  BY ArchiveConstants DEF EnterGate, At, docVars, homeVars, countVars, Control, OpsOK, Unharmed
<1>2. CASE Ends(p)
  BY <1>1, <1>2, LeadsAtEnd DEF Retaining
<1>3. CASE op' = [op EXCEPT ![p].at = "root", ![p].root = NoSession, ![p].moves = @ + 1]
  <2>1. op'[p].at = "root" /\ \A q \in Proc : q # p => op'[q] = op[q]
    BY <1>1, <1>3 DEF Operation
  <2>2. (turns' = turns /\ pass' = pass) \/ Ends(p)
    BY DEF EnterGate
  <2> QED BY <1>1, <1>2, <2>1, <2>2, LeadsAway DEF Retaining
<1>4. CASE /\ SameRoot(p) /\ op' = [op EXCEPT ![p].at = "lane", ![p].prev = parent[op[p].id]]
           /\ UNCHANGED << turns, pass >>
  <2>1. /\ op'[p].at = "lane" /\ op'[p].prev = parent[op[p].id] /\ op'[p].id = op[p].id
        /\ op'[p].root = op[p].root /\ \A q \in Proc : q # p => op'[q] = op[q]
    BY <1>1, <1>4 DEF Operation
  <2>2. UnderGate(p)' => RootOf(op'[p].id) = op'[p].root /\ parent[op'[p].id] = op'[p].prev
    BY <1>4, <2>1 DEF SameRoot
  <2>3. ~ChainRead(p)'
    BY <2>1 DEF ChainRead
  <2>4. (Committing' => Committing) /\ \A s : ~Proving(p, s) /\ ~Owes(p, s)
    BY <1>1, <2>1, Constants DEF Committing, Proving, Owes, ChainRead
  <2>5. Steady(p)
    BY <1>1, <1>4, <2>1, <2>2, <2>3, <2>4 DEF Steady, Strayed
  <2> QED BY <2>5, SteadyKeeps
<1> QED BY <1>2, <1>3, <1>4 DEF EnterGate

LEMMA LeadsEnterLane ==
  ASSUME Control, Leads, NEW p \in Proc, EnterLane(p)
  PROVE  Leads'
PROOF
<1>1. /\ op[p].at = "lane" /\ op \in [Proc -> Operation] /\ p # Archiver /\ pass \in PassMemory
      /\ UNCHANGED << parent, born, archived, orphaned, turns >> /\ (Unharmed' => Unharmed)
  BY ArchiveConstants DEF EnterLane, At, docVars, homeVars, lockVars, countVars, Control, OpsOK, Unharmed
<1>2. /\ op'[p].at \in {"doc", "chain"} /\ op'[p].kind = op[p].kind /\ op'[p].id = op[p].id
      /\ op'[p].root = op[p].root /\ op'[p].prev = op[p].prev /\ \A q \in Proc : q # p => op'[q] = op[q]
  BY <1>1 DEF EnterLane, Retain, GoesTo, Operation
<1>3. pass'.leaving = pass.leaving /\ pass'.listed = pass.listed /\ (pass'.fresh => pass.fresh)
  BY <1>1 DEF EnterLane, Retain, PassMemory
<1>4. ~ChainRead(p)' /\ (UnderGate(p)' => UnderGate(p))
  BY <1>1, <1>2 DEF ChainRead, UnderGate
<1>5. (Committing' => Committing) /\ \A s : ~Proving(p, s) /\ ~Owes(p, s)
  BY <1>1, <1>2, Constants DEF Committing, Proving, Owes, ChainRead
<1>6. Steady(p)
  BY <1>1, <1>2, <1>3, <1>4, <1>5 DEF Steady, Strayed
<1> QED BY <1>6, SteadyKeeps

LEMMA LeadsSyncRow ==
  ASSUME Control, Leads, NEW p \in Proc, SyncRow(p)
  PROVE  Leads'
PROOF
<1>1. /\ op[p].at = "row" /\ op \in [Proc -> Operation] /\ p # Archiver
      /\ UNCHANGED << parent, born, archived, orphaned >> /\ (Unharmed' => Unharmed)
  BY WriterHasLane DEF SyncRow, At, docVars, countVars, Control, OpsOK, Unharmed
<1>2. CASE op[p].kind = "state"
  BY <1>1, <1>2, LeadsAtEnd DEF SyncRow, Retaining
<1>3. CASE op[p].kind # "state"
  <2>1. /\ op'[p].at = "proof" /\ SameButAt(p) /\ \A q \in Proc : q # p => op'[q] = op[q]
        /\ UNCHANGED << turns, pass >>
    BY <1>1, <1>3, GoesToIs DEF SyncRow, Places
  <2>2. ~ChainRead(p)' /\ ~UnderGate(p)'
    BY <2>1 DEF ChainRead, UnderGate, RetainsFor, Retaining
  <2>3. Committing' => Committing
    BY <1>1, <2>1, Constants DEF Committing
  <2>4. \A s : (Proving(p, s) => Proving(p, s)') /\ (Owes(p, s) => Proving(p, s))
    BY <1>1, <2>1 DEF Proving, Owes, ChainRead, SameButAt
  <2>5. Steady(p)
    BY <1>1, <2>1, <2>2, <2>3, <2>4 DEF Steady, Strayed, SameButAt, Owes
  <2> QED BY <2>5, SteadyKeeps
<1> QED BY <1>2, <1>3

(* Whoever wrote a lead retains it, unless it was the lead before and is live. *)
LEMMA LeadsProveParent ==
  ASSUME Control, Leads, NEW p \in Proc, ProveParent(p)
  PROVE  Leads'
PROOF
<1>1. /\ op[p].at = "proof" /\ op \in [Proc -> Operation] /\ p # Archiver /\ pass \in PassMemory
      /\ UNCHANGED << parent, born, archived, orphaned >> /\ (Unharmed' => Unharmed)
      /\ op[p].kind \in {"config", "child"} /\ op[p].id \in Session
  BY DEF ProveParent, At, docVars, homeVars, countVars, Control, OpsOK, DocsOK, Unharmed, Placed, Asked,
     RetainsFor, Retaining, Operation, Kinds
<1> DEFINE s == op[p].id
<1>2. \A x : Proving(p, x) => x = s
  BY DEF Proving
<1>3. \A x : Owes(p, x) => Proving(p, x)
  BY <1>1 DEF Owes, ChainRead
<1>4. CASE OwesLead(p)
  <2>1. /\ op'[p].at = "chain" /\ op'[p].who = parent[s] /\ op'[p].after = "idle"
        /\ \A q \in Proc : q # p => op'[q] = op[q]
    BY <1>1, <1>4 DEF ProveParent, Retain, Operation
  <2>2. pass'.leaving = pass.leaving /\ pass'.listed = pass.listed /\ pass'.fresh = FALSE /\ turns' = turns
    BY <1>1, <1>4 DEF ProveParent, Retain, PassMemory
  <2>3. ~ChainRead(p)' /\ ~UnderGate(p)'
    BY <2>1 DEF ChainRead, UnderGate, RetainsFor
  <2>4. Committing' => Committing
    BY <1>1, <2>1, Constants DEF Committing
  <2>5. \A x : Owes(p, x) => Owes(p, x)'
    BY <1>1, <1>2, <1>3, <2>1 DEF Owes
  <2>6. Steady(p)
    BY <1>1, <2>1, <2>2, <2>3, <2>4, <2>5 DEF Steady
  <2> QED BY <2>6, SteadyKeeps
<1>5. CASE ~OwesLead(p)
  <2>1. op'[p] = Idle /\ pass' = pass /\ turns' = Without(turns, p) /\ \A q \in Proc : q # p => op'[q] = op[q]
    BY <1>1, <1>5 DEF ProveParent, Ends
  <2>2. ~ChainRead(p)' /\ ~UnderGate(p)'
    BY <2>1 DEF ChainRead, UnderGate, RetainsFor, Idle
  <2>3. Committing' => Committing
    BY <1>1, <2>1, Constants DEF Committing
  <2>4. ~Strayed(p, s)
    BY <1>5, ArchiveConstants DEF OwesLead, Strayed
  <2>5. parent[s] \notin archived
    <3>1. ASSUME parent[s] \in archived PROVE parent[s] \in Session /\ parent[s] # NoSession
      BY <3>1, ArchiveConstants DEF Control, DocsOK
    <3> QED BY <1>5, <3>1, OwnAncestor DEF OwesLead
  <2>6. Steady(p)
    BY <1>1, <1>2, <1>3, <2>1, <2>2, <2>3, <2>4, <2>5 DEF Steady, Strayed
  <2> QED BY <2>6, SteadyKeeps
<1> QED BY <1>4, <1>5

(* A retention of a lead is owed until it is over. *)
LEMMA LeadsReadChain ==
  ASSUME Control, Leads, NEW p \in Proc, ReadChain(p)
  PROVE  Leads'
PROOF
<1>1. /\ op[p].at = "chain" /\ op \in [Proc -> Operation] /\ op[p].who \in Session
      /\ UNCHANGED << parent, born, archived, orphaned, pass >> /\ (Unharmed' => Unharmed)
      /\ turns' = Append(turns, p)
  BY DEF ReadChain, At, docVars, homeVars, countVars, Control, OpsOK, DocsOK, Asked, Retaining, Unharmed
<1>2. /\ op'[p].at = "turn" /\ op'[p].chain = Ancestors(op[p].who) /\ op'[p].kind = op[p].kind
      /\ op'[p].id = op[p].id /\ op'[p].root = op[p].root /\ op'[p].prev = op[p].prev
      /\ op'[p].after = op[p].after /\ \A q \in Proc : q # p => op'[q] = op[q]
  BY <1>1 DEF ReadChain, ChainOf, Operation
<1>3. UnderGate(p)' => UnderGate(p)
  BY <1>1, <1>2 DEF UnderGate, RetainsFor, Retaining
<1>4. \A s \in op'[p].chain : Above(s) \subseteq op'[p].chain
  <2>1. \A s \in Session : Above(s) \subseteq Session
    BY DEF Above, Control, DocsOK, MaybeSession
  <2> QED BY <1>1, <1>2, <2>1, AncestorsUp, OwnAncestor
<1>5. Committing' => Committing
  BY <1>1, <1>2, Constants DEF Committing
<1>6. \A s : ~Proving(p, s) /\ (Owes(p, s) => Owes(p, s)')
  BY <1>1, <1>2, OwnAncestor DEF Proving, Owes, ChainRead
<1>7. Steady(p)
  BY <1>1, <1>2, <1>3, <1>4, <1>5, <1>6 DEF Steady, Strayed
<1> QED BY <1>7, SteadyKeeps

LEMMA LeadsRestores ==
  ASSUME Control, Leads, NEW p \in Proc,
         op[p].at \in {"turn", "write"}, GoesTo(p, "write") \/ GoesTo(p, "publish"),
         UNCHANGED << parent, born, archived, orphaned, faults, crashes, turns, pass >>
  PROVE  Leads'
PROOF
<1>1. op \in [Proc -> Operation] /\ {"write", "publish"} \subseteq Places
  BY DEF Control, OpsOK, Places, Retaining
<1>2. /\ op'[p].at \in {"write", "publish"} /\ SameButAt(p) /\ \A q \in Proc : q # p => op'[q] = op[q]
  BY <1>1, GoesToIs
<1>3. UnderGate(p)' => UnderGate(p)
  BY <1>2 DEF UnderGate, RetainsFor, Retaining, SameButAt
<1>4. ChainRead(p) /\ op'[p].chain = op[p].chain
  BY <1>2 DEF ChainRead, SameButAt
<1>5. Committing' => Committing
  BY <1>2, Constants DEF Committing
<1>6. \A s : ~Proving(p, s) /\ (Owes(p, s) => Owes(p, s)')
  BY <1>2 DEF Proving, Owes, ChainRead, SameButAt
<1>7. Steady(p)
  BY <1>2, <1>3, <1>4, <1>5, <1>6 DEF Steady, Strayed, SameButAt, Unharmed
<1> QED BY <1>7, SteadyKeeps

(* What a retention that is over leaves of its caller. *)
LEMMA ResumeLeaves ==
  ASSUME Control, NEW p \in Proc, op[p].at \in {"turn", "publish"}, TurnOf(p), Resume(p)
  PROVE  /\ \A q \in Proc : q # p => op'[q] = op[q]
         /\ turns' = Without(turns, p)
         /\ ~ChainRead(p)' /\ (Committing' => Committing /\ pass' = pass)
         /\ UnderGate(p)' =>
              UnderGate(p) /\ op'[p].id = op[p].id /\ op'[p].root = op[p].root /\ op'[p].prev = op[p].prev
PROOF
<1>1. /\ op \in [Proc -> Operation] /\ turns \in Seq(Proc) /\ Once(turns)
      /\ op'[p].at \in {"idle", "root", "doc", "later"} /\ \A q \in Proc : q # p => op'[q] = op[q]
  BY ResumeIs DEF Control, OpsOK, TurnsOK, Orderly
<1>2. Tail(turns) = Without(turns, p)
  BY <1>1, TailIsWithout DEF TurnOf, Ahead
<1>3. ~ChainRead(p)'
  BY <1>1 DEF ChainRead
<1>4. CASE op[p].after = "idle"
  <2>1. op'[p] = Idle /\ (p = Archiver \/ pass' = pass) /\ turns' = Without(turns, p)
    BY <1>1, <1>4 DEF Resume, Ends
  <2>2. ~UnderGate(p)'
    BY <2>1 DEF UnderGate, Idle
  <2>3. Committing' => Committing /\ pass' = pass
    BY <1>1, <2>1, Constants DEF Committing
  <2> QED BY <1>1, <1>3, <2>1, <2>2, <2>3
<1>5. CASE op[p].after # "idle"
  <2>1. /\ op'[p].at = op[p].after /\ op'[p].id = op[p].id /\ op'[p].root = op[p].root
        /\ op'[p].prev = op[p].prev /\ op'[p].kind = op[p].kind /\ pass' = pass
        /\ turns' = Without(turns, p)
    BY <1>1, <1>2, <1>5 DEF Resume, Operation
  <2>2. UnderGate(p)' => UnderGate(p)
    BY <1>1, <2>1 DEF UnderGate, RetainsFor, Retaining
  <2>3. Committing' => Committing
    BY <1>1, Constants DEF Committing
  <2> QED BY <1>1, <1>3, <2>1, <2>2, <2>3
<1> QED BY <1>4, <1>5

LEMMA LeadsRestoreRows ==
  ASSUME Control, Leads, NEW p \in Proc, RestoreRows(p) \/ WriteRegistry(p)
  PROVE  Leads'
PROOF
<1>1. CASE WriteRegistry(p)
  BY <1>1, LeadsRestores DEF WriteRegistry, At, docVars, lockVars, countVars
<1>2. CASE RestoreRows(p) /\ Restored(p) # {}
  BY <1>2, LeadsRestores DEF RestoreRows, At, docVars, lockVars, countVars
<1>3. CASE RestoreRows(p) /\ Restored(p) = {}
  <2>1. /\ op[p].at = "turn" /\ TurnOf(p) /\ Resume(p)
        /\ UNCHANGED << parent, born, archived, orphaned, faults, crashes >>
    BY <1>3 DEF RestoreRows, At, docVars, countVars
  <2>2. \A s : ~Proving(p, s) /\ (Owes(p, s) => parent[s] \in op[p].chain)
    BY <2>1 DEF Proving, Owes, ChainRead
  <2>3. \A s : parent[s] \in archived => ~Owes(p, s)
    BY <1>3, <2>2 DEF Restored
  <2>4. Steady(p)
    BY <2>1, <2>2, <2>3, ResumeLeaves DEF Steady, Strayed, Unharmed
  <2> QED BY <2>4, SteadyKeeps
<1> QED BY <1>1, <1>2, <1>3

(* What comes back comes back with its leads: the chain is still its lineage. *)
LEMMA LeadsPublish ==
  ASSUME Control, Leads, NEW p \in Proc, Publish(p)
  PROVE  Leads'
PROOF
<1>1. /\ op[p].at = "publish" /\ Resume(p) /\ op \in [Proc -> Operation]
      /\ archived' = archived \ op[p].chain /\ UNCHANGED << parent, born, faults, crashes >>
      /\ orphaned' = {s \in orphaned : parent[s] \notin op[p].chain}
  BY DEF Publish, At, docVars, countVars, Control, OpsOK
<1>2. TurnOf(p) /\ turns \in Seq(Proc)
  BY <1>1, HasTurn DEF Control, TurnsOK, Orderly
<1>3. /\ \A q \in Proc : q # p => op'[q] = op[q]
      /\ turns' = Without(turns, p)
      /\ ~ChainRead(p)' /\ (Committing' => Committing /\ pass' = pass)
      /\ UnderGate(p)' =>
           UnderGate(p) /\ op'[p].id = op[p].id /\ op'[p].root = op[p].root /\ op'[p].prev = op[p].prev
  BY <1>1, <1>2, ResumeLeaves
<1>4. GatesHold'
  <2>1. \A q \in Proc : q # p => (UnderGate(q)' => UnderGate(q))
    BY <1>3 DEF UnderGate, RetainsFor
  <2>2. \A q \in Proc : UnderGate(q)' => RootOf(op'[q].id) = op'[q].root /\ parent[op'[q].id] = op'[q].prev
    BY <1>3, <2>1 DEF Leads, GatesHold
  <2> QED BY <1>1, <2>2, GatesOn DEF Leads
<1>5. ChainsAreWhole'
  <2>1. ASSUME NEW q \in Proc, q # p PROVE Gone(q)' \subseteq Gone(q)
    <3>1. Behind(turns', Archiver, q) => Behind(turns, Archiver, q)
      BY <1>2, <1>3, <2>1, BehindStays
    <3> QED BY <1>1, <1>3, <3>1 DEF Gone, BehindPass
  <2>2. \A q \in Proc : ChainRead(q)' => q # p /\ ChainRead(q) /\ op'[q] = op[q]
    BY <1>3 DEF ChainRead
  <2> QED BY <1>1, <2>1, <2>2, ChainsOn DEF Leads
<1>6. \A q \in Proc : \A s : Proving(q, s) => q # p /\ Proving(q, s)' /\ op'[q] = op[q]
  BY <1>1, <1>3 DEF Proving
<1>7. ListedLeadsStay'
  BY <1>1, <1>3, <1>6, ListedOn DEF Leads, Strayed, Control, OpsOK, PassMemory
<1>8. LeadsAreOwed'
  <2> SUFFICES ASSUME Unharmed', NEW s \in (Live \ orphaned)', parent[s] \in archived'
               PROVE  \E q \in Proc : Owes(q, s)'
    BY <1>1 DEF LeadsAreOwed
  <2>1. s \in born /\ s \in Session /\ parent[s] \in archived /\ parent[s] \notin op[p].chain /\ s \notin orphaned
    BY <1>1 DEF Live, Control, DocsOK
  <2>2. s \notin archived
    <3>1. ASSUME s \in archived PROVE FALSE
      <4>1. s \in op[p].chain \cap Gone(p) /\ ChainRead(p)
        BY <1>1, <3>1 DEF Gone, Live, ChainRead
      <4>2. Above(s) \subseteq op[p].chain
        BY <4>1 DEF Leads, ChainsAreWhole
      <4>3. parent[s] # NoSession
        BY <2>1, ArchiveConstants DEF Control, DocsOK
      <4> QED BY <2>1, <4>2, <4>3 DEF Above
    <3> QED BY <3>1
  <2>3. PICK q \in Proc : Owes(q, s)
    BY <1>1, <2>1, <2>2 DEF Leads, LeadsAreOwed, Unharmed, Live
  <2>4. q # p
    BY <1>1, <2>1, <2>3 DEF Owes, ChainRead, Proving
  <2>5. op'[q] = op[q] /\ parent' = parent
    BY <1>1, <1>3, <2>4
  <2> QED BY <2>3, <2>5 DEF Owes, Proving, ChainRead
<1> QED BY <1>4, <1>5, <1>7, <1>8 DEF Leads

(* A gate is held by one writer: nobody else writes in its lineage. *)
LEMMA OneUnderGate ==
  ASSUME Control, GatesHold, NEW p \in Proc, NEW q \in Proc, UnderGate(p), UnderGate(q), p # q
  PROVE  op[p].id \in Session /\ op[q].id \in Session /\ op[p].id \notin Ancestors(op[q].id)
PROOF
<1>1. op[p].id \in Session /\ op[q].id \in Session
  BY DEF UnderGate, Control, OpsOK, DocsOK, Asked
<1>2. ASSUME NEW o \in Proc, UnderGate(o) PROVE op[o].root \in Session /\ Ahead(gates[op[o].root], o)
  <2>1. op[o].id \in Session /\ op[o].root = RootOf(op[o].id)
    BY <1>2 DEF UnderGate, Control, OpsOK, DocsOK, Asked, GatesHold
  <2>2. op[o].root \in Session
    BY <2>1, RootIsTop, OwnAncestor DEF Top, Control
  <2>3. GateKeys(o) = {op[o].root}
    BY <1>2 DEF UnderGate, GateKeys, UnderDoc
  <2>4. o \in {x \in Proc : op[o].root \in Gated[x]} \cap GateHolders
    BY <1>2, <2>3 DEF Gated, GateHolders, UnderGate, RetainsFor, Retaining
  <2>5. Orderly(gates[op[o].root], {x \in Proc : op[o].root \in Gated[x]}, GateHolders)
    BY <2>2 DEF Control, GatesOK, InOrder
  <2> QED BY <2>2, <2>4, <2>5 DEF Orderly
<1>3. ASSUME op[p].id \in Ancestors(op[q].id) PROVE FALSE
  <2>1. RootOf(op[p].id) = RootOf(op[q].id)
    BY <1>1, <1>3, OneRoot DEF Control
  <2>2. op[p].root = op[q].root
    BY <2>1 DEF GatesHold
  <2> QED BY <1>2, <2>2, OneAhead
<1> QED BY <1>1, <1>3

LEMMA LeadsWriteDoc ==
  ASSUME Control, Homes, Leads, NEW p \in Proc, WriteDoc(p)
  PROVE  Leads'
PROOF
<1> DEFINE s == op[p].id
           to == op[p].to
<1>1. /\ op[p].at = "doc" /\ op \in [Proc -> Operation] /\ p # Archiver /\ s \in Session
      /\ UNCHANGED << archived, orphaned, turns, pass, faults, crashes >>
      /\ parent \in [Session -> MaybeSession]
  BY WriterHasLane DEF WriteDoc, At, homeVars, lockVars, countVars, Control, OpsOK, DocsOK
<1>2. op'[p].at = "row" /\ SameButAt(p) /\ \A q \in Proc : q # p => op'[q] = op[q]
  BY <1>1, GoesToIs DEF WriteDoc, Places
<1>3. CASE op[p].kind = "state"
  <2>1. UNCHANGED << parent, born >>
    BY <1>3 DEF WriteDoc
  <2> QED BY <1>1, <1>2, <1>3, <2>1, LeadsAway DEF Retaining, Unharmed, SameButAt
<1>4. CASE op[p].kind \in {"config", "child"}
  <2>1. parent' = [parent EXCEPT ![s] = to] /\ born' = born \cup {s}
    BY <1>4 DEF WriteDoc
  <2>2. parent'[s] = to /\ \A m \in Session : m # s => parent'[m] = parent[m]
    BY <1>1, <2>1
  <2>3. UnderGate(p) /\ op[p].prev = parent[s]
    BY <1>1, <1>4 DEF UnderGate, Leads, GatesHold
  <2>4. s \notin archived /\ (Committing => s \notin pass.leaving)
    BY <1>1, LeavingIsHeld DEF Homes, WrittenIsLive
  <2>5. \A x : ~Proving(p, x) /\ ~Owes(p, x)
    BY <1>1 DEF Proving, Owes, ChainRead
  <2>6. op'[p].at = "row" /\ op'[p].kind \in {"config", "child"} /\ op'[p].id = s /\ op'[p].prev = parent[s]
    BY <1>2, <1>4, <2>3 DEF SameButAt
  <2>7. Committing' <=> Committing
    BY <1>1, <1>2, Constants DEF Committing
  <2>8. GatesHold'
    <3> SUFFICES ASSUME NEW q \in Proc, UnderGate(q)'
                 PROVE  (RootOf(op[q].id) = op[q].root /\ parent[op[q].id] = op[q].prev)'
      BY DEF GatesHold
    <3>1. q # p
      BY <1>2 DEF UnderGate, RetainsFor, Retaining
    <3>2. op'[q] = op[q] /\ UnderGate(q)
      BY <1>2, <3>1 DEF UnderGate, RetainsFor
    <3>3. s \notin Ancestors(op[q].id) /\ op[q].id \in Session
      BY <2>3, <3>1, <3>2, OneUnderGate DEF Leads
    <3>4. RootOf(op[q].id)' = RootOf(op[q].id) /\ op[q].id # s
      <4>1. op[q].id # s
        BY <3>3, OwnAncestor
      <4>2. \A x \in Session : s \notin Ancestors(x) => RootOf(x)' = RootOf(x)
        BY <1>1, <2>2, RootStands DEF Control
      <4>3. PICK x \in Session : x = op[q].id
        BY <3>3
      <4>4. RootOf(x)' = RootOf(x)
        BY <3>3, <4>2, <4>3
      <4>5. x = op'[q].id
        BY <3>2, <4>3
      <4> QED BY <4>1, <4>3, <4>4, <4>5
    <3> QED BY <2>2, <3>2, <3>3, <3>4 DEF Leads, GatesHold
  <2>9. ChainsAreWhole'
    <3> SUFFICES ASSUME NEW q \in Proc, ChainRead(q)', NEW x \in op'[q].chain \cap Gone(q)'
                 PROVE  Above(x)' \subseteq op'[q].chain
      BY DEF ChainsAreWhole
    <3>1. op'[q] = op[q] /\ ChainRead(q)
      BY <1>2 DEF ChainRead
    <3>2. Gone(q)' = Gone(q)
      BY <1>1, <2>7 DEF Gone, BehindPass, Behind
    <3>3. x # s
      BY <2>4, <3>2 DEF Gone
    <3>4. x \in Session
      BY <3>1 DEF Control, OpsOK, OnlyBorn, DocsOK
    <3>5. Above(x)' = Above(x)
      BY <2>2, <3>3, <3>4 DEF Above
    <3> QED BY <3>1, <3>2, <3>5 DEF Leads, ChainsAreWhole
  <2>10. ListedLeadsStay'
    <3> SUFFICES ASSUME Committing, pass.fresh, NEW x \in pass.listed \ pass.leaving,
                        parent'[x] \in pass.leaving
                 PROVE  \E q \in Proc : Proving(q, x)' /\ op'[q].prev # parent'[x]
      BY <1>1, <2>7 DEF ListedLeadsStay
    <3>1. CASE x = s /\ to # parent[s]
      BY <2>2, <2>6, <3>1 DEF Proving
    <3>2. CASE x # s \/ to = parent[s]
      <4>1. x \in Session /\ parent'[x] = parent[x]
        BY <2>2, <3>2 DEF Control, OpsOK, PassMemory
      <4>2. PICK q \in Proc : Proving(q, x) /\ op[q].prev # parent[x]
        BY <4>1 DEF Leads, ListedLeadsStay
      <4>3. op'[q] = op[q]
        BY <1>2, <2>5, <4>2
      <4> QED BY <4>1, <4>2, <4>3 DEF Proving
    <3> QED BY <3>1, <3>2
  <2>11. LeadsAreOwed'
    <3> SUFFICES ASSUME Unharmed', NEW x \in (Live \ orphaned)', parent'[x] \in archived'
                 PROVE  \E q \in Proc : Owes(q, x)'
      BY DEF LeadsAreOwed
    <3>1. CASE x = s
      BY <2>6, <3>1 DEF Owes, Proving
    <3>2. CASE x # s
      <4>1. x \in Live \ orphaned /\ x \in Session /\ parent'[x] = parent[x] /\ Unharmed
        BY <1>1, <2>1, <2>2, <3>2 DEF Live, Control, DocsOK, Unharmed
      <4>2. PICK q \in Proc : Owes(q, x)
        BY <1>1, <4>1 DEF Leads, LeadsAreOwed
      <4>3. op'[q] = op[q]
        BY <1>2, <2>5, <4>2
      <4> QED BY <4>1, <4>2, <4>3 DEF Owes, Proving, ChainRead
    <3> QED BY <3>1, <3>2
  <2> QED BY <2>8, <2>9, <2>10, <2>11 DEF Leads
<1> QED BY <1>3, <1>4 DEF WriteDoc


(* The pass reads, and goes back over what it took. *)
LEMMA LeadsFail ==
  ASSUME Control, Leads, NEW p \in Proc, RegistryFails(p) \/ (p = Archiver /\ CommitFails)
  PROVE  Leads'
PROOF
<1>1. /\ Ends(p) /\ UNCHANGED << parent, born, archived, orphaned >> /\ ~Unharmed'
      /\ op[p].at \in {"write", "commit", "committed"}
  BY ArchiveConstants DEF RegistryFails, CommitFails, At, docVars, Unharmed, Control, DocsOK
<1> QED BY <1>1, LeadsAtEnd

LEMMA LeadsPassReads ==
  ASSUME Control, Leads,
         Decide \/ ReadRoots \/ EnterGates \/ EnterLanes \/ ReadKeeps \/ ListLive \/ Late \/ RetainLate
  PROVE  Leads'
PROOF
<1> DEFINE places == {"root", "gate", "lane", "keeps", "list", "verify", "chain", "later"}
<1>1. /\ op[Archiver].at \in {"idle", "root", "gate", "lane", "keeps", "list", "late", "later"}
      /\ Archiver \in Proc /\ op \in [Proc -> Operation]
      /\ UNCHANGED << parent, born, archived, orphaned, faults, crashes >>
      /\ op[Archiver].kind \in {"none", "pass"}
  BY Constants DEF Decide, ReadRoots, EnterGates, EnterLanes, ReadKeeps, ListLive, Late, RetainLate, At,
     docVars, homeVars, countVars, Control, OpsOK, Asked
<1>2. CASE Ends(Archiver)
  BY <1>1, <1>2, LeadsAtEnd DEF Retaining, Unharmed
<1>3. CASE ~Ends(Archiver)
  <2>1. turns' = turns
    BY <1>3 DEF Decide, ReadRoots, EnterGates, EnterLanes, ReadKeeps, ListLive, Late, RetainLate, lockVars
  <2>2. /\ op'[Archiver].at \in places /\ op'[Archiver].kind \notin {"config", "child"}
        /\ \A q \in Proc : q # Archiver => op'[q] = op[q]
    <3>1. CASE Decide
      BY <1>1, <3>1 DEF Decide, Idle
    <3>2. CASE EnterGates
      BY <1>1, <1>3, <3>2 DEF EnterGates, GoesTo, Operation
    <3>3. CASE RetainLate
      <4>1. PICK s \in pass.left :
              op' = [op EXCEPT ![Archiver].at = "chain", ![Archiver].who = s,
                               ![Archiver].after = IF pass.left = {s} THEN "idle" ELSE "later"]
        BY <3>3 DEF RetainLate
      <4> QED BY <1>1, <4>1 DEF Operation
    <3>4. CASE ReadRoots \/ EnterLanes \/ ReadKeeps \/ ListLive \/ Late
      <4>1. PICK at \in {"gate", "keeps", "list", "verify", "later"} : GoesTo(Archiver, at)
        BY <1>3, <3>4 DEF ReadRoots, EnterLanes, ReadKeeps, ListLive, Late
      <4> QED BY <1>1, <4>1, GoesToIs DEF Places, SameButAt
    <3> QED BY <3>1, <3>2, <3>3, <3>4
  <2> QED BY <1>1, <2>1, <2>2, LeadsAway DEF Retaining, Unharmed
<1> QED BY <1>2, <1>3

(* The pass leaves no lead of a listed session that stays. *)
LEMMA LeavingLeadsAll ==
  ASSUME Control, NEW out \in SUBSET Members(pass.ids), Leaving(out),
         NEW s \in pass.listed \ out, parent[s] \in out
  PROVE  FALSE
PROOF
<1>1. PICK i \in DOMAIN pass.ids : parent[s] = pass.ids[i]
  BY DEF Members
<1>2. ~StaysFor(parent[s], out \cap {pass.ids[j] : j \in 1 .. i - 1})
  BY <1>1 DEF Leaving
<1>3. s # parent[s]
  OBVIOUS
<1>4. s \in ChildrenIn(parent[s], pass.listed)
  BY <1>3 DEF ChildrenIn
<1> QED BY <1>2, <1>4 DEF StaysFor

LEMMA LeadsVerify ==
  ASSUME Control, Leads, Verify
  PROVE  Leads'
PROOF
<1>1. /\ op[Archiver].at = "verify" /\ op \in [Proc -> Operation] /\ Archiver \in Proc
      /\ pass \in PassMemory /\ op[Archiver].kind = "pass"
      /\ UNCHANGED << parent, born, archived, orphaned, faults, crashes >>
  BY PassIs DEF Verify, At, docVars, homeVars, countVars, Control
<1>2. PICK out \in SUBSET Members(pass.ids) :
        /\ Leaving(out)
        /\ \/ Ends(Archiver)
           \/ /\ pass' = [pass EXCEPT !.leaving = out] /\ turns' = Append(turns, Archiver)
              /\ GoesTo(Archiver, "commit")
  BY DEF Verify
<1>3. CASE Ends(Archiver)
  BY <1>1, <1>3, LeadsAtEnd DEF Retaining, Unharmed
<1>4. CASE /\ pass' = [pass EXCEPT !.leaving = out] /\ turns' = Append(turns, Archiver)
           /\ GoesTo(Archiver, "commit")
  <2>1. /\ op'[Archiver].at = "commit" /\ SameButAt(Archiver)
        /\ \A q \in Proc : q # Archiver => op'[q] = op[q]
    BY <1>1, <1>4, GoesToIs DEF Places
  <2>2. pass'.leaving = out /\ pass'.listed = pass.listed
    BY <1>1, <1>4 DEF PassMemory
  <2>3. \A q \in Proc : UnderGate(q)' => UnderGate(q) /\ op'[q] = op[q]
    BY <2>1 DEF UnderGate, RetainsFor, Retaining
  <2>4. GatesHold'
    BY <1>1, <2>3, GatesOn DEF Leads, GatesHold
  <2>5. \A q \in Proc : ~BehindPass(q)'
    <3>1. turns \in Seq(Proc) /\ Archiver \notin TurnUsers
      BY <1>1 DEF Control, TurnsOK, Orderly, TurnUsers
    <3>2. PICK n \in Nat : n = Len(turns)
      BY <3>1
    <3>3. \A i \in 1 .. n : turns[i] # Archiver
      BY <3>1, <3>2 DEF Control, TurnsOK, Orderly, Standing
    <3>4. Len(turns') = n + 1 /\ \A i \in 1 .. n : turns'[i] = turns[i]
      BY <1>4, <3>1, <3>2
    <3>5. ASSUME NEW i \in 1 .. n + 1, NEW j \in 1 .. n + 1, i < j PROVE turns'[i] # Archiver
      BY <3>3, <3>4, <3>5
    <3> QED BY <3>4, <3>5 DEF BehindPass, Behind
  <2>6. \A q \in Proc : ChainRead(q)' =>
          ChainRead(q) /\ op'[q].chain = op[q].chain /\ Gone(q)' \subseteq Gone(q)
    BY <1>1, <2>1, <2>5 DEF ChainRead, Gone
  <2>7. ChainsAreWhole'
    BY <1>1, <2>6, ChainsOn DEF Leads
  <2>8. ListedLeadsStay'
    <3>1. \A s \in pass.listed \ out : parent[s] \notin out
      BY <1>2, LeavingLeadsAll
    <3> QED BY <1>1, <2>2, <3>1 DEF ListedLeadsStay
  <2>9. LeadsAreOwed'
    <3>1. \A q \in Proc, s \in Session : Owes(q, s) => Owes(q, s)'
      BY <1>1, <2>1 DEF Owes, Proving, ChainRead
    <3>2. Live \subseteq Session /\ (Live \ orphaned)' \subseteq Live \ orphaned
      BY <1>1 DEF Live, Control, DocsOK
    <3> QED BY <1>1, <3>1, <3>2, OwedOn DEF Leads, Unharmed
  <2> QED BY <2>4, <2>7, <2>8, <2>9 DEF Leads
<1> QED BY <1>2, <1>3, <1>4

LEMMA LeadsCommit ==
  ASSUME Control, Leads, Commit
  PROVE  Leads'
PROOF
<1>1. /\ op[Archiver].at = "commit" /\ op \in [Proc -> Operation] /\ Archiver \in Proc
      /\ op[Archiver].kind = "pass"
      /\ UNCHANGED << parent, born, archived, orphaned, faults, crashes >>
  BY PassIs DEF Commit, At, docVars, homeVars, countVars, Control
<1>2. CASE ~Valid
  BY <1>1, <1>2, LeadsAtEnd DEF Commit, Retaining, Unharmed
<1>3. CASE Valid
  <2>1. GoesTo(Archiver, "committed") /\ pass' = pass /\ turns' = turns
    BY <1>3 DEF Commit, lockVars
  <2>2. /\ op'[Archiver].at = "committed" /\ \A q \in Proc : q # Archiver => op'[q] = op[q]
    BY <1>1, <2>1, GoesToIs DEF Places
  <2>3. ~UnderGate(Archiver)' /\ ~ChainRead(Archiver)' /\ Committing
    BY <1>1, <2>2 DEF UnderGate, RetainsFor, Retaining, ChainRead, Committing
  <2>4. \A s : ~Strayed(Archiver, s) /\ ~Owes(Archiver, s)
    BY <1>1 DEF Strayed, Owes, Proving, ChainRead
  <2>5. Steady(Archiver)
    BY <1>1, <2>1, <2>2, <2>3, <2>4 DEF Steady, Unharmed
  <2> QED BY <1>1, <2>5, SteadyKeeps
<1> QED BY <1>2, <1>3

(* What the pass takes: a chain read behind it is whole of that too, and whoever
   stays behind a lead that leaves was listed, so its writer has still to prove it. *)
LEMMA LeadsPublishPass ==
  ASSUME Control, Leads, PublishPass
  PROVE  Leads'
PROOF
<1>1. /\ op[Archiver].at = "committed" /\ op \in [Proc -> Operation] /\ Archiver \in Proc
      /\ pass \in PassMemory /\ op[Archiver].kind = "pass" /\ Committing
      /\ UNCHANGED << parent, born, faults, crashes >>
  BY PassIs DEF PublishPass, At, docVars, countVars, Control, Committing
<1>2. CASE ~Valid
  BY <1>1, <1>2, LeadsAtEnd DEF PublishPass, Retaining, Unharmed
<1>3. CASE Valid
  <2>1. /\ archived' = archived \cup pass.leaving
        /\ orphaned' = (orphaned \ pass.leaving) \cup
             {c \in Live \ (pass.leaving \cup pass.listed) : parent[c] \in pass.leaving}
        /\ op' = [op EXCEPT ![Archiver] = [Idle EXCEPT !.kind = "pass", !.at = "late"]]
    BY <1>3 DEF PublishPass
  <2>2. op'[Archiver].at = "late" /\ \A q \in Proc : q # Archiver => op'[q] = op[q]
    BY <1>1, <2>1 DEF Idle
  <2>3. \A q \in Proc : UnderGate(q)' => UnderGate(q) /\ op'[q] = op[q]
    BY <2>2 DEF UnderGate, RetainsFor, Retaining
  <2>4. GatesHold'
    BY <1>1, <2>3, GatesOn DEF Leads, GatesHold
  <2>5. \A q \in Proc : ChainRead(q)' => q # Archiver /\ ChainRead(q) /\ op'[q] = op[q]
    BY <2>2 DEF ChainRead
  <2>6. ASSUME NEW q \in Proc, q # Archiver, ChainRead(q) PROVE BehindPass(q)
    <3>1. TurnOf(Archiver) /\ turns \in Seq(Proc) /\ q \in TurnUsers
      BY <1>1, <2>6, HasTurn DEF Control, TurnsOK, Orderly, ChainRead, TurnUsers
    <3>2. PICK n \in Nat : n = Len(turns)
      BY <3>1
    <3>3. 1 \in 1 .. n /\ turns[1] = Archiver
      BY <3>1, <3>2 DEF TurnOf
    <3>4. PICK j \in 1 .. n : turns[j] = q
      BY <3>1, <3>2 DEF Control, TurnsOK, Orderly, Standing
    <3>5. 1 < j
      BY <2>6, <3>3, <3>4
    <3> QED BY <3>2, <3>3, <3>4, <3>5 DEF BehindPass, Behind
  <2>7. \A q \in Proc : ChainRead(q)' =>
          ChainRead(q) /\ op'[q].chain = op[q].chain /\ Gone(q)' \subseteq Gone(q)
    <3>1. ~Committing'
      BY <2>2 DEF Committing
    <3> QED BY <1>1, <2>1, <2>5, <2>6, <3>1 DEF Gone
  <2>8. ChainsAreWhole'
    BY <1>1, <2>7, ChainsOn DEF Leads
  <2>9. ListedLeadsStay'
    BY <2>2 DEF ListedLeadsStay, Committing
  <2>10. LeadsAreOwed'
    <3> SUFFICES ASSUME Unharmed', NEW s \in (Live \ orphaned)', parent[s] \in archived'
                 PROVE  \E q \in Proc : Owes(q, s)'
      BY <1>1 DEF LeadsAreOwed
    <3>1. /\ s \in Live /\ s \notin pass.leaving /\ s \notin orphaned
          /\ parent[s] \in pass.leaving => s \in pass.listed
      BY <1>1, <2>1 DEF Live
    <3>2. \E q \in Proc : Owes(q, s)
      <4>1. CASE parent[s] \in archived
        BY <1>1, <3>1, <4>1 DEF Leads, LeadsAreOwed, Unharmed
      <4>2. CASE parent[s] \in pass.leaving
        BY <1>1, <1>3, <3>1, <4>2 DEF Leads, ListedLeadsStay, Valid, Owes
      <4> QED BY <2>1, <4>1, <4>2
    <3>3. PICK q \in Proc : Owes(q, s)
      BY <3>2
    <3>4. op'[q] = op[q]
      BY <1>1, <2>2, <3>3 DEF Owes, Proving, ChainRead
    <3> QED BY <1>1, <3>3, <3>4 DEF Owes, Proving, ChainRead
  <2> QED BY <2>4, <2>8, <2>9, <2>10 DEF Leads
<1> QED BY <1>2, <1>3

LEMMA LeadsNext ==
  ASSUME Control, Homes, Leads, [Next]_vars
  PROVE  Leads'
PROOF
<1>1. ASSUME UNCHANGED << parent, born, archived, orphaned, turns, op, pass, faults, crashes >>
      PROVE  Leads'
  <2>1. \A q \in Proc : Gone(q)' = Gone(q)
    BY <1>1 DEF Gone, Committing, BehindPass, Behind
  <2>2. GatesHold'
    BY <1>1, GatesOn DEF Leads, GatesHold, UnderGate, RetainsFor
  <2>3. ChainsAreWhole'
    BY <1>1, <2>1, ChainsOn DEF Leads, ChainRead
  <2>4. ListedLeadsStay'
    BY <1>1 DEF Leads, ListedLeadsStay, Proving, Committing
  <2>5. LeadsAreOwed'
    BY <1>1 DEF Leads, LeadsAreOwed, Owes, Proving, ChainRead, Unharmed, Live
  <2> QED BY <2>2, <2>3, <2>4, <2>5 DEF Leads
<1>2. CASE UNCHANGED vars
  BY <1>1, <1>2 DEF vars, docVars, homeVars, lockVars, countVars
<1>3. ASSUME NEW s \in Session, Age(s) \/ Unpin(s) PROVE Leads'
  BY <1>1, <1>3 DEF Age, Unpin, homeVars, lockVars, countVars
<1>4. CASE Restart
  <2>1. \A p \in Proc : op'[p].at = "idle"
    BY <1>4 DEF Restart, Idle
  <2>2. ~Unharmed'
    BY <1>4, ArchiveConstants DEF Restart, Unharmed, Control, DocsOK
  <2>3. \A p \in Proc : ~UnderGate(p)' /\ ~ChainRead(p)'
    BY <2>1 DEF UnderGate, RetainsFor, Retaining, ChainRead
  <2>4. ~Committing'
    BY <2>1, Constants DEF Committing
  <2> QED BY <2>2, <2>3, <2>4 DEF Leads, GatesHold, ChainsAreWhole, ListedLeadsStay, LeadsAreOwed
<1>5. ASSUME NEW p \in Proc, Step(p) \/ RegistryFails(p) PROVE Leads'
  BY <1>5, LeadsFail, LeadsReadChain, LeadsRestoreRows, LeadsPublish, LeadsReadRoot, LeadsEnterGate,
     LeadsEnterLane, LeadsWriteDoc, LeadsSyncRow, LeadsProveParent DEF Step
<1>6. CASE CommitFails
  BY <1>6, LeadsFail, Constants
<1>7. CASE Decide \/ PassStep
  BY <1>7, LeadsPassReads, LeadsVerify, LeadsCommit, LeadsPublishPass DEF PassStep
<1> QED BY <1>2, <1>3, <1>4, <1>5, <1>6, <1>7, LeadsAsk DEF Next

(* A live session's lead is live whenever nothing is under way: whoever gave it
   that lead, or wrote its documents while a pass took the lead away, retains it
   before it is done. The gate makes what its writer read of the lineage last, and
   the turn makes what a retention read of it whole. *)
THEOREM LeadsAreKept == Spec => []LeadStays
PROOF
<1>1. Init => Leads
  <2> SUFFICES ASSUME Init PROVE Leads
    OBVIOUS
  <2>1. archived = {} /\ \A p \in Proc : op[p].at = "idle"
    BY DEF Init, Idle
  <2>2. \A p \in Proc : ~UnderGate(p) /\ ~ChainRead(p)
    BY <2>1 DEF UnderGate, RetainsFor, Retaining, ChainRead
  <2>3. ~Committing
    BY <2>1, Constants DEF Committing
  <2> QED BY <2>1, <2>2, <2>3 DEF Leads, GatesHold, ChainsAreWhole, ListedLeadsStay, LeadsAreOwed
<1>2. Leads => LeadStays
  BY DEF Leads, LeadsAreOwed, LeadStays, Quiet, Owes, Proving, ChainRead
<1> QED BY <1>1, <1>2, Housed, LeadsNext, PTL DEF Spec

=============================================================================
