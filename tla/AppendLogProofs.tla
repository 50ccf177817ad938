--------------------------- MODULE AppendLogProofs ---------------------------
(***************************************************************************)
(* Proofs about AppendLog for any records and any number of torn appends.  *)
(* The incremental read agrees with the whole one because the file can be  *)
(* cut after any newline without a record being lost or gained             *)
(* (ReadableSplits). The loss is bounded by an inductive invariant that    *)
(* counts the places where a line starts behind unfinished remains: a torn *)
(* append leaves one such place at most, and every acknowledged line       *)
(* stands whole in the file, so only one that starts there is not read.    *)
(***************************************************************************)
EXTENDS AppendLog, Integers, SequenceTheorems, FiniteSetTheorems, TLAPS

Pieces == {Newline} \cup {Piece(p, r) : p \in {"head", "tail"}, r \in Record}

(* How much of the line under way is in the file. *)
Written == IF appending = NoRecord THEN 0 ELSE 3 - Len(left)

(* Every variable holds a value of its kind. *)
TypeOK ==
  /\ file \in Seq(Pieces) /\ left \in Seq(Pieces) /\ Len(left) <= 3
  /\ appending \in begun \cup {NoRecord} /\ begun \subseteq Record /\ acked \subseteq begun
  /\ torn \in Nat /\ offset \in 0 .. Len(file) /\ kept \subseteq Record

(* The line under way is the end of the file and what is left to write. *)
LineInTwo ==
  /\ appending = NoRecord => left = << >>
  /\ appending # NoRecord =>
       /\ Written <= Len(file)
       /\ \A i \in 1 .. Written : file[Len(file) - Written + i] = Line(appending)[i]
       /\ \A i \in 1 .. Len(left) : left[i] = Line(appending)[Written + i]

(* Every piece in the file is of a record whose append has begun. *)
FromBegun == \A i \in 1 .. Len(file) : file[i] # Newline => file[i].of \in begun

(* The line of r is in the file, whole. *)
Whole(r) ==
  \E i \in 1 .. Len(file) - 2 :
    file[i] = Piece("head", r) /\ file[i + 1] = Piece("tail", r) /\ file[i + 2] = Newline
AckedWhole == \A r \in acked : Whole(r)

(* Where a line starts behind the remains of another, and whether the next one
   will. *)
Joints == {i \in 2 .. Len(file) : file[i].piece = "head" /\ file[i - 1] # Newline}
Ragged == Written = 0 /\ file # << >> /\ file[Len(file)] # Newline
TearsCounted ==
  /\ IsFiniteSet(Joints)
  /\ Cardinality(Joints) + (IF Ragged THEN 1 ELSE 0) <= torn

(* What the cache kept is what the file holds up to the offset, which is just
   past a newline. *)
CacheIsPrefix ==
  /\ offset # 0 => file[offset] = Newline
  /\ kept = Readable(SubSeq(file, 1, offset))

IInv == TypeOK /\ LineInTwo /\ FromBegun /\ AckedWhole /\ TearsCounted /\ CacheIsPrefix

-----------------------------------------------------------------------------
(* Lines and pieces. *)

LEMMA PiecesDiffer ==
  /\ Newline \in Pieces
  /\ \A r : \A p \in {"head", "tail"} : Piece(p, r) # Newline
  /\ \A r, q : Piece("head", r) # Piece("tail", q)
  /\ \A p, r, o, q : Piece(p, r) = Piece(o, q) <=> p = o /\ r = q
  /\ \A p, r : Piece(p, r).piece = p /\ Piece(p, r).of = r
  /\ Newline.piece = "newline"
  /\ \A x \in Pieces : x # Newline => x.of \in Record /\ x.piece \in {"head", "tail"}
PROOF
  BY DEF Newline, Piece, Pieces

LEMMA LineAt ==
  ASSUME NEW r \in Record
  PROVE  /\ Line(r) \in Seq(Pieces) /\ Len(Line(r)) = 3
         /\ Line(r)[1] = Piece("head", r) /\ Line(r)[2] = Piece("tail", r)
         /\ Line(r)[3] = Newline
PROOF
<1>1. {Piece("head", r), Piece("tail", r), Newline} \subseteq Pieces
  BY DEF Pieces
<1> QED BY <1>1 DEF Line

(* The part of a log after its first k pieces, piece by piece. *)
LEMMA RestAt ==
  ASSUME NEW f \in Seq(Pieces), NEW k \in 0 .. Len(f)
  PROVE  /\ Rest(f, k) \in Seq(Pieces) /\ Len(Rest(f, k)) = Len(f) - k
         /\ \A i \in 1 .. Len(f) - k : Rest(f, k)[i] = f[k + i]
PROOF
<1>1. \A i \in k + 1 .. Len(f) : f[i] \in Pieces
  BY ElementOfSeq
<1>2. /\ SubSeq(f, k + 1, Len(f)) \in Seq(Pieces)
      /\ Len(SubSeq(f, k + 1, Len(f))) = IF k + 1 <= Len(f) THEN Len(f) - (k + 1) + 1 ELSE 0
      /\ \A i \in 1 .. Len(f) - (k + 1) + 1 : SubSeq(f, k + 1, Len(f))[i] = f[k + 1 + i - 1]
  BY <1>1, LenProperties, SubSeqProperties
<1> QED BY <1>2, LenProperties DEF Rest

LEMMA PrefixAt ==
  ASSUME NEW f \in Seq(Pieces), NEW k \in 0 .. Len(f)
  PROVE  /\ SubSeq(f, 1, k) \in Seq(Pieces) /\ Len(SubSeq(f, 1, k)) = k
         /\ \A i \in 1 .. k : SubSeq(f, 1, k)[i] = f[i]
PROOF
<1>1. \A i \in 1 .. k : f[i] \in Pieces
  BY ElementOfSeq
<1> QED BY <1>1, LenProperties, SubSeqProperties

(* A log may be cut after any newline: what is read of the whole is what is
   read of the two parts. *)
LEMMA ReadableSplits ==
  ASSUME NEW f \in Seq(Pieces), NEW k \in 0 .. Len(f), k # 0 => f[k] = Newline
  PROVE  Readable(f) = Readable(SubSeq(f, 1, k)) \cup Readable(Rest(f, k))
PROOF
<1> DEFINE a == SubSeq(f, 1, k)
           b == Rest(f, k)
           ReadAt(g, r, i) == /\ g[i] = Piece("head", r) /\ g[i + 1] = Piece("tail", r)
                              /\ StartsLine(g, i) /\ EndsLine(g, i + 1)
<1>1. /\ Len(f) \in Nat /\ Len(a) = k /\ \A i \in 1 .. k : a[i] = f[i]
      /\ Len(b) = Len(f) - k /\ \A i \in 1 .. Len(f) - k : b[i] = f[k + i]
  BY RestAt, PrefixAt, LenProperties
<1> HIDE DEF a, b
<1>2. \A g : Readable(g) = {r \in Record : \E i \in 1 .. Len(g) - 1 : ReadAt(g, r, i)}
  BY DEF Readable
<1>6. \A r \in Record : \A i \in 1 .. Len(b) - 1 : ReadAt(b, r, i) <=> ReadAt(f, r, k + i)
  <2> SUFFICES ASSUME NEW r \in Record, NEW i \in 1 .. Len(b) - 1
               PROVE  ReadAt(b, r, i) <=> ReadAt(f, r, k + i)
    OBVIOUS
  <2>1. b[i] = f[k + i] /\ b[i + 1] = f[k + i + 1]
    BY <1>1
  <2>2. b[i] = Piece("head", r) => (StartsLine(b, i) <=> StartsLine(f, k + i))
    <3>1. CASE i = 1
      BY <1>1, <3>1 DEF StartsLine
    <3>2. CASE i > 1
      <4>1. b[i - 1] = f[k + i - 1] /\ i # 1 /\ k + i # 1
        <5>1. i - 1 \in 1 .. Len(f) - k /\ k + (i - 1) = k + i - 1 /\ k + i # 1
          BY <1>1, <3>2
        <5> QED BY <1>1, <3>2, <5>1
      <4> QED BY <4>1 DEF StartsLine
    <3> QED BY <3>1, <3>2
  <2>3. EndsLine(b, i + 1) <=> EndsLine(f, k + i + 1)
    <3>0. Len(f) \in Nat /\ k \in Nat /\ i \in Nat /\ Len(b) = Len(f) - k /\ i + 1 <= Len(b)
      BY <1>1
    <3>1. CASE i + 1 = Len(b)
      <4>1. k + i + 1 = Len(f)
        BY <3>0, <3>1
      <4> QED BY <3>1, <4>1 DEF EndsLine
    <3>2. CASE i + 1 < Len(b)
      <4>1. b[i + 1 + 1] = f[k + i + 1 + 1] /\ i + 1 # Len(b) /\ k + i + 1 # Len(f)
        BY <1>1, <3>2
      <4> QED BY <4>1 DEF EndsLine
    <3> QED BY <3>0, <3>1, <3>2
  <2> QED BY <2>1, <2>2, <2>3
<1>3. ASSUME NEW r \in Record, NEW i \in 1 .. Len(f) - 1, ReadAt(f, r, i)
      PROVE  r \in Readable(a) \cup Readable(b)
  <2>1. CASE i + 1 <= k
    <3>1. f[k] = Newline /\ i + 1 # k /\ f[i + 2] = Newline
      BY <1>3, <2>1, <1>1, PiecesDiffer DEF EndsLine
    <3>2. ReadAt(a, r, i) /\ i \in 1 .. Len(a) - 1
      BY <1>1, <1>3, <2>1, <3>1, SMTT(20) DEF StartsLine, EndsLine
    <3> QED BY <1>2, <3>2
  <2>2. CASE i = k
    BY <1>3, <2>2, <1>1, PiecesDiffer
  <2>3. CASE i > k
    <3>1. PICK j \in 1 .. Len(b) - 1 : i = k + j
      <4>1. i - k \in 1 .. Len(b) - 1 /\ i = k + (i - k)
        BY <1>1, <2>3
      <4> QED BY <4>1
    <3>2. ReadAt(b, r, j)
      BY <1>3, <3>1, <1>6
    <3> QED BY <1>2, <3>2
  <2> QED BY <1>1, <2>1, <2>2, <2>3
<1>4. ASSUME NEW r \in Record, NEW i \in 1 .. Len(a) - 1, ReadAt(a, r, i)
      PROVE  r \in Readable(f)
  <2>1. ReadAt(f, r, i) /\ i \in 1 .. Len(f) - 1
    <3>1. i + 1 # k
      BY <1>1, <1>4, PiecesDiffer
    <3> QED BY <1>1, <1>4, <3>1, SMTT(20) DEF StartsLine, EndsLine
  <2> QED BY <1>2, <2>1
<1>5. ASSUME NEW r \in Record, NEW i \in 1 .. Len(b) - 1, ReadAt(b, r, i)
      PROVE  r \in Readable(f)
  <2>1. ReadAt(f, r, k + i) /\ k + i \in 1 .. Len(f) - 1
    BY <1>1, <1>5, <1>6
  <2> QED BY <1>2, <2>1
<1> QED BY <1>2, <1>3, <1>4, <1>5 DEF a, b

LEMMA NothingReadOfNothing ==
  ASSUME NEW f \in Seq(Pieces)
  PROVE  Readable(SubSeq(f, 1, 0)) = {}
PROOF
<1>1. Len(SubSeq(f, 1, 0)) = 0
  BY PrefixAt, LenProperties
<1> QED BY <1>1 DEF Readable

(* A set of naturals has a least element, by the well-foundedness of inclusion
   among the intervals below its elements. *)
LEMMA LeastOf ==
  ASSUME NEW T, T \subseteq Nat, T # {}
  PROVE  \E m \in T : \A n \in T : m <= n
PROOF
<1> DEFINE S == FiniteSubsetsOf(Nat)
           R == StrictSubsetOrdering(Nat)
           Below == {0 .. n : n \in T}
<1>1. IsWellFoundedOn(R, S)
  BY FS_StrictSubsetOrderingWellFounded
<1>2. Below \subseteq S /\ Below # {}
  <2>1. \A n \in T : IsFiniteSet(0 .. n) /\ 0 .. n \subseteq Nat
    BY FS_Interval
  <2> QED BY <2>1 DEF FiniteSubsetsOf
<1> HIDE DEF S, R, Below
<1>3. PICK b \in Below : \A c \in Below : << c, b >> \notin R
  BY <1>1, <1>2, WFMin
<1>4. PICK m \in T : b = 0 .. m
  BY DEF Below
<1>5. ASSUME NEW n \in T, n < m PROVE FALSE
  <2>1. 0 .. n \in Below /\ 0 .. n \subseteq b /\ m \in b /\ m \notin 0 .. n
    BY <1>4, <1>5 DEF Below
  <2>2. << 0 .. n, b >> \in R
    BY <2>1, <1>2 DEF R, S, StrictSubsetOrdering, FiniteSubsetsOf
  <2> QED BY <1>3, <2>1, <2>2
<1> QED BY <1>5

(* Just past a newline, or at the start. *)
LEMMA LastLineEndIs ==
  ASSUME NEW f \in Seq(Pieces)
  PROVE  /\ LastLineEnd(f) \in 0 .. Len(f)
         /\ LastLineEnd(f) # 0 => f[LastLineEnd(f)] = Newline
PROOF
<1> DEFINE ends == {i \in 1 .. Len(f) : f[i] = Newline}
<1>0. Len(f) \in Nat
  BY LenProperties
<1>1. CASE ends = {}
  BY <1>0, <1>1 DEF LastLineEnd
<1>2. CASE ends # {}
  <2> DEFINE fromEnd == {Len(f) - i : i \in ends}
  <2>1. fromEnd \subseteq Nat /\ fromEnd # {}
    BY <1>0, <1>2
  <2>2. PICK m \in fromEnd : \A n \in fromEnd : m <= n
    <3> HIDE DEF fromEnd
    <3> QED BY <2>1, LeastOf
  <2>3. PICK i \in ends : m = Len(f) - i
    BY <2>2
  <2>4. \A j \in ends : j <= i
    <3> SUFFICES ASSUME NEW j \in ends PROVE j <= i
      OBVIOUS
    <3>1. Len(f) - i <= Len(f) - j
      BY <2>2, <2>3
    <3> QED BY <1>0, <3>1
  <2>5. LastLineEnd(f) \in ends
    BY <1>2, <2>4 DEF LastLineEnd
  <2> QED BY <1>0, <2>5
<1> QED BY <1>1, <1>2

-----------------------------------------------------------------------------
(* What a write and a cut do to the file and to what is left. *)

LEMMA LengthsAre ==
  ASSUME TypeOK
  PROVE  /\ Len(file) \in Nat /\ Len(left) \in 0 .. 3
         /\ Len(left) = 0 => left = << >>
PROOF
<1>1. Len(file) \in Nat
  BY LenProperties DEF TypeOK
<1>2. Len(left) \in Nat /\ (left # << >> => Len(left) \in Nat \ {0})
  BY EmptySeq, LenProperties DEF TypeOK
<1>3. PICK n \in Nat : n = Len(left)
  BY <1>2
<1>4. n <= 3
  BY <1>3 DEF TypeOK
<1>5. n \in 0 .. 3
  BY <1>4
<1> QED BY <1>1, <1>2, <1>3, <1>5

LEMMA WroteAt ==
  ASSUME TypeOK, LineInTwo, Write
  PROVE  \E n \in Nat, w \in 0 .. 2 : \E k \in 1 .. 3 - w :
           /\ n = Len(file) /\ w = Written /\ w <= n
           /\ appending \in Record /\ appending # NoRecord /\ Written' = w + k
           /\ file' \in Seq(Pieces) /\ Len(file') = n + k
           /\ \A i \in 1 .. n : file'[i] = file[i]
           /\ \A j \in 1 .. k : file'[n + j] = Line(appending)[w + j]
           /\ left' \in Seq(Pieces) /\ Len(left') = 3 - w - k
           /\ \A i \in 1 .. 3 - w - k : left'[i] = Line(appending)[w + k + i]
           /\ SubSeq(file', 1, offset) = SubSeq(file, 1, offset)
PROOF
<1> USE DEF TypeOK
<1>0. appending # NoRecord /\ appending \in Record /\ Len(file) \in Nat /\ Len(left) \in 0 .. 3
  BY LengthsAre DEF Write, LineInTwo
<1>1. PICK k \in 1 .. Len(left) : file' = file \o SubSeq(left, 1, k) /\ left' = Rest(left, k)
  BY DEF Write
<1> DEFINE new == SubSeq(left, 1, k)
<1>2. /\ new \in Seq(Pieces) /\ Len(new) = k /\ \A j \in 1 .. k : new[j] = left[j]
      /\ left' \in Seq(Pieces) /\ Len(left') = Len(left) - k
      /\ \A i \in 1 .. Len(left) - k : left'[i] = left[k + i]
  <2>1. k \in 0 .. Len(left) /\ left \in Seq(Pieces)
    BY <1>0
  <2>2. /\ new \in Seq(Pieces) /\ Len(new) = k /\ \A j \in 1 .. k : new[j] = left[j]
    BY <2>1, PrefixAt
  <2>3. /\ Rest(left, k) \in Seq(Pieces) /\ Len(Rest(left, k)) = Len(left) - k
        /\ \A i \in 1 .. Len(left) - k : Rest(left, k)[i] = left[k + i]
    BY <2>1, RestAt
  <2> QED BY <1>1, <2>2, <2>3
<1> HIDE DEF new
<1>3. /\ file' \in Seq(Pieces) /\ Len(file') = Len(file) + k
      /\ \A i \in 1 .. Len(file) + k : file'[i] =
           IF i <= Len(file) THEN file[i] ELSE new[i - Len(file)]
  <2>1. file' = file \o new
    BY <1>1 DEF new
  <2>2. /\ file \o new \in Seq(Pieces) /\ Len(file \o new) = Len(file) + Len(new)
        /\ \A i \in 1 .. Len(file) + Len(new) : (file \o new)[i] =
             IF i <= Len(file) THEN file[i] ELSE new[i - Len(file)]
    BY <1>2, ConcatProperties, SMTT(20)
  <2> QED BY <1>2, <2>1, <2>2
<1>4. \A i \in 1 .. Len(file) : file'[i] = file[i]
  BY <1>0, <1>3
<1>5. ASSUME NEW j \in 1 .. k PROVE file'[Len(file) + j] = Line(appending)[Written + j]
  <2>1. /\ Len(file) + j \in 1 .. Len(file) + k /\ ~(Len(file) + j <= Len(file))
        /\ Len(file) + j - Len(file) = j
    BY <1>0
  <2>2. file'[Len(file) + j] = new[j]
    BY <1>3, <2>1
  <2> QED BY <1>0, <1>2, <2>2 DEF LineInTwo
<1>6. ASSUME NEW i \in 1 .. Len(left) - k PROVE left'[i] = Line(appending)[Written + k + i]
  <2>1. k + i \in 1 .. Len(left) /\ Written + (k + i) = Written + k + i
    BY <1>0 DEF Written
  <2> QED BY <1>0, <1>2, <2>1 DEF LineInTwo
<1>7. Written' = Written + k /\ appending' = appending
  BY <1>0, <1>2 DEF Written, Write
<1>8. SubSeq(file', 1, offset) = SubSeq(file, 1, offset)
  <2>1. offset \in 0 .. Len(file')
    BY <1>0, <1>3
  <2>2. /\ SubSeq(file', 1, offset) \in Seq(Pieces) /\ Len(SubSeq(file', 1, offset)) = offset
        /\ \A i \in 1 .. offset : SubSeq(file', 1, offset)[i] = file'[i]
    BY <1>3, <2>1, PrefixAt
  <2>3. /\ SubSeq(file, 1, offset) \in Seq(Pieces) /\ Len(SubSeq(file, 1, offset)) = offset
        /\ \A i \in 1 .. offset : SubSeq(file, 1, offset)[i] = file[i]
    BY PrefixAt
  <2>4. \A i \in 1 .. offset : SubSeq(file', 1, offset)[i] = SubSeq(file, 1, offset)[i]
    BY <1>0, <1>4, <2>2, <2>3
  <2> QED BY <2>2, <2>3, <2>4, SeqEqual
<1>9. PICK n \in Nat, m \in 0 .. 3 : n = Len(file) /\ m = Len(left)
  BY <1>0
<1>10. PICK w \in 0 .. 2 : w = 3 - m
  <2>1. 3 - m \in 0 .. 2 /\ k <= m
    BY <1>9
  <2> QED BY <2>1
<1>11. /\ w = Written /\ k \in 1 .. 3 - w /\ Len(left) = 3 - w /\ Len(file) = n /\ w <= n
  BY <1>0, <1>9, <1>10 DEF Written, LineInTwo
<1> QED BY <1>0, <1>2, <1>3, <1>4, <1>5, <1>6, <1>7, <1>8, <1>11

(* The append is over and part of its line may be missing. *)
LEMMA CutKeeps ==
  ASSUME IInv, CutShort, UNCHANGED << file, begun, acked >>,
         offset' \in 0 .. Len(file)
  PROVE  /\ torn' \in Nat /\ LineInTwo' /\ FromBegun' /\ AckedWhole' /\ TearsCounted'
PROOF
<1> USE DEF IInv, TypeOK, CutShort
<1>0. NoRecord \notin Record /\ Len(file) \in Nat /\ Len(left) \in 0 .. 3
  BY LengthsAre, LogConstants
<1>1. torn' \in Nat /\ torn' >= torn /\ Written' = 0
  BY DEF Written
<1>2. LineInTwo'
  BY DEF LineInTwo
<1>3. FromBegun' /\ AckedWhole'
  BY DEF FromBegun, AckedWhole, Whole
<1>4. Joints' = Joints
  BY DEF Joints
<1>5. Ragged' => Ragged \/ torn' = torn + 1
  <2> SUFFICES ASSUME file # << >>, file[Len(file)] # Newline, Written # 0,
                      ~(left # << >> /\ Len(left) < 3)
               PROVE  FALSE
    BY <1>1 DEF Ragged
  <2>1. appending # NoRecord /\ appending \in Record /\ Len(left) # 3
    BY DEF Written
  <2>2. Written = 3 /\ 3 <= Len(file)
    BY <1>0, <2>1, EmptySeq DEF Written, LineInTwo
  <2>3. file[Len(file) - 3 + 3] = Line(appending)[3] /\ Len(file) - 3 + 3 = Len(file)
    BY <1>0, <2>1, <2>2 DEF LineInTwo
  <2> QED BY <2>1, <2>3, LineAt
<1>6. TearsCounted'
  <2>1. Cardinality(Joints) \in Nat
    BY FS_CardinalityType DEF TearsCounted
  <2> QED BY <1>1, <1>4, <1>5, <2>1 DEF TearsCounted
<1> QED BY <1>1, <1>2, <1>3, <1>6

-----------------------------------------------------------------------------
(* Every step keeps the invariant. *)

LEMMA BeginKeeps ==
  ASSUME IInv, NEW r \in Record, Begin(r)
  PROVE  IInv'
PROOF
<1> USE DEF Begin, cacheVars
<1>0. IInv /\ r # NoRecord /\ appending = NoRecord
  BY LogConstants
<1>1. TypeOK'
  <2>1. Line(r) \in Seq(Pieces) /\ Len(Line(r)) = 3 /\ left' = Line(r) /\ 3 <= 3
    BY LineAt
  <2> QED BY <2>1 DEF IInv, TypeOK
<1>2. Written' = 0 /\ Written = 0
  BY <1>0, LineAt DEF Written
<1>3. LineInTwo'
  <2>1. Written' <= Len(file') /\ \A i \in 1 .. Len(left') : Written' + i = i
    BY <1>2, LengthsAre, LineAt DEF IInv
  <2> QED BY <1>0, <1>2, <2>1, LineAt DEF LineInTwo
<1>4. FromBegun' /\ AckedWhole'
  BY <1>0 DEF IInv, FromBegun, AckedWhole, Whole
<1>5. TearsCounted'
  BY <1>0, <1>2 DEF IInv, TearsCounted, Joints, Ragged
<1>6. CacheIsPrefix'
  BY <1>0 DEF IInv, CacheIsPrefix
<1> QED BY <1>1, <1>3, <1>4, <1>5, <1>6 DEF IInv

LEMMA WriteKeeps ==
  ASSUME IInv, Write
  PROVE  IInv'
PROOF
<1>0. /\ TypeOK /\ LineInTwo /\ FromBegun /\ AckedWhole /\ TearsCounted /\ CacheIsPrefix
      /\ UNCHANGED << appending, begun, acked, torn, offset, kept >>
  BY DEF IInv, Write, cacheVars
<1>1. PICK n \in Nat, w \in 0 .. 2 : \E k \in 1 .. 3 - w :
           /\ n = Len(file) /\ w = Written /\ w <= n
           /\ appending \in Record /\ appending # NoRecord /\ Written' = w + k
           /\ file' \in Seq(Pieces) /\ Len(file') = n + k
           /\ \A i \in 1 .. n : file'[i] = file[i]
           /\ \A j \in 1 .. k : file'[n + j] = Line(appending)[w + j]
           /\ left' \in Seq(Pieces) /\ Len(left') = 3 - w - k
           /\ \A i \in 1 .. 3 - w - k : left'[i] = Line(appending)[w + k + i]
           /\ SubSeq(file', 1, offset) = SubSeq(file, 1, offset)
  BY <1>0, WroteAt
<1>2. PICK k \in 1 .. 3 - w :
           /\ Written' = w + k
           /\ file' \in Seq(Pieces) /\ Len(file') = n + k
           /\ \A i \in 1 .. n : file'[i] = file[i]
           /\ \A j \in 1 .. k : file'[n + j] = Line(appending)[w + j]
           /\ left' \in Seq(Pieces) /\ Len(left') = 3 - w - k
           /\ \A i \in 1 .. 3 - w - k : left'[i] = Line(appending)[w + k + i]
           /\ SubSeq(file', 1, offset) = SubSeq(file, 1, offset)
  BY <1>1
<1>3. /\ Line(appending)[1] = Piece("head", appending)
      /\ Line(appending)[2] = Piece("tail", appending) /\ Line(appending)[3] = Newline
  BY <1>1, LineAt
<1>4. TypeOK'
  <2>1. 3 - w - k <= 3 /\ \A o \in 0 .. n : o \in 0 .. n + k
    OBVIOUS
  <2>2. offset \in 0 .. n
    BY <1>0, <1>1 DEF TypeOK
  <2> QED BY <1>0, <1>2, <2>1, <2>2 DEF TypeOK
<1>5. LineInTwo'
  <2>1. w + k <= n + k
    BY <1>1
  <2>2. ASSUME NEW i \in 1 .. w + k
        PROVE  file'[n + k - (w + k) + i] = Line(appending)[i]
    <3>1. CASE i <= w
      <4>1. i \in 1 .. w /\ n - w + i \in 1 .. n /\ n + k - (w + k) + i = n - w + i
        <5>1. w <= n
          BY <1>1
        <5> QED BY <3>1, <5>1
      <4>2. file[n - w + i] = Line(appending)[i]
        BY <1>0, <1>1, <4>1 DEF LineInTwo
      <4> QED BY <1>2, <4>1, <4>2
    <3>2. CASE i > w
      <4>1. i - w \in 1 .. k /\ n + k - (w + k) + i = n + (i - w) /\ w + (i - w) = i
        BY <3>2
      <4> QED BY <1>2, <4>1
    <3> QED BY <3>1, <3>2
  <2>3. appending' = appending /\ appending # NoRecord /\ Written' = w + k /\ Len(file') = n + k
    BY <1>0, <1>1, <1>2
  <2>4. Written' <= Len(file') /\ \A i \in 1 .. Written' : file'[Len(file') - Written' + i] = Line(appending')[i]
    BY <2>1, <2>2, <2>3
  <2>5. \A i \in 1 .. Len(left') : left'[i] = Line(appending')[Written' + i]
    BY <1>2, <2>3
  <2> QED BY <2>3, <2>4, <2>5 DEF LineInTwo
<1>6. \A j \in 1 .. k : file'[n + j] \in {Newline} \cup {Piece(p, appending) : p \in {"head", "tail"}}
  <2> SUFFICES ASSUME NEW j \in 1 .. k
               PROVE  file'[n + j] \in {Newline, Piece("head", appending), Piece("tail", appending)}
    OBVIOUS
  <2>1. w + j = 1 \/ w + j = 2 \/ w + j = 3
    OBVIOUS
  <2>2. file'[n + j] = Line(appending)[w + j]
    BY <1>2
  <2> QED BY <1>3, <2>1, <2>2
<1>7. \A i \in 1 .. n + k : i \in 1 .. n \/ \E j \in 1 .. k : i = n + j
  <2> SUFFICES ASSUME NEW i \in 1 .. n + k, i > n
               PROVE  \E j \in 1 .. k : i = n + j
    OBVIOUS
  <2>1. i - n \in 1 .. k /\ i = n + (i - n)
    OBVIOUS
  <2> QED BY <2>1
<1>8. FromBegun'
  <2> SUFFICES ASSUME NEW i \in 1 .. n + k, file'[i] # Newline
               PROVE  file'[i].of \in begun
    BY <1>0, <1>2 DEF FromBegun
  <2>1. CASE i \in 1 .. n
    BY <1>0, <1>1, <1>2, <2>1 DEF FromBegun
  <2>2. CASE \E j \in 1 .. k : i = n + j
    <3>1. file'[i].of = appending
      BY <1>6, <2>2, PiecesDiffer
    <3>2. appending \in begun
      BY <1>0, <1>1 DEF TypeOK
    <3> QED BY <3>1, <3>2
  <2> QED BY <1>7, <2>1, <2>2
<1>9. AckedWhole'
  <2> SUFFICES ASSUME NEW r \in acked PROVE Whole(r)'
    BY <1>0 DEF AckedWhole
  <2>1. PICK i \in 1 .. n - 2 :
          file[i] = Piece("head", r) /\ file[i + 1] = Piece("tail", r) /\ file[i + 2] = Newline
    BY <1>0, <1>1 DEF AckedWhole, Whole
  <2>2. i \in 1 .. n + k - 2 /\ i \in 1 .. n /\ i + 1 \in 1 .. n /\ i + 2 \in 1 .. n
    OBVIOUS
  <2> QED BY <1>2, <2>1, <2>2 DEF Whole
<1>10. TearsCounted'
  <2>1. ~Ragged'
    <3>1. w + k # 0
      OBVIOUS
    <3> QED BY <1>2, <3>1 DEF Ragged
  <2>2. Joints' = {i \in 2 .. n + k : file'[i].piece = "head" /\ file'[i - 1] # Newline}
    BY <1>2 DEF Joints
  <2>3. Joints = {i \in 2 .. n : file[i].piece = "head" /\ file[i - 1] # Newline}
    BY <1>1 DEF Joints
  <2>4. ASSUME NEW i \in Joints', i \notin Joints
        PROVE  i = n + 1 /\ Ragged
    <3>0. i \in 2 .. n + k /\ file'[i].piece = "head" /\ file'[i - 1] # Newline
      BY <2>2, <2>4
    <3>1. i \notin 1 .. n
      <4> SUFFICES ASSUME i \in 1 .. n PROVE FALSE
        OBVIOUS
      <4>1. i - 1 \in 1 .. n /\ i \in 2 .. n
        BY <3>0
      <4> QED BY <1>2, <2>3, <2>4, <3>0, <4>1
    <3>2. PICK j \in 1 .. k : i = n + j
      BY <1>7, <3>0, <3>1
    <3>3. w + j = 1
      <4>1. w + j \in {1, 2, 3}
        OBVIOUS
      <4>2. Line(appending)[w + j].piece = "head"
        BY <1>2, <3>0, <3>2
      <4> QED BY <1>3, <4>1, <4>2, PiecesDiffer
    <3>4. j = 1 /\ w = 0 /\ i = n + 1 /\ i - 1 = n /\ n \in 1 .. n /\ n # 0
      BY <3>0, <3>2, <3>3
    <3>5. file[n] # Newline /\ file # << >>
      BY <1>1, <1>2, <3>0, <3>4, EmptySeq
    <3> QED BY <1>1, <3>4, <3>5 DEF Ragged
  <2>5. Joints' \subseteq IF Ragged THEN Joints \cup {n + 1} ELSE Joints
    BY <2>4
  <2>6. /\ IsFiniteSet(Joints) /\ Cardinality(Joints) \in Nat /\ torn \in Nat /\ torn' = torn
        /\ Cardinality(Joints) + (IF Ragged THEN 1 ELSE 0) <= torn
    BY <1>0, FS_CardinalityType DEF TearsCounted, TypeOK
  <2>7. CASE Ragged
    <3>1. /\ IsFiniteSet(Joints \cup {n + 1}) /\ Cardinality(Joints \cup {n + 1}) \in Nat
          /\ Cardinality(Joints \cup {n + 1}) <= Cardinality(Joints) + 1
      BY <2>6, FS_AddElement, FS_CardinalityType
    <3>2. IsFiniteSet(Joints') /\ Cardinality(Joints') <= Cardinality(Joints \cup {n + 1})
      BY <2>5, <2>7, <3>1, FS_Subset
    <3>3. Cardinality(Joints') \in Nat
      BY <3>2, FS_CardinalityType
    <3> QED BY <2>1, <2>6, <2>7, <3>1, <3>2, <3>3 DEF TearsCounted
  <2>8. CASE ~Ragged
    <3>1. IsFiniteSet(Joints') /\ Cardinality(Joints') <= Cardinality(Joints)
      BY <2>5, <2>6, <2>8, FS_Subset
    <3>2. Cardinality(Joints') \in Nat
      BY <3>1, FS_CardinalityType
    <3> QED BY <2>1, <2>6, <2>8, <3>1, <3>2 DEF TearsCounted
  <2> QED BY <2>7, <2>8
<1>11. CacheIsPrefix'
  <2>1. offset \in 0 .. n
    BY <1>0, <1>1 DEF TypeOK
  <2>2. offset # 0 => file'[offset] = file[offset]
    BY <1>2, <2>1
  <2> QED BY <1>0, <1>2, <2>2 DEF CacheIsPrefix
<1> QED BY <1>4, <1>5, <1>8, <1>9, <1>10, <1>11 DEF IInv

LEMMA ResolveKeeps ==
  ASSUME IInv, Resolve
  PROVE  IInv'
PROOF
<1> USE DEF Resolve, cacheVars
<1>0. PICK n \in Nat : n = Len(file)
  BY LengthsAre DEF IInv
<1>1. /\ appending \in Record /\ appending \in begun /\ Written = 3 /\ 3 <= n /\ Written' = 0
      /\ \A i \in 1 .. 3 : file[n - 3 + i] = Line(appending)[i]
  <2>1. Written = 3 - 0 /\ 3 - 0 = 3
    BY EmptySeq DEF Written
  <2> QED BY <1>0, <2>1 DEF IInv, LineInTwo, TypeOK, Written
<1>2. TypeOK' /\ LineInTwo' /\ FromBegun' /\ CacheIsPrefix'
  BY <1>1 DEF IInv, TypeOK, LineInTwo, FromBegun, CacheIsPrefix
<1>3. /\ file[n - 2] = Piece("head", appending) /\ file[n - 2 + 1] = Piece("tail", appending)
      /\ file[n - 2 + 2] = Newline /\ n - 2 \in 1 .. n - 2 /\ n - 2 + 2 = n
  <2>1. n - 3 + 1 = n - 2 /\ n - 3 + 2 = n - 2 + 1 /\ n - 3 + 3 = n - 2 + 2 /\ n - 2 \in 1 .. n - 2
        /\ n - 2 + 2 = n
    BY <1>1
  <2>2. /\ file[n - 3 + 1] = Line(appending)[1] /\ file[n - 3 + 2] = Line(appending)[2]
        /\ file[n - 3 + 3] = Line(appending)[3]
    BY <1>1
  <2> QED BY <1>1, <2>1, <2>2, LineAt
<1>4. AckedWhole'
  <2>1. Whole(appending)
    BY <1>0, <1>3 DEF Whole
  <2>2. \A r \in acked \cup {appending} : Whole(r)
    BY <2>1 DEF IInv, AckedWhole
  <2> QED BY <2>2 DEF AckedWhole, Whole
<1>5. TearsCounted'
  <2>1. ~Ragged' /\ ~Ragged /\ Joints' = Joints
    BY <1>0, <1>1, <1>3 DEF Ragged, Joints
  <2> QED BY <2>1 DEF IInv, TearsCounted
<1> QED BY <1>2, <1>4, <1>5 DEF IInv

LEMMA FailKeeps ==
  ASSUME IInv, Fail
  PROVE  IInv'
PROOF
<1>1. CutShort /\ UNCHANGED << file, begun, acked, offset, kept >> /\ offset' \in 0 .. Len(file)
  BY DEF Fail, CutShort, cacheVars, IInv, TypeOK
<1>2. torn' \in Nat /\ LineInTwo' /\ FromBegun' /\ AckedWhole' /\ TearsCounted'
  BY <1>1, CutKeeps
<1>3. << >> \in Seq(Pieces) /\ Len(<< >>) <= 3
  BY EmptySeq
<1>4. TypeOK'
  BY <1>1, <1>2, <1>3 DEF CutShort, IInv, TypeOK
<1>5. CacheIsPrefix'
  BY <1>1 DEF IInv, CacheIsPrefix
<1> QED BY <1>2, <1>4, <1>5 DEF IInv

LEMMA RestartKeeps ==
  ASSUME IInv, Restart
  PROVE  IInv'
PROOF
<1>0. PICK n \in Nat : n = Len(file)
  BY LengthsAre DEF IInv
<1>1. /\ CutShort /\ UNCHANGED << file, begun, acked >> /\ offset' = 0 /\ kept' = {}
      /\ offset' \in 0 .. Len(file)
  BY <1>0 DEF Restart, CutShort
<1>2. torn' \in Nat /\ LineInTwo' /\ FromBegun' /\ AckedWhole' /\ TearsCounted'
  BY <1>1, CutKeeps
<1>3. << >> \in Seq(Pieces) /\ Len(<< >>) <= 3
  BY EmptySeq
<1>4. TypeOK'
  BY <1>1, <1>2, <1>3 DEF CutShort, IInv, TypeOK
<1>5. CacheIsPrefix'
  BY <1>1, NothingReadOfNothing DEF IInv, TypeOK, CacheIsPrefix
<1> QED BY <1>2, <1>4, <1>5 DEF IInv

LEMMA EvictKeeps ==
  ASSUME IInv, Evict
  PROVE  IInv'
PROOF
<1>0. PICK n \in Nat : n = Len(file)
  BY LengthsAre DEF IInv
<1>1. UNCHANGED << file, appending, left, begun, acked, torn >> /\ offset' = 0 /\ kept' = {}
  BY DEF Evict, logVars
<1>2. Written' = Written /\ TypeOK'
  BY <1>0, <1>1 DEF IInv, TypeOK, Written
<1>3. LineInTwo' /\ FromBegun' /\ AckedWhole' /\ TearsCounted'
  BY <1>1, <1>2 DEF IInv, LineInTwo, FromBegun, AckedWhole, Whole, TearsCounted, Joints, Ragged
<1>4. CacheIsPrefix'
  BY <1>1, NothingReadOfNothing DEF IInv, TypeOK, CacheIsPrefix
<1> QED BY <1>2, <1>3, <1>4 DEF IInv

(* Reading on from the offset comes to the same as reading from the start. *)
LEMMA ReadLedgerKeeps ==
  ASSUME IInv, ReadLedger
  PROVE  IInv'
PROOF
<1> DEFINE unread == Rest(file, offset)
           end == LastLineEnd(unread)
<1>0. PICK n \in Nat : n = Len(file)
  BY LengthsAre DEF IInv
<1>20. PICK o \in 0 .. n : o = offset
  BY <1>0 DEF IInv, TypeOK
<1>1. /\ UNCHANGED << file, appending, left, begun, acked, torn >>
      /\ offset' = offset + end /\ kept' = kept \cup Readable(SubSeq(unread, 1, end))
  BY DEF ReadLedger, logVars
<1>2. /\ file \in Seq(Pieces) /\ unread \in Seq(Pieces) /\ Len(unread) = n - o
      /\ \A i \in 1 .. n - o : unread[i] = file[o + i]
  BY <1>0, <1>20, RestAt DEF IInv, TypeOK
<1>3. PICK e \in 0 .. n - o : e = end /\ (e # 0 => unread[e] = Newline)
  <2> HIDE DEF unread
  <2> QED BY <1>2, LastLineEndIs
<1>4. o + e \in 0 .. n /\ offset' = o + e /\ o \in 0 .. o + e
  BY <1>0, <1>20, <1>1, <1>3
<1> DEFINE read == SubSeq(file, 1, o + e)
<1> HIDE DEF unread
<1>5. read \in Seq(Pieces) /\ Len(read) = o + e /\ \A i \in 1 .. o + e : read[i] = file[i]
  BY <1>0, <1>20, <1>2, <1>4, PrefixAt
<1> HIDE DEF read
<1>6. offset' # 0 => file[offset'] = Newline
  <2>1. CASE e = 0
    <3>1. o + e = o
      BY <2>1
    <3> QED BY <1>0, <1>20, <1>4, <3>1 DEF IInv, CacheIsPrefix
  <2>2. CASE e # 0
    <3>1. e \in 1 .. n - o
      BY <2>2
    <3> QED BY <1>2, <1>3, <1>4, <2>2, <3>1
  <2> QED BY <2>1, <2>2
<1>7. SubSeq(read, 1, o) = SubSeq(file, 1, o)
  <2>1. /\ SubSeq(read, 1, o) \in Seq(Pieces) /\ Len(SubSeq(read, 1, o)) = o
        /\ \A i \in 1 .. o : SubSeq(read, 1, o)[i] = read[i]
    BY <1>4, <1>5, PrefixAt
  <2>2. /\ SubSeq(file, 1, o) \in Seq(Pieces) /\ Len(SubSeq(file, 1, o)) = o
        /\ \A i \in 1 .. o : SubSeq(file, 1, o)[i] = file[i]
    BY <1>0, <1>20, <1>2, PrefixAt
  <2>3. \A i \in 1 .. o : SubSeq(read, 1, o)[i] = SubSeq(file, 1, o)[i]
    <3>1. \A i \in 1 .. o : i \in 1 .. o + e
      OBVIOUS
    <3> QED BY <1>5, <2>1, <2>2, <3>1
  <2> QED BY <2>1, <2>2, <2>3, SeqEqual
<1>8. Rest(read, o) = SubSeq(unread, 1, e)
  <2>1. /\ Rest(read, o) \in Seq(Pieces) /\ Len(Rest(read, o)) = o + e - o
        /\ \A i \in 1 .. o + e - o : Rest(read, o)[i] = read[o + i]
    <3>1. o \in 0 .. Len(read)
      BY <1>4, <1>5
    <3>2. /\ Rest(read, o) \in Seq(Pieces) /\ Len(Rest(read, o)) = Len(read) - o
          /\ \A i \in 1 .. Len(read) - o : Rest(read, o)[i] = read[o + i]
      BY <1>5, <3>1, RestAt
    <3> QED BY <1>5, <3>2
  <2>2. /\ SubSeq(unread, 1, e) \in Seq(Pieces) /\ Len(SubSeq(unread, 1, e)) = e
        /\ \A i \in 1 .. e : SubSeq(unread, 1, e)[i] = unread[i]
    BY <1>2, PrefixAt
  <2>3. o + e - o = e /\ \A i \in 1 .. e : o + i \in 1 .. o + e /\ i \in 1 .. n - o
    OBVIOUS
  <2>4. \A i \in 1 .. e : Rest(read, o)[i] = SubSeq(unread, 1, e)[i]
    BY <1>2, <1>5, <2>1, <2>2, <2>3
  <2> QED BY <2>1, <2>2, <2>3, <2>4, SeqEqual
<1>9. kept' = Readable(SubSeq(file, 1, offset'))
  <2>1. o # 0 => read[o] = Newline
    <3>1. o # 0 => o \in 1 .. o + e
      OBVIOUS
    <3> QED BY <1>0, <1>20, <1>5, <3>1 DEF IInv, CacheIsPrefix
  <2>2. Readable(read) = Readable(SubSeq(read, 1, o)) \cup Readable(Rest(read, o))
    BY <1>4, <1>5, <2>1, ReadableSplits
  <2>3. kept = Readable(SubSeq(file, 1, o))
    BY <1>0, <1>20 DEF IInv, CacheIsPrefix
  <2> QED BY <1>1, <1>3, <1>4, <1>7, <1>8, <2>2, <2>3 DEF read
<1>10. TypeOK'
  <2>1. kept' \subseteq Record
    BY <1>9 DEF Readable
  <2> QED BY <1>0, <1>9, <1>1, <1>4, <2>1 DEF IInv, TypeOK
<1>11. Written' = Written /\ LineInTwo' /\ FromBegun' /\ AckedWhole' /\ TearsCounted'
  BY <1>1 DEF IInv, LineInTwo, FromBegun, AckedWhole, Whole, TearsCounted, Joints, Ragged, Written
<1> QED BY <1>1, <1>6, <1>9, <1>10, <1>11 DEF IInv, CacheIsPrefix

-----------------------------------------------------------------------------
(* The results. *)

LEMMA InitHolds == Init => IInv
PROOF
<1> SUFFICES ASSUME Init PROVE IInv
  OBVIOUS
<1>1. << >> \in Seq(Pieces) /\ Len(<< >>) = 0
  BY EmptySeq
<1>2. TypeOK
  BY <1>1 DEF Init, TypeOK
<1>3. Written = 0
  BY DEF Init, Written
<1>4. LineInTwo /\ FromBegun /\ AckedWhole
  BY <1>1, <1>3 DEF Init, LineInTwo, FromBegun, AckedWhole
<1>5. TearsCounted
  <2>1. Joints = {} /\ ~Ragged
    BY <1>1 DEF Init, Joints, Ragged
  <2> QED BY <2>1, FS_EmptySet DEF Init, TearsCounted
<1>6. CacheIsPrefix
  <2>1. Readable(SubSeq(file, 1, 0)) = {}
    BY <1>1, NothingReadOfNothing DEF Init
  <2> QED BY <2>1 DEF Init, CacheIsPrefix
<1> QED BY <1>2, <1>4, <1>5, <1>6 DEF IInv

(* The log's inductive invariant, whatever is appended, cut short, read and
   forgotten in whichever order. *)
THEOREM LogInvariant == Spec => []IInv
PROOF
<1>1. IInv /\ [Next]_vars => IInv'
  <2> SUFFICES ASSUME IInv, [Next]_vars PROVE IInv'
    OBVIOUS
  <2>1. CASE UNCHANGED vars
    <3>1. UNCHANGED << file, appending, left, begun, acked, torn, offset, kept >>
      BY <2>1 DEF vars, logVars, cacheVars
    <3> QED BY <3>1 DEF IInv, TypeOK, LineInTwo, FromBegun, AckedWhole, Whole, TearsCounted,
                        Joints, Ragged, CacheIsPrefix, Written
  <2>2. CASE Next
    BY <2>2, BeginKeeps, WriteKeeps, ResolveKeeps, FailKeeps, RestartKeeps, ReadLedgerKeeps,
       EvictKeeps DEF Next
  <2> QED BY <2>1, <2>2
<1> QED BY <1>1, InitHolds, PTL DEF Spec

(* The incremental read of the send ledger answers what reading the whole file
   would: caughtUp() against readAll(). *)
THEOREM ReadsAgree == Spec => []CacheAgrees
PROOF
<1>1. IInv => CacheAgrees
  BY ReadableSplits DEF IInv, TypeOK, CacheIsPrefix, CacheAgrees, Answer
<1> QED BY <1>1, LogInvariant, PTL

(* Each torn append costs at most one record that was acknowledged. *)
THEOREM LossIsBounded == Spec => []LossBounded
PROOF
<1>1. ASSUME IInv PROVE LossBounded
  <2> DEFINE Lost == acked \ Readable(file)
             HeadOf(r) == CHOOSE i \in Joints : file[i] = Piece("head", r)
             At == [r \in Lost |-> HeadOf(r)]
  <2>0. PICK n \in Nat : n = Len(file)
    BY <1>1, LengthsAre DEF IInv
  <2>1. ASSUME NEW r \in Lost PROVE \E i \in Joints : file[i] = Piece("head", r)
    <3>1. PICK i \in 1 .. n - 2 :
            file[i] = Piece("head", r) /\ file[i + 1] = Piece("tail", r) /\ file[i + 2] = Newline
      BY <1>1, <2>0 DEF IInv, AckedWhole, Whole
    <3>2. i \in 1 .. n - 1 /\ i + 1 + 1 = i + 2 /\ (i # 1 => i \in 2 .. n)
      BY <3>1
    <3>3. EndsLine(file, i + 1) /\ r \in Record
      BY <1>1, <3>1, <3>2 DEF EndsLine, IInv, TypeOK
    <3>4. ~StartsLine(file, i)
      BY <2>0, <3>1, <3>2, <3>3 DEF Readable
    <3> QED BY <2>0, <3>1, <3>2, <3>4, PiecesDiffer DEF StartsLine, Joints
  <2>2. \A r \in Lost : At[r] \in Joints /\ file[At[r]] = Piece("head", r)
    BY <2>1
  <2>3. At \in Injection(Lost, Joints)
    <3>1. At \in [Lost -> Joints]
      BY <2>2
    <3>2. ASSUME NEW r \in Lost, NEW q \in Lost, At[r] = At[q] PROVE r = q
      BY <2>2, <3>2, PiecesDiffer
    <3> HIDE DEF At, Lost
    <3> QED BY <3>1, <3>2 DEF Injection, IsInjective
  <2>4. IsFiniteSet(Joints) /\ Cardinality(Joints) \in Nat /\ Cardinality(Joints) <= torn /\ torn \in Nat
    BY <1>1, FS_CardinalityType DEF IInv, TearsCounted, TypeOK
  <2>5. IsFiniteSet(Lost) /\ Cardinality(Lost) <= Cardinality(Joints)
    <3> HIDE DEF At, Lost
    <3> QED BY <2>3, <2>4, FS_Injection
  <2>6. Cardinality(Lost) \in Nat
    BY <2>5, FS_CardinalityType
  <2> QED BY <2>4, <2>5, <2>6 DEF LossBounded
<1> QED BY <1>1, LogInvariant, PTL

-----------------------------------------------------------------------------
(* What reads goes on reading.                                               *)

(* A record's line is begun once, and its first piece is written once. *)
HeadsOnce ==
  \A r \in Record : \A i, k \in 1 .. Len(file) :
    file[i] = Piece("head", r) /\ file[k] = Piece("head", r) => i = k
NotYetThere ==
  appending # NoRecord /\ Written = 0 =>
    \A i \in 1 .. Len(file) : file[i] # Piece("head", appending)
OneLineEach == HeadsOnce /\ NotYetThere

LEMMA OneLineWritten ==
  ASSUME IInv, OneLineEach, Write PROVE OneLineEach'
PROOF
<1>1. PICK n \in Nat, w \in 0 .. 2 : \E k \in 1 .. 3 - w :
           /\ n = Len(file) /\ w = Written
           /\ appending \in Record /\ appending # NoRecord /\ Written' = w + k
           /\ Len(file') = n + k
           /\ \A i \in 1 .. n : file'[i] = file[i]
           /\ \A j \in 1 .. k : file'[n + j] = Line(appending)[w + j]
  BY WroteAt DEF IInv
<1>2. PICK k \in 1 .. 3 - w :
           /\ Written' = w + k /\ Len(file') = n + k
           /\ \A i \in 1 .. n : file'[i] = file[i]
           /\ \A j \in 1 .. k : file'[n + j] = Line(appending)[w + j]
  BY <1>1
<1>3. /\ Line(appending)[1] = Piece("head", appending)
      /\ Line(appending)[2] = Piece("tail", appending) /\ Line(appending)[3] = Newline
  BY <1>1, LineAt
<1>4. NotYetThere'
  BY <1>2 DEF NotYetThere
<1>5. ASSUME NEW r \in Record, NEW i \in n + 1 .. n + k, file'[i] = Piece("head", r)
      PROVE  i = n + 1 /\ w = 0 /\ r = appending
  <2>1. i - n \in 1 .. k /\ i = n + (i - n)
    OBVIOUS
  <2>2. file'[i] = Line(appending)[w + (i - n)]
    BY <1>2, <2>1
  <2>3. w + (i - n) = 1 \/ w + (i - n) = 2 \/ w + (i - n) = 3
    BY <2>1
  <2>4. w + (i - n) = 1
    BY <1>3, <1>5, <2>2, <2>3, PiecesDiffer
  <2>5. r = appending
    BY <1>3, <1>5, <2>2, <2>4, PiecesDiffer
  <2> QED BY <2>1, <2>4, <2>5
<1>6. ASSUME NEW r \in Record, NEW i \in 1 .. n, NEW j \in n + 1 .. n + k,
             file'[i] = Piece("head", r), file'[j] = Piece("head", r)
      PROVE  FALSE
  <2>1. w = 0 /\ r = appending
    BY <1>5, <1>6
  <2>2. file[i] = Piece("head", appending)
    BY <1>2, <1>6, <2>1
  <2> QED BY <1>1, <1>6, <2>1, <2>2 DEF OneLineEach, NotYetThere
<1>7. HeadsOnce'
  <2> SUFFICES ASSUME NEW r \in Record, NEW i \in 1 .. n + k, NEW j \in 1 .. n + k,
                      file'[i] = Piece("head", r), file'[j] = Piece("head", r)
               PROVE  i = j
    BY <1>2 DEF HeadsOnce
  <2>1. CASE i \in 1 .. n /\ j \in 1 .. n
    BY <1>1, <1>2, <2>1 DEF OneLineEach, HeadsOnce
  <2>2. CASE i \in n + 1 .. n + k /\ j \in n + 1 .. n + k
    BY <1>5, <2>2
  <2>3. CASE i \in 1 .. n <=> j \notin 1 .. n
    BY <1>6, <2>3
  <2> QED BY <2>1, <2>2, <2>3
<1> QED BY <1>4, <1>7 DEF OneLineEach

LEMMA OneLineKept ==
  ASSUME IInv, OneLineEach, [Next]_vars PROVE OneLineEach'
PROOF
<1>1. CASE \E r \in Record : Begin(r)
  <2>1. PICK r \in Record : Begin(r)
    BY <1>1
  <2>2. \A i \in 1 .. Len(file) : file[i] # Piece("head", r)
    BY <2>1, PiecesDiffer DEF Begin, IInv, FromBegun
  <2> QED BY <2>1, <2>2 DEF Begin, OneLineEach, HeadsOnce, NotYetThere
<1>2. CASE Write
  BY <1>2, OneLineWritten
<1>3. CASE Resolve \/ Fail \/ Restart
  BY <1>3 DEF Resolve, Fail, Restart, CutShort, OneLineEach, HeadsOnce, NotYetThere
<1>4. CASE ReadLedger \/ Evict \/ UNCHANGED vars
  BY <1>4 DEF ReadLedger, Evict, vars, logVars, OneLineEach, HeadsOnce, NotYetThere, Written
<1> QED BY <1>1, <1>2, <1>3, <1>4 DEF Next

(* The one line of an acknowledged record has its newline, so nothing that is
   written behind it changes what is read of it. *)
LEMMA WriteLeavesRead ==
  ASSUME IInv, OneLineEach, Write, NEW r \in acked \cap Readable(file)
  PROVE  r \in Readable(file')
PROOF
<1>1. PICK n \in Nat, w \in 0 .. 2 : \E k \in 1 .. 3 - w :
           /\ n = Len(file) /\ Len(file') = n + k
           /\ \A i \in 1 .. n : file'[i] = file[i]
  BY WroteAt DEF IInv
<1>2. PICK k \in 1 .. 3 - w : Len(file') = n + k /\ \A i \in 1 .. n : file'[i] = file[i]
  BY <1>1
<1>3. PICK j \in 1 .. n - 2 :
        file[j] = Piece("head", r) /\ file[j + 1] = Piece("tail", r) /\ file[j + 2] = Newline
  BY <1>1 DEF IInv, AckedWhole, Whole
<1>4. r \in Record /\ \E i \in 1 .. n - 1 : file[i] = Piece("head", r) /\ StartsLine(file, i)
  BY <1>1 DEF Readable
<1>5. StartsLine(file, j)
  <2>1. PICK i \in 1 .. n - 1 : file[i] = Piece("head", r) /\ StartsLine(file, i)
    BY <1>4
  <2>2. i = j
    BY <1>1, <1>3, <1>4, <2>1 DEF OneLineEach, HeadsOnce
  <2> QED BY <2>1, <2>2
<1>6. /\ j \in 1 .. n + k - 1 /\ j \in 1 .. n /\ j + 1 \in 1 .. n /\ j + 2 \in 1 .. n
      /\ (j # 1 => j - 1 \in 1 .. n) /\ j + 1 + 1 = j + 2
  OBVIOUS
<1>7. StartsLine(file', j) /\ EndsLine(file', j + 1)
  BY <1>2, <1>3, <1>5, <1>6 DEF StartsLine, EndsLine
<1>8. file'[j] = Piece("head", r) /\ file'[j + 1] = Piece("tail", r)
  BY <1>2, <1>3, <1>6
<1> QED BY <1>2, <1>4, <1>6, <1>7, <1>8 DEF Readable

(* An acknowledged record that reads is read for good, whatever appends are cut
   short, made or restarted after it. *)
THEOREM ReadForGood == Spec => ReadStays
PROOF
<1>1. Init => OneLineEach
  <2>1. Init => Len(file) = 0
    BY EmptySeq DEF Init
  <2> QED BY <2>1 DEF Init, OneLineEach, HeadsOnce, NotYetThere
<1>2. IInv /\ OneLineEach /\ [Next]_vars => OneLineEach'
  BY OneLineKept
<1>3. IInv /\ OneLineEach /\ [Next]_vars =>
        [acked \cap Readable(file) \subseteq Readable(file')]_vars
  <2> SUFFICES ASSUME IInv, OneLineEach, Next
               PROVE  acked \cap Readable(file) \subseteq Readable(file')
    OBVIOUS
  <2>1. CASE Write
    BY <2>1, WriteLeavesRead
  <2>2. CASE ~Write
    <3>1. file' = file
      BY <2>2 DEF Next, Begin, Resolve, Fail, Restart, CutShort, ReadLedger, Evict, logVars
    <3> QED BY <3>1
  <2> QED BY <2>1, <2>2
<1> QED BY <1>1, <1>2, <1>3, LogInvariant, PTL DEF Spec, ReadStays
=============================================================================
