---------------------------- MODULE FramesProofs ----------------------------
(***************************************************************************)
(* What the reference decoder computes, for every stream: it is defined,   *)
(* its recursion may be followed from the front while the stream still     *)
(* grows, and what it has found is found in every longer stream.           *)
(***************************************************************************)
EXTENDS Frames, SequenceTheorems, WellFoundedInduction, TLAPS

-----------------------------------------------------------------------------
(* Induction from the end of a stream to its front                         *)

\* A set that holds a place as soon as it holds all later ones holds them all.
LEMMA Backwards ==
  ASSUME NEW n \in Nat, NEW S,
         \A p \in 0..n : (\A k \in (p + 1)..n : k \in S) => p \in S
  PROVE  0..n \subseteq S
  <1> SUFFICES ASSUME ~(0..n \subseteq S) PROVE FALSE
    OBVIOUS
  <1> DEFINE T == {m \in 0..n : n - m \notin S}
  <1>1. T \subseteq Nat /\ T # {}
    <2>1. PICK p \in 0..n : p \notin S
      OBVIOUS
    <2>2. n - p \in 0..n /\ n - (n - p) = p
      OBVIOUS
    <2> QED
      BY <2>1, <2>2
  <1>2. PICK m \in T : \A y \in T : ~(<<y, m>> \in OpToRel(<, Nat))
    BY <1>1, NatLessThanWellFounded, WFMin
  <1>3. m \in 0..n /\ n - m \in 0..n /\ n - m \notin S
    OBVIOUS
  <1>4. ASSUME NEW k \in (n - m + 1)..n PROVE k \in S
    <2>1. n - k \in 0..n /\ n - (n - k) = k /\ n - k < m /\ n - k \in Nat /\ m \in Nat
      BY <1>3
    <2>2. n - k \notin T
      BY <1>2, <2>1 DEF OpToRel
    <2> QED
      BY <2>1, <2>2
  <1> QED
    BY <1>3, <1>4

\* What defines a function that gives a place a value from its value at a later
\* place: where it stops it is v0, elsewhere op[p] of its value at nxt[p].
GoesOn(n, V, v0, Stop, nxt, op) ==
  /\ n \in Nat /\ v0 \in V
  /\ \A p \in (0..n) \ Stop : nxt[p] \in (p + 1)..n
  /\ \A p \in (0..n) \ Stop : \A v \in V : op[p][v] \in V

\* Such a function exists.
LEMMA RecursionExists ==
  ASSUME NEW n, NEW V, NEW v0, NEW Stop, NEW nxt, NEW op, GoesOn(n, V, v0, Stop, nxt, op)
  PROVE  \E F \in [0..n -> V] :
           \A p \in 0..n : F[p] = IF p \in Stop THEN v0 ELSE op[p][F[nxt[p]]]
  <1>0. /\ n \in Nat /\ v0 \in V
        /\ \A p \in (0..n) \ Stop : nxt[p] \in (p + 1)..n
        /\ \A p \in (0..n) \ Stop : \A v \in V : op[p][v] \in V
    BY DEF GoesOn
  <1> USE <1>0
  <1> DEFINE Solves(F, k) ==
               \A p \in k..n : F[p] = IF p \in Stop THEN v0 ELSE op[p][F[nxt[p]]]
             S == {k \in 0..n : \E F \in [k..n -> V] : Solves(F, k)}
  <1>1. ASSUME NEW k \in 0..n, \A j \in (k + 1)..n : j \in S PROVE k \in S
    <2>1. CASE k = n
      <3> DEFINE G == [x \in k..n |-> v0]
      <3>1. G \in [k..n -> V]
        OBVIOUS
      <3>2. ASSUME NEW p \in k..n PROVE p \in Stop /\ G[p] = v0
        BY <2>1
      <3>3. Solves(G, k)
        BY <3>2
      <3> QED
        BY <3>1, <3>3
    <2>2. CASE k # n
      <3>1. k + 1 \in S /\ k + 1 \in 0..n
        BY <1>1, <2>2
      <3>2. PICK F \in [(k + 1)..n -> V] : Solves(F, k + 1)
        BY <3>1
      <3> DEFINE G == [x \in k..n |->
                         IF x # k THEN F[x] ELSE IF k \in Stop THEN v0 ELSE op[k][F[nxt[k]]]]
      <3>3. \A x \in (k + 1)..n : x \in k..n /\ x # k /\ G[x] = F[x] /\ F[x] \in V
        OBVIOUS
      <3>4. k \in k..n /\ G[k] = IF k \in Stop THEN v0 ELSE op[k][F[nxt[k]]]
        OBVIOUS
      <3>5. \A x \in k..n : x = k \/ x \in (k + 1)..n
        OBVIOUS
      <3>6. k \notin Stop => nxt[k] \in (k + 1)..n
        OBVIOUS
      <3>7. G[k] \in V
        BY <3>3, <3>4, <3>6
      <3>8. G \in [k..n -> V]
        BY <3>3, <3>5, <3>7
      <3>9. ASSUME NEW p \in k..n
            PROVE  G[p] = IF p \in Stop THEN v0 ELSE op[p][G[nxt[p]]]
        <4>1. CASE p = k
          BY <3>3, <3>4, <3>6, <4>1
        <4>2. CASE p \in (k + 1)..n
          <5>1. p \notin Stop => nxt[p] \in (k + 1)..n
            BY <4>2
          <5>2. F[p] = IF p \in Stop THEN v0 ELSE op[p][F[nxt[p]]]
            BY <3>2, <4>2
          <5> HIDE DEF G
          <5> QED
            BY <3>3, <4>2, <5>1, <5>2
        <4> QED
          BY <3>5, <4>1, <4>2
      <3> HIDE DEF G
      <3>10. Solves(G, k)
        BY <3>9
      <3> QED
        BY <3>8, <3>10
    <2> QED
      BY <2>1, <2>2
  <1> HIDE DEF S
  <1>2. 0..n \subseteq S
    BY <1>1, Backwards
  <1>3. 0 \in S
    BY <1>2
  <1> QED
    BY <1>3 DEF S

-----------------------------------------------------------------------------
(* Sequences, and the frame at a place of a stream                         *)

\* The bytes of two concatenated sequences.
LEMMA ConcatElements ==
  ASSUME NEW S, NEW s \in Seq(S), NEW t \in Seq(S)
  PROVE  /\ s \o t \in Seq(S)
         /\ Len(s \o t) = Len(s) + Len(t)
         /\ \A i \in 1..Len(s) : (s \o t)[i] = s[i]
         /\ \A i \in 1..Len(t) : (s \o t)[Len(s) + i] = t[i]
  <1>1. \A i \in 1..Len(s) + Len(t) :
          (s \o t)[i] = IF i <= Len(s) THEN s[i] ELSE t[i - Len(s)]
    BY ConcatProperties
  <1> QED
    BY <1>1, ConcatProperties

\* The elements of a part of a sequence.
LEMMA SubSeqElements ==
  ASSUME NEW S, NEW s \in Seq(S), NEW m \in Nat, NEW n \in Nat,
         m <= n, n <= Len(s)
  PROVE  /\ SubSeq(s, m + 1, n) \in Seq(S)
         /\ Len(SubSeq(s, m + 1, n)) = n - m
         /\ \A i \in 1..(n - m) : SubSeq(s, m + 1, n)[i] = s[m + i]
  <1>1. \A i \in (m + 1)..n : s[i] \in S
    OBVIOUS
  <1>2. CASE m = n
    <2>1. SubSeq(s, m + 1, n) = << >>
      BY <1>2, SubSeqProperties
    <2> QED
      BY <1>2, <2>1
  <1>3. CASE m < n
    BY <1>1, <1>3, SubSeqProperties
  <1> QED
    BY <1>2, <1>3

\* The length in a header is a natural number.
LEMMA MsgLenNat ==
  ASSUME NEW a \in Bytes, NEW b \in Bytes
  PROVE  a * Base + b \in Nat
  <1>1. a \in Nat /\ b \in Nat /\ Base \in Nat
    BY FramesAssumption DEF Bytes
  <1>2. a * Base \in Nat
    BY <1>1
  <1> QED
    BY <1>1, <1>2

\* What a header says, and where its frame ends.
LEMMA HeaderThere ==
  ASSUME NEW s \in Seq(Bytes), NEW p \in Nat, p + HeaderLen <= Len(s)
  PROVE  /\ MsgLen(HeaderAt(s, p)) = s[p + 1] * Base + s[p + 2]
         /\ MsgLen(HeaderAt(s, p)) \in Nat
         /\ MsgDone(HeaderAt(s, p)) <=> s[p + 3] # 0
         /\ EndAt(s, p) = p + HeaderLen + MsgLen(HeaderAt(s, p))
         /\ EndAt(s, p) \in Nat /\ p + HeaderLen <= EndAt(s, p)
  <1>1. PICK e \in Nat : e = p + HeaderLen /\ p <= e /\ e - p = 3 /\ e <= Len(s)
    BY DEF HeaderLen
  <1>2. \A i \in 1..3 : HeaderAt(s, p)[i] = s[p + i]
    <2>1. \A i \in 1..(e - p) : SubSeq(s, p + 1, e)[i] = s[p + i]
      BY <1>1, SubSeqElements
    <2> QED
      BY <1>1, <2>1 DEF HeaderAt
  <1>3. s[p + 1] \in Bytes /\ s[p + 2] \in Bytes
    <2>1. p + 1 \in 1..Len(s) /\ p + 2 \in 1..Len(s)
      BY DEF HeaderLen
    <2> QED
      BY <2>1
  <1>4. MsgLen(HeaderAt(s, p)) = s[p + 1] * Base + s[p + 2]
    BY <1>2 DEF MsgLen
  <1>5. MsgLen(HeaderAt(s, p)) \in Nat
    BY <1>3, <1>4, MsgLenNat
  <1>6. MsgDone(HeaderAt(s, p)) <=> s[p + 3] # 0
    BY <1>2 DEF MsgDone
  <1>7. /\ EndAt(s, p) = p + HeaderLen + MsgLen(HeaderAt(s, p))
        /\ EndAt(s, p) \in Nat /\ p + HeaderLen <= EndAt(s, p)
    BY <1>5 DEF EndAt, HeaderLen
  <1> QED
    BY <1>4, <1>5, <1>6, <1>7

\* A whole frame ends later, and its payload is bytes.
LEMMA WholeFrame ==
  ASSUME NEW s \in Seq(Bytes), NEW p \in Nat, WholeAt(s, p)
  PROVE  EndAt(s, p) \in (p + 1)..Len(s) /\ PayloadAt(s, p) \in Seq(Bytes)
  <1>1. /\ p + HeaderLen <= Len(s) /\ EndAt(s, p) <= Len(s)
        /\ EndAt(s, p) \in Nat /\ p + HeaderLen <= EndAt(s, p)
    BY HeaderThere DEF WholeAt
  <1>2. EndAt(s, p) \in (p + 1)..Len(s)
    BY <1>1 DEF HeaderLen
  <1>3. PICK m \in Nat : m = p + HeaderLen
    BY DEF HeaderLen
  <1>4. SubSeq(s, m + 1, EndAt(s, p)) \in Seq(Bytes)
    BY <1>1, <1>3, SubSeqElements
  <1> QED
    BY <1>2, <1>3, <1>4 DEF PayloadAt

\* The part of a sequence between two of its places stays when it grows.
LEMMA SamePart ==
  ASSUME NEW S, NEW s \in Seq(S), NEW u \in Seq(S), NEW m \in Nat, NEW n \in Nat,
         m <= n, n <= Len(s)
  PROVE  SubSeq(s \o u, m + 1, n) = SubSeq(s, m + 1, n)
  <1>1. s \o u \in Seq(S) /\ Len(s \o u) = Len(s) + Len(u)
        /\ \A i \in 1..Len(s) : (s \o u)[i] = s[i]
    BY ConcatElements
  <1>2. Len(s) \in Nat /\ Len(u) \in Nat
    OBVIOUS
  <1>3. n <= Len(s \o u)
    BY <1>1, <1>2
  <1>4. /\ SubSeq(s, m + 1, n) \in Seq(S) /\ Len(SubSeq(s, m + 1, n)) = n - m
        /\ \A i \in 1..(n - m) : SubSeq(s, m + 1, n)[i] = s[m + i]
    BY SubSeqElements
  <1>5. /\ SubSeq(s \o u, m + 1, n) \in Seq(S) /\ Len(SubSeq(s \o u, m + 1, n)) = n - m
        /\ \A i \in 1..(n - m) : SubSeq(s \o u, m + 1, n)[i] = (s \o u)[m + i]
    BY <1>1, <1>3, SubSeqElements
  <1>6. \A i \in 1..(n - m) : m + i \in 1..Len(s)
    BY <1>2
  <1>7. \A i \in 1..(n - m) : SubSeq(s \o u, m + 1, n)[i] = SubSeq(s, m + 1, n)[i]
    BY <1>1, <1>4, <1>5, <1>6
  <1> QED
    BY <1>4, <1>5, <1>7, SeqEqual

\* And so does a whole frame.
LEMMA SameFrame ==
  ASSUME NEW s \in Seq(Bytes), NEW u \in Seq(Bytes), NEW p \in Nat, WholeAt(s, p)
  PROVE  /\ HeaderAt(s \o u, p) = HeaderAt(s, p)
         /\ EndAt(s \o u, p) = EndAt(s, p)
         /\ PayloadAt(s \o u, p) = PayloadAt(s, p)
         /\ WholeAt(s \o u, p)
  <1>1. /\ p + HeaderLen <= Len(s) /\ EndAt(s, p) <= Len(s)
        /\ MsgLen(HeaderAt(s, p)) <= BUF_SIZE
        /\ EndAt(s, p) \in Nat /\ p + HeaderLen <= EndAt(s, p)
    BY HeaderThere DEF WholeAt
  <1>2. PICK m \in Nat : m = p + HeaderLen /\ p <= m
    BY DEF HeaderLen
  <1>3. HeaderAt(s \o u, p) = HeaderAt(s, p)
    BY <1>1, <1>2, SamePart DEF HeaderAt
  <1>4. EndAt(s \o u, p) = EndAt(s, p)
    BY <1>3 DEF EndAt
  <1>5. PayloadAt(s \o u, p) = PayloadAt(s, p)
    <2>1. PICK e \in Nat : e = EndAt(s, p) /\ m <= e /\ e <= Len(s)
      BY <1>1, <1>2
    <2>2. SubSeq(s \o u, m + 1, e) = SubSeq(s, m + 1, e)
      BY <2>1, SamePart
    <2> QED
      BY <1>2, <1>4, <2>1, <2>2 DEF PayloadAt
  <1>6. Len(s \o u) = Len(s) + Len(u) /\ Len(s) \in Nat /\ Len(u) \in Nat
    BY ConcatElements
  <1>7. m <= Len(s \o u) /\ EndAt(s, p) <= Len(s \o u)
    BY <1>1, <1>2, <1>6
  <1> QED
    BY <1>1, <1>2, <1>3, <1>4, <1>5, <1>7 DEF WholeAt

-----------------------------------------------------------------------------
(* The reference decoder is defined                                        *)

Messages == Seq(Seq(Bytes))

\* What comes before a message of its own, or at the beginning of the first.
LEMMA PrependType ==
  ASSUME NEW q \in Seq(Bytes), NEW r \in Messages
  PROVE  Prepend(q, r) \in Messages
  <1>1. CASE r = << >>
    BY <1>1 DEF Prepend, Messages
  <1>2. CASE r # << >>
    <2>1. Head(r) \in Seq(Bytes) /\ Tail(r) \in Seq(Seq(Bytes))
      BY <1>2, HeadTailProperties DEF Messages
    <2>2. q \o Head(r) \in Seq(Bytes)
      BY <2>1, ConcatProperties
    <2>3. <<q \o Head(r)>> \in Seq(Seq(Bytes))
      BY <2>2
    <2>4. <<q \o Head(r)>> \o Tail(r) \in Seq(Seq(Bytes))
      BY <2>1, <2>3, ConcatProperties
    <2> QED
      BY <1>2, <2>4 DEF Prepend, Messages
  <1> QED
    BY <1>1, <1>2

LEMMA AfterFrameType ==
  ASSUME NEW s \in Seq(Bytes), NEW p \in Nat, WholeAt(s, p), NEW r \in Messages
  PROVE  AfterFrame(s, p, r) \in Messages
  <1>1. PICK y \in Seq(Bytes) : y = PayloadAt(s, p)
    BY WholeFrame
  <1>2. <<y>> \o r \in Messages
    <2>1. <<y>> \in Seq(Seq(Bytes))
      OBVIOUS
    <2> QED
      BY <2>1, ConcatProperties DEF Messages
  <1>3. Prepend(y, r) \in Messages
    BY PrependType
  <1> QED
    BY <1>1, <1>2, <1>3 DEF AfterFrame

\* The function that DecodeFrom is meant to be satisfies its equation: there
\* is one that does.
LEMMA DecodeFromEquation ==
  ASSUME NEW s \in Seq(Bytes)
  PROVE  DecodeFrom(s) =
           [p \in 0..Len(s) |->
              IF WholeAt(s, p) THEN AfterFrame(s, p, DecodeFrom(s)[EndAt(s, p)]) ELSE << >>]
  <1> DEFINE n == Len(s)
             Solution(F) ==
               F = [p \in 0..n |->
                      IF WholeAt(s, p) THEN AfterFrame(s, p, F[EndAt(s, p)]) ELSE << >>]
             Stop == {p \in 0..n : ~WholeAt(s, p)}
             nxt == [p \in 0..n |-> EndAt(s, p)]
             op == [p \in 0..n |-> [r \in Messages |-> AfterFrame(s, p, r)]]
  <1>1. n \in Nat /\ << >> \in Messages
    BY DEF Messages
  <1>2. ASSUME NEW p \in (0..n) \ Stop
        PROVE  /\ p \in 0..n /\ WholeAt(s, p) /\ nxt[p] = EndAt(s, p)
               /\ nxt[p] \in (p + 1)..n
               /\ \A r \in Messages : op[p][r] = AfterFrame(s, p, r) /\ op[p][r] \in Messages
    <2>1. p \in Nat /\ p \in 0..n /\ WholeAt(s, p)
      BY <1>1
    <2>2. nxt[p] = EndAt(s, p) /\ EndAt(s, p) \in (p + 1)..n
      BY <2>1, WholeFrame
    <2>3. \A r \in Messages : AfterFrame(s, p, r) \in Messages
      BY <2>1, AfterFrameType
    <2>4. \A r \in Messages : op[p][r] = AfterFrame(s, p, r)
      BY <2>1
    <2> QED
      BY <2>1, <2>2, <2>3, <2>4
  <1> HIDE DEF nxt, op
  <1>3. PICK F \in [0..n -> Messages] :
          \A p \in 0..n : F[p] = IF p \in Stop THEN << >> ELSE op[p][F[nxt[p]]]
    <2>1. GoesOn(n, Messages, << >>, Stop, nxt, op)
      BY <1>1, <1>2 DEF GoesOn
    <2> HIDE DEF n, Stop
    <2> QED
      BY <2>1, RecursionExists
  <1>4. ASSUME NEW p \in 0..n
        PROVE  F[p] = IF WholeAt(s, p) THEN AfterFrame(s, p, F[EndAt(s, p)]) ELSE << >>
    <2>1. CASE p \in Stop
      BY <1>3, <2>1
    <2>2. CASE p \notin Stop
      <3>1. nxt[p] \in 0..n
        BY <1>2, <2>2
      <3>2. F[nxt[p]] \in Messages
        BY <1>3, <3>1
      <3> QED
        BY <1>2, <1>3, <2>2, <3>2
    <2> QED
      BY <2>1, <2>2
  <1>5. Solution(F)
    BY <1>3, <1>4
  <1>6. DecodeFrom(s) = CHOOSE G : Solution(G)
    BY DEF DecodeFrom
  <1> HIDE DEF Solution
  <1>7. Solution(DecodeFrom(s))
    BY <1>5, <1>6
  <1> QED
    BY <1>7 DEF Solution

\* One step of the decoder.
LEMMA DecodeStep ==
  ASSUME NEW s \in Seq(Bytes), NEW p \in 0..Len(s)
  PROVE  /\ WholeAt(s, p) =>
              DecodeFrom(s)[p] = AfterFrame(s, p, DecodeFrom(s)[EndAt(s, p)])
         /\ ~WholeAt(s, p) => DecodeFrom(s)[p] = << >>
  <1> DEFINE D == DecodeFrom(s)
  <1>1. D = [q \in 0..Len(s) |->
               IF WholeAt(s, q) THEN AfterFrame(s, q, D[EndAt(s, q)]) ELSE << >>]
    BY DecodeFromEquation
  <1> HIDE DEF D
  <1>2. D[p] = IF WholeAt(s, p) THEN AfterFrame(s, p, D[EndAt(s, p)]) ELSE << >>
    BY <1>1
  <1> QED
    BY <1>2 DEF D

\* What it finds are sequences of messages.
LEMMA DecodeType ==
  ASSUME NEW s \in Seq(Bytes)
  PROVE  \A p \in 0..Len(s) : DecodeFrom(s)[p] \in Messages
  <1> DEFINE S == {p \in 0..Len(s) : DecodeFrom(s)[p] \in Messages}
  <1>1. ASSUME NEW p \in 0..Len(s), \A k \in (p + 1)..Len(s) : k \in S
        PROVE  p \in S
    <2>1. CASE ~WholeAt(s, p)
      <3>1. DecodeFrom(s)[p] = << >>
        BY <2>1, DecodeStep
      <3>2. << >> \in Messages
        BY DEF Messages
      <3> QED
        BY <3>1, <3>2
    <2>2. CASE WholeAt(s, p)
      <3>1. p \in Nat /\ Len(s) \in Nat
        OBVIOUS
      <3>2. EndAt(s, p) \in S
        BY <1>1, <2>2, <3>1, WholeFrame
      <3>3. DecodeFrom(s)[EndAt(s, p)] \in Messages
        BY <3>2
      <3>4. DecodeFrom(s)[p] \in Messages
        BY <2>2, <3>1, <3>3, DecodeStep, AfterFrameType
      <3> QED
        BY <3>4
    <2> QED
      BY <2>1, <2>2
  <1> HIDE DEF S
  <1>2. 0..Len(s) \subseteq S
    <2>1. PICK n \in Nat : n = Len(s)
      OBVIOUS
    <2>2. \A p \in 0..n : (\A k \in (p + 1)..n : k \in S) => p \in S
      BY <1>1, <2>1
    <2> QED
      BY <2>1, <2>2, Backwards
  <1> QED
    BY <1>2 DEF S

-----------------------------------------------------------------------------
(* Following the decoder from the front of a stream that still grows       *)

\* Of the first p bytes of s the decoder has made the messages d and the
\* beginning q of another one, whatever follows s.
Parsed(s, p, d, q) ==
  \A u \in Seq(Bytes) : Decode(s \o u) = d \o Prepend(q, DecodeFrom(s \o u)[p])

\* Nothing comes before a first message; an own message, or a second part.
LEMMA PrependNothing ==
  ASSUME NEW r \in Messages
  PROVE  Prepend(<< >>, r) = r
  <1>1. CASE r = << >>
    BY <1>1 DEF Prepend
  <1>2. CASE r # << >>
    <2>1. /\ Head(r) \in Seq(Bytes) /\ Tail(r) \in Seq(Seq(Bytes)) /\ Len(r) \in Nat \ {0}
          /\ Len(Tail(r)) = Len(r) - 1
          /\ \A i \in 1..Len(Tail(r)) : Tail(r)[i] = r[i + 1]
      BY <1>2, HeadTailProperties, EmptySeq DEF Messages
    <2>2. << >> \o Head(r) = Head(r)
      BY <2>1, ConcatEmptySeq
    <2> DEFINE t == <<Head(r)>> \o Tail(r)
    <2>3. <<Head(r)>> \in Seq(Seq(Bytes)) /\ Len(<<Head(r)>>) = 1 /\ <<Head(r)>>[1] = r[1]
      BY <2>1
    <2>4. /\ t \in Seq(Seq(Bytes)) /\ Len(t) = 1 + Len(Tail(r))
          /\ t[1] = r[1]
          /\ \A i \in 1..Len(Tail(r)) : t[1 + i] = Tail(r)[i]
      BY <2>1, <2>3, ConcatElements
    <2> HIDE DEF t
    <2>5. ASSUME NEW i \in 1..Len(t) PROVE t[i] = r[i]
      <3>1. CASE i = 1
        BY <2>4, <3>1
      <3>2. CASE i # 1
        <4>1. PICK k \in Nat : k = Len(Tail(r)) /\ Len(t) = 1 + k
          <5>1. Len(Tail(r)) \in Nat
            BY <2>1, LenProperties
          <5> QED
            BY <2>4, <5>1
        <4>2. PICK j \in 1..k : i = 1 + j /\ i = j + 1
          <5>1. i - 1 \in 1..k /\ i = 1 + (i - 1) /\ i = (i - 1) + 1
            BY <3>2, <4>1
          <5> QED
            BY <5>1
        <4> QED
          BY <2>1, <2>4, <4>1, <4>2
      <3> QED
        BY <3>1, <3>2
    <2>6. t = r
      <3>1. Len(t) = Len(r)
        BY <2>1, <2>4
      <3> QED
        BY <2>4, <2>5, <3>1, SeqEqual DEF Messages
    <2> QED
      BY <1>2, <2>2, <2>6 DEF Prepend, t
  <1> QED
    BY <1>1, <1>2

LEMMA PrependMessage ==
  ASSUME NEW q \in Seq(Bytes), NEW y \in Seq(Bytes), NEW r \in Messages
  PROVE  Prepend(q, <<y>> \o r) = <<q \o y>> \o r
  <1>1. <<y>> \in Seq(Seq(Bytes)) /\ Len(<<y>>) = 1 /\ <<y>>[1] = y
    OBVIOUS
  <1> DEFINE t == <<y>> \o r
  <1>2. /\ t \in Seq(Seq(Bytes)) /\ Len(t) = 1 + Len(r) /\ t[1] = y
        /\ \A i \in 1..Len(r) : t[1 + i] = r[i]
    BY <1>1, ConcatElements DEF Messages
  <1>3. Len(r) \in Nat
    BY DEF Messages
  <1> HIDE DEF t
  <1>4. t # << >> /\ Head(t) = y
    BY <1>2, <1>3
  <1>5. Tail(t) = r
    <2>1. /\ Tail(t) \in Seq(Seq(Bytes)) /\ Len(Tail(t)) = Len(t) - 1
          /\ \A i \in 1..Len(Tail(t)) : Tail(t)[i] = t[i + 1]
      BY <1>2, <1>4, HeadTailProperties
    <2>2. Len(Tail(t)) = Len(r)
      BY <1>2, <1>3, <2>1
    <2>3. \A i \in 1..Len(r) : i + 1 = 1 + i
      OBVIOUS
    <2>4. \A i \in 1..Len(Tail(t)) : Tail(t)[i] = r[i]
      BY <1>2, <2>1, <2>2, <2>3
    <2> QED
      BY <2>1, <2>2, <2>4, SeqEqual DEF Messages
  <1> QED
    BY <1>4, <1>5 DEF Prepend, t

LEMMA PrependPart ==
  ASSUME NEW q \in Seq(Bytes), NEW y \in Seq(Bytes), NEW r \in Messages
  PROVE  Prepend(q, Prepend(y, r)) = Prepend(q \o y, r)
  <1>1. CASE r = << >>
    BY <1>1 DEF Prepend
  <1>2. CASE r # << >>
    <2>1. Head(r) \in Seq(Bytes) /\ Tail(r) \in Messages
      BY <1>2, HeadTailProperties DEF Messages
    <2>2. PICK z \in Seq(Bytes) : z = y \o Head(r)
      BY <2>1, ConcatProperties
    <2>3. Prepend(y, r) = <<z>> \o Tail(r)
      BY <1>2, <2>2 DEF Prepend
    <2>4. Prepend(q, <<z>> \o Tail(r)) = <<q \o z>> \o Tail(r)
      BY <2>1, PrependMessage
    <2>5. q \o z = (q \o y) \o Head(r)
      <3>1. PICK h \in Seq(Bytes) : h = Head(r)
        BY <2>1
      <3>2. (q \o y) \o h = q \o (y \o h)
        BY ConcatAssociative
      <3> QED
        BY <2>2, <3>1, <3>2
    <2> QED
      BY <1>2, <2>3, <2>4, <2>5 DEF Prepend
  <1> QED
    BY <1>1, <1>2

LEMMA ParsedStart == Parsed(<< >>, 0, << >>, << >>)
  <1> SUFFICES ASSUME NEW u \in Seq(Bytes)
               PROVE  Decode(<< >> \o u) = << >> \o Prepend(<< >>, DecodeFrom(<< >> \o u)[0])
    BY DEF Parsed
  <1>1. << >> \o u = u
    BY ConcatEmptySeq
  <1>2. PICK r \in Messages : r = DecodeFrom(u)[0]
    <2>1. 0 \in 0..Len(u)
      OBVIOUS
    <2> QED
      BY <2>1, DecodeType
  <1>3. Prepend(<< >>, r) = r
    BY PrependNothing
  <1>4. << >> \o r = r
    BY ConcatEmptySeq DEF Messages
  <1> QED
    BY <1>1, <1>2, <1>3, <1>4 DEF Decode

\* Bytes may follow.
LEMMA ParsedMore ==
  ASSUME NEW s \in Seq(Bytes), NEW v \in Seq(Bytes), NEW p, NEW d, NEW q,
         Parsed(s, p, d, q)
  PROVE  Parsed(s \o v, p, d, q)
  <1> SUFFICES ASSUME NEW u \in Seq(Bytes)
               PROVE  Decode((s \o v) \o u) = d \o Prepend(q, DecodeFrom((s \o v) \o u)[p])
    BY DEF Parsed
  <1>1. (s \o v) \o u = s \o (v \o u)
    BY ConcatAssociative
  <1>2. PICK w \in Seq(Bytes) : w = v \o u
    BY ConcatProperties
  <1>3. Decode(s \o w) = d \o Prepend(q, DecodeFrom(s \o w)[p])
    BY DEF Parsed
  <1> QED
    BY <1>1, <1>2, <1>3

LEMMA Regrouped ==
  ASSUME NEW d \in Messages, NEW c \in Messages, NEW r \in Messages
  PROVE  (d \o c) \o r = d \o (c \o r)
  BY ConcatAssociative DEF Messages

\* A frame may be taken.
LEMMA ParsedFrame ==
  ASSUME NEW s \in Seq(Bytes), NEW p \in Nat, NEW d \in Messages, NEW q \in Seq(Bytes),
         Parsed(s, p, d, q), WholeAt(s, p)
  PROVE  /\ MsgDone(HeaderAt(s, p)) =>
              Parsed(s, EndAt(s, p), Append(d, q \o PayloadAt(s, p)), << >>)
         /\ ~MsgDone(HeaderAt(s, p)) =>
              Parsed(s, EndAt(s, p), d, q \o PayloadAt(s, p))
  <1>1. PICK e \in Nat : e = EndAt(s, p) /\ e \in (p + 1)..Len(s)
    <2>1. Len(s) \in Nat
      OBVIOUS
    <2> QED
      BY <2>1, WholeFrame
  <1>2. PICK y \in Seq(Bytes) : y = PayloadAt(s, p)
    BY WholeFrame
  <1>3. PICK m \in Seq(Bytes) : m = q \o y
    BY ConcatProperties
  <1>4. ASSUME NEW u \in Seq(Bytes)
        PROVE  \E r \in Messages :
                 /\ r = DecodeFrom(s \o u)[e]
                 /\ MsgDone(HeaderAt(s, p)) =>
                      Decode(s \o u) = Append(d, m) \o Prepend(<< >>, r)
                 /\ ~MsgDone(HeaderAt(s, p)) => Decode(s \o u) = d \o Prepend(m, r)
    <2>1. PICK t \in Seq(Bytes) : t = s \o u /\ Len(t) = Len(s) + Len(u)
      BY ConcatProperties
    <2>2. p \in 0..Len(t) /\ e \in 0..Len(t)
      <3>1. Len(s) \in Nat /\ Len(u) \in Nat
        OBVIOUS
      <3> QED
        BY <1>1, <2>1, <3>1
    <2>3. /\ HeaderAt(t, p) = HeaderAt(s, p) /\ EndAt(t, p) = e
          /\ PayloadAt(t, p) = y /\ WholeAt(t, p)
      BY <1>1, <1>2, <2>1, SameFrame
    <2>4. PICK r \in Messages : r = DecodeFrom(t)[e]
      BY <2>2, DecodeType
    <2>5. DecodeFrom(t)[p] = AfterFrame(t, p, r)
      BY <2>2, <2>3, <2>4, DecodeStep
    <2>6. Decode(t) = d \o Prepend(q, AfterFrame(t, p, r))
      BY <2>1, <2>5 DEF Parsed
    <2>7. ASSUME MsgDone(HeaderAt(s, p)) PROVE Decode(t) = Append(d, m) \o Prepend(<< >>, r)
      <3>1. AfterFrame(t, p, r) = <<y>> \o r
        BY <2>3, <2>7 DEF AfterFrame
      <3>2. Prepend(q, <<y>> \o r) = <<m>> \o r
        BY <1>3, PrependMessage
      <3>3. <<m>> \in Seq(Seq(Bytes))
        OBVIOUS
      <3>4. (d \o <<m>>) \o r = d \o (<<m>> \o r)
        <4>1. PICK c \in Messages : c = <<m>>
          BY <3>3 DEF Messages
        <4>2. (d \o c) \o r = d \o (c \o r)
          BY Regrouped
        <4> QED
          BY <4>1, <4>2
      <3>5. Append(d, m) = d \o <<m>>
        BY AppendIsConcat DEF Messages
      <3>6. Prepend(<< >>, r) = r
        BY PrependNothing
      <3> QED
        BY <2>6, <3>1, <3>2, <3>4, <3>5, <3>6
    <2>8. ASSUME ~MsgDone(HeaderAt(s, p)) PROVE Decode(t) = d \o Prepend(m, r)
      <3>1. AfterFrame(t, p, r) = Prepend(y, r)
        BY <2>3, <2>8 DEF AfterFrame
      <3>2. Prepend(q, Prepend(y, r)) = Prepend(m, r)
        BY <1>3, PrependPart
      <3> QED
        BY <2>6, <3>1, <3>2
    <2> QED
      BY <2>1, <2>4, <2>7, <2>8
  <1>5. ASSUME MsgDone(HeaderAt(s, p)) PROVE Parsed(s, e, Append(d, m), << >>)
    BY <1>4, <1>5 DEF Parsed
  <1>6. ASSUME ~MsgDone(HeaderAt(s, p)) PROVE Parsed(s, e, d, m)
    BY <1>4, <1>6 DEF Parsed
  <1> QED
    BY <1>1, <1>2, <1>3, <1>5, <1>6

\* At the end no frame is left.
LEMMA ParsedEnd ==
  ASSUME NEW s \in Seq(Bytes), NEW p \in 0..Len(s), NEW d \in Messages, NEW q,
         Parsed(s, p, d, q), ~WholeAt(s, p)
  PROVE  Decode(s) = d
  <1>1. s \o << >> = s /\ << >> \in Seq(Bytes)
    BY ConcatEmptySeq
  <1>2. Decode(s) = d \o Prepend(q, DecodeFrom(s)[p])
    BY <1>1 DEF Parsed
  <1>3. DecodeFrom(s)[p] = << >>
    BY DecodeStep
  <1>4. Prepend(q, << >>) = << >>
    BY DEF Prepend
  <1>5. d \o << >> = d
    BY ConcatEmptySeq DEF Messages
  <1> QED
    BY <1>2, <1>3, <1>4, <1>5

\* The decoder comes to a place where no whole frame is left.
LEMMA ParsedWhole ==
  ASSUME NEW s \in Seq(Bytes)
  PROVE  \E p \in 0..Len(s), d \in Messages, q \in Seq(Bytes) :
           Parsed(s, p, d, q) /\ ~WholeAt(s, p)
  <1> DEFINE Goal == \E p \in 0..Len(s), d \in Messages, q \in Seq(Bytes) :
                       Parsed(s, p, d, q) /\ ~WholeAt(s, p)
             S == {p \in 0..Len(s) :
                     \A d \in Messages, q \in Seq(Bytes) : Parsed(s, p, d, q) => Goal}
  <1>1. ASSUME NEW p \in 0..Len(s), \A k \in (p + 1)..Len(s) : k \in S
        PROVE  p \in S
    <2> SUFFICES ASSUME NEW d \in Messages, NEW q \in Seq(Bytes), Parsed(s, p, d, q)
                 PROVE  Goal
      BY DEF S
    <2>1. CASE ~WholeAt(s, p)
      BY <2>1
    <2>2. CASE WholeAt(s, p)
      <3>1. p \in Nat
        OBVIOUS
      <3>2. PICK e \in S : e = EndAt(s, p)
        BY <1>1, <2>2, <3>1, WholeFrame
      <3>3. PICK m \in Seq(Bytes) : m = q \o PayloadAt(s, p)
        BY <2>2, <3>1, WholeFrame, ConcatProperties
      <3>4. PICK f \in Messages : f = Append(d, m)
        BY AppendProperties DEF Messages
      <3>5. << >> \in Seq(Bytes)
        OBVIOUS
      <3>6. Parsed(s, e, f, << >>) \/ Parsed(s, e, d, m)
        BY <2>2, <3>1, <3>2, <3>3, <3>4, ParsedFrame
      <3> HIDE DEF Goal
      <3> QED
        BY <3>2, <3>5, <3>6 DEF S
    <2> QED
      BY <2>1, <2>2
  <1> HIDE DEF S, Goal
  <1>2. 0 \in S
    <2>1. PICK n \in Nat : n = Len(s)
      OBVIOUS
    <2>2. \A p \in 0..n : (\A k \in (p + 1)..n : k \in S) => p \in S
      BY <1>1, <2>1
    <2>3. 0..n \subseteq S
      BY <2>2, Backwards
    <2> QED
      BY <2>3
  <1>3. PICK d \in Messages, q \in Seq(Bytes) : d = << >> /\ q = << >>
    <2>1. << >> \in Messages /\ << >> \in Seq(Bytes)
      BY DEF Messages
    <2> QED
      BY <2>1
  <1>4. Parsed(s, 0, d, q)
    <2>1. Parsed(q \o s, 0, d, q)
      BY <1>3, ParsedStart, ParsedMore
    <2>2. q \o s = s
      BY <1>3, ConcatEmptySeq
    <2> QED
      BY <2>1, <2>2
  <1>5. Goal
    BY <1>2, <1>4 DEF S
  <1> QED
    BY <1>5 DEF Goal

\* What a receiver has made of the bytes that have arrived is never revised:
\* more bytes only add messages.
THEOREM DecodeGrows ==
  ASSUME NEW s \in Seq(Bytes), NEW u \in Seq(Bytes)
  PROVE  /\ Decode(s) \in Messages
         /\ \E r \in Messages : Decode(s \o u) = Decode(s) \o r
  <1>1. PICK p \in 0..Len(s), d \in Messages, q \in Seq(Bytes) :
          Parsed(s, p, d, q) /\ ~WholeAt(s, p)
    BY ParsedWhole
  <1>2. Decode(s) = d
    BY <1>1, ParsedEnd
  <1>3. PICK t \in Seq(Bytes) : t = s \o u /\ Len(t) = Len(s) + Len(u)
    BY ConcatProperties
  <1>4. p \in 0..Len(t)
    <2>1. Len(s) \in Nat /\ Len(u) \in Nat
      OBVIOUS
    <2> QED
      BY <1>3, <2>1
  <1>5. PICK r \in Messages : r = Prepend(q, DecodeFrom(t)[p])
    <2>1. PICK x \in Messages : x = DecodeFrom(t)[p]
      BY <1>4, DecodeType
    <2> QED
      BY <2>1, PrependType
  <1>6. Decode(t) = d \o r
    BY <1>1, <1>3, <1>5 DEF Parsed
  <1> QED
    BY <1>2, <1>3, <1>6
=============================================================================
