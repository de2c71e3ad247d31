-------------------------- MODULE ClientReadProofs --------------------------
(***************************************************************************)
(* The safety properties of ClientRead and its refinement of Decoder,      *)
(* proved for every size of the buffers and every number of byte values.   *)
(***************************************************************************)
EXTENDS ClientRead, FramesProofs

-----------------------------------------------------------------------------
(* The inductive invariant.                                                *)

\* The last bytes of s are t.
EndsWith(s, t) ==
  /\ Len(t) <= Len(s)
  /\ \A j \in 1..Len(t) : s[Len(s) - Len(t) + j] = t[j]

\* What is known of the reads: the payload length that a header announced was
\* checked before the payload is read, and the chunk is appended when it is
\* complete and only then.
Reads ==
  /\ pc # "loop" => ~closed
  /\ state = "READ_HEADER" =>
       /\ Len(header_buffer) <= HeaderLen
       /\ ~closed => Len(header_buffer) < HeaderLen
       /\ Len(header_buffer) = HeaderLen => MsgLen(header_buffer) > BUF_SIZE
       /\ pc \in {"loop", "read"}
  /\ state = "READ_PAYLOAD" =>
       /\ header_buffer = << >>
       /\ Len(payload_buffer) <= expected_payload_len
       /\ expected_payload_len <= BUF_SIZE
       /\ (pc = "loop" /\ ~closed) => Len(payload_buffer) < expected_payload_len
       /\ pc \in {"append", "grow", "copy", "process"} =>
            Len(payload_buffer) = expected_payload_len

\* What is known of partial_msg's block.
Blocks ==
  /\ partial_cap >= BUF_SIZE
  /\ block = 0 \/ block >= BUF_SIZE

\* Where the bytes in the buffers are in the stream.
Places ==
  /\ state = "READ_HEADER" => EndsWith(consumed, header_buffer)
  /\ (state = "READ_PAYLOAD" /\ ~Disconnected) =>
       LET h == Len(consumed) - Len(payload_buffer) - HeaderLen
       IN /\ h >= 0
          /\ EndsWith(consumed, payload_buffer)
          /\ expected_payload_len = consumed[h + 1] * Base + consumed[h + 2]
          /\ msg_done <=> consumed[h + 3] # 0
  /\ pc = "process" => EndsWith(partial_msg, payload_buffer)

IInv ==
  /\ TypeOK
  /\ Reads
  /\ Blocks
  /\ BuffersFit
  /\ ~failed => Places

-----------------------------------------------------------------------------
(* Lemmas on the operators the model is built from.                        *)

LEMMA EndsWithNothing ==
  ASSUME NEW S, NEW s \in Seq(S)
  PROVE  EndsWith(s, << >>)
  BY DEF EndsWith

LEMMA EndsWithSecond ==
  ASSUME NEW S, NEW s \in Seq(S), NEW t \in Seq(S)
  PROVE  EndsWith(s \o t, t)
  BY ConcatElements DEF EndsWith

\* Both sequences may grow by the same elements.
LEMMA EndsWithMore ==
  ASSUME NEW S, NEW s \in Seq(S), NEW t \in Seq(S), NEW u \in Seq(S),
         EndsWith(s, t)
  PROVE  EndsWith(s \o u, t \o u)
  <1> DEFINE su == s \o u
             tu == t \o u
             d == Len(s) - Len(t)
  <1>1. /\ Len(su) = Len(s) + Len(u)
        /\ \A i \in 1..Len(s) : su[i] = s[i]
        /\ \A i \in 1..Len(u) : su[Len(s) + i] = u[i]
    BY ConcatElements
  <1>2. /\ Len(tu) = Len(t) + Len(u)
        /\ \A i \in 1..Len(t) : tu[i] = t[i]
        /\ \A i \in 1..Len(u) : tu[Len(t) + i] = u[i]
    BY ConcatElements
  <1>3. /\ Len(s) \in Nat /\ Len(t) \in Nat /\ Len(u) \in Nat
    OBVIOUS
  <1>4. d \in Nat /\ \A j \in 1..Len(t) : s[d + j] = t[j]
    BY <1>3 DEF EndsWith
  <1> HIDE DEF su, tu
  <1>5. ASSUME NEW j \in 1..Len(tu) PROVE su[d + j] = tu[j]
    <2>1. CASE j <= Len(t)
      <3>1. d + j \in 1..Len(s) /\ j \in 1..Len(t)
        BY <1>2, <1>3, <1>4, <2>1
      <3>2. su[d + j] = s[d + j] /\ tu[j] = t[j]
        BY <1>1, <1>2, <3>1
      <3>3. s[d + j] = t[j]
        BY <1>4, <3>1
      <3> QED
        BY <3>2, <3>3
    <2>2. CASE j > Len(t)
      <3> DEFINE i == j - Len(t)
      <3>1. /\ i \in 1..Len(u) /\ j = Len(t) + i /\ d + j = Len(s) + i
        BY <1>2, <1>3, <2>2
      <3> HIDE DEF i
      <3>2. su[Len(s) + i] = u[i] /\ tu[Len(t) + i] = u[i]
        BY <1>1, <1>2, <3>1
      <3> QED
        BY <3>1, <3>2
    <2> QED
      BY <1>2, <1>3, <2>1, <2>2
  <1>6. Len(su) - Len(tu) = d /\ Len(tu) <= Len(su)
    BY <1>1, <1>2, <1>3, <1>4
  <1>7. EndsWith(su, tu)
    BY <1>5, <1>6 DEF EndsWith
  <1> QED
    BY <1>7 DEF su, tu

\* What comes before the end, and the end, are the whole.
LEMMA EndsWithParts ==
  ASSUME NEW S, NEW s \in Seq(S), NEW t \in Seq(S), EndsWith(s, t)
  PROVE  /\ SubSeq(s, 1, Len(s) - Len(t)) \in Seq(S)
         /\ SubSeq(s, 1, Len(s) - Len(t)) \o t = s
         /\ SubSeq(s, Len(s) - Len(t) + 1, Len(s)) = t
  <1> DEFINE d == Len(s) - Len(t)
             p == SubSeq(s, 1, d)
             pt == p \o t
             q == SubSeq(s, d + 1, Len(s))
  <1>1. d \in Nat /\ d <= Len(s) /\ Len(s) \in Nat /\ Len(t) \in Nat
    BY DEF EndsWith
  <1>2. \A j \in 1..Len(t) : s[d + j] = t[j]
    BY DEF EndsWith
  <1>3. p \in Seq(S) /\ Len(p) = d /\ \A i \in 1..d : p[i] = s[i]
    <2>1. /\ SubSeq(s, 0 + 1, d) \in Seq(S)
          /\ Len(SubSeq(s, 0 + 1, d)) = d - 0
          /\ \A i \in 1..(d - 0) : SubSeq(s, 0 + 1, d)[i] = s[0 + i]
      BY <1>1, SubSeqElements
    <2> QED
      BY <1>1, <2>1
  <1>4. /\ pt \in Seq(S) /\ Len(pt) = d + Len(t)
        /\ \A i \in 1..d : pt[i] = p[i]
        /\ \A i \in 1..Len(t) : pt[d + i] = t[i]
    <2> HIDE DEF p
    <2>1. /\ pt \in Seq(S) /\ Len(pt) = Len(p) + Len(t)
          /\ \A i \in 1..Len(p) : pt[i] = p[i]
          /\ \A i \in 1..Len(t) : pt[Len(p) + i] = t[i]
      BY <1>3, ConcatElements
    <2> QED
      BY <1>3, <2>1
  <1>5. /\ q \in Seq(S) /\ Len(q) = Len(t)
        /\ \A i \in 1..Len(t) : q[i] = s[d + i]
    BY <1>1, SubSeqElements
  <1> HIDE DEF p, pt, q, d
  <1>6. pt = s
    <2>1. Len(pt) = Len(s)
      BY <1>1, <1>4 DEF d
    <2>2. ASSUME NEW i \in 1..Len(s) PROVE pt[i] = s[i]
      <3>1. CASE i <= d
        BY <1>1, <1>3, <1>4, <3>1
      <3>2. CASE i > d
        <4>1. i - d \in 1..Len(t) /\ d + (i - d) = i
          BY <1>1, <3>2 DEF d
        <4> QED
          BY <1>2, <1>4, <4>1
      <3> QED
        BY <1>1, <3>1, <3>2
    <2> QED
      BY <1>4, <2>1, <2>2, SeqEqual
  <1>7. q = t
    BY <1>2, <1>5, SeqEqual
  <1> QED
    BY <1>3, <1>6, <1>7 DEF p, pt, q, d

\* What a read() of at most n bytes gets and leaves.
LEMMA GotBytes ==
  ASSUME inq \in Seq(Bytes), NEW n \in Nat
  PROVE  /\ Available(n) \in 0..n
         /\ Got(n) \in Seq(Bytes) /\ Len(Got(n)) = Available(n)
         /\ (inq # << >> /\ n > 0) => Available(n) > 0
         /\ SubSeq(inq, Available(n) + 1, Len(inq)) \in Seq(Bytes)
  <1>1. Len(inq) \in Nat /\ (inq # << >> => Len(inq) > 0)
    BY EmptySeq
  <1>2. /\ Available(n) \in 0..n /\ Available(n) <= Len(inq)
        /\ (inq # << >> /\ n > 0) => Available(n) > 0
    BY <1>1 DEF Available
  <1> DEFINE a == Available(n)
  <1>3. a \in Nat /\ a <= Len(inq)
    BY <1>2
  <1> HIDE DEF a
  <1>4. /\ SubSeq(inq, 0 + 1, a) \in Seq(Bytes)
        /\ Len(SubSeq(inq, 0 + 1, a)) = a - 0
    BY <1>3, SubSeqElements
  <1>5. SubSeq(inq, a + 1, Len(inq)) \in Seq(Bytes)
    BY <1>1, <1>3, SubSeqElements
  <1> QED
    BY <1>2, <1>3, <1>4, <1>5 DEF Got, a

-----------------------------------------------------------------------------
(* Every step preserves the invariant: one lemma per action.               *)

LEMMA InitIInv == Init => IInv
  <1> SUFFICES ASSUME Init PROVE IInv
    OBVIOUS
  <1> USE ReadAssumption DEF Init
  <1>1. TypeOK
    <2>1. /\ inq \in Seq(Bytes) /\ consumed \in Seq(Bytes)
          /\ header_buffer \in Seq(Bytes) /\ payload_buffer \in Seq(Bytes)
          /\ partial_msg \in Seq(Bytes \cup {LOST}) /\ name \in Seq(Bytes \cup {LOST})
          /\ delivered \in Seq(Seq(Bytes \cup {LOST}))
      BY EmptySeq
    <2> QED
      BY <2>1 DEF TypeOK, PCs
  <1>2. Len(header_buffer) = 0 /\ Len(payload_buffer) = 0 /\ Len(name) = 0
        /\ Len(partial_msg) = 0 /\ Len(consumed) = 0
    OBVIOUS
  <1>3. Reads /\ Blocks
    BY <1>2 DEF Reads, Blocks, HeaderLen
  <1>4. BuffersFit
    BY <1>2 DEF BuffersFit, HeaderLen
  <1>5. Places
    BY <1>2 DEF Places, EndsWith
  <1> QED
    BY <1>1, <1>3, <1>4, <1>5 DEF IInv

\* The peer's steps touch nothing of client_info.
LEMMA PeerIInv ==
  ASSUME IInv, Peer
  PROVE  IInv'
  <1>1. TypeOK
    BY DEF IInv
  <1>2. /\ inq' \in Seq(Bytes) /\ peer' \in {"open", "fin", "reset"}
        /\ UNCHANGED <<consumed, pc, headVars, payload_buffer, partVars, nameVars>>
    <2>1. ASSUME NEW b \in Bytes, PeerSend(b)
          PROVE  /\ inq' \in Seq(Bytes) /\ peer' = peer
                 /\ UNCHANGED <<consumed, pc, headVars, payload_buffer, partVars, nameVars>>
      BY <1>1, <2>1 DEF PeerSend, TypeOK
    <2>2. ASSUME NEW how \in {"fin", "reset"}, PeerEnds(how)
          PROVE  /\ inq' = inq /\ peer' \in {"open", "fin", "reset"}
                 /\ UNCHANGED <<consumed, pc, headVars, payload_buffer, partVars, nameVars>>
      BY <2>2 DEF PeerEnds
    <2> QED
      BY <1>1, <2>1, <2>2 DEF Peer, TypeOK
  <1>3. TypeOK'
    BY <1>1, <1>2 DEF TypeOK, headVars, partVars, nameVars
  <1>4. Reads' /\ Blocks' /\ BuffersFit' /\ (~failed => Places)'
    BY <1>2 DEF IInv, Reads, Blocks, BuffersFit, Places, Disconnected, Remaining, Needed,
                headVars, partVars, nameVars
  <1> QED
    BY <1>3, <1>4 DEF IInv

LEMMA EpollInIInv ==
  ASSUME IInv, EpollIn
  PROVE  IInv'
  <1>1. /\ pc = "loop" /\ ~closed /\ pc' = "read"
        /\ UNCHANGED <<netVars, headVars, payload_buffer, partVars, nameVars>>
    BY DEF EpollIn
  <1> USE DEF netVars, headVars, partVars, nameVars
  <1>2. TypeOK'
    BY <1>1 DEF IInv, TypeOK, PCs
  <1>3. Reads' /\ Blocks'
    BY <1>1 DEF IInv, Reads, Blocks
  <1>4. BuffersFit'
    BY <1>1 DEF IInv, BuffersFit, Needed
  <1>5. ~Disconnected
    BY <1>1 DEF IInv, Reads, Disconnected, Remaining, TypeOK
  <1>6. (~failed => Places)'
    BY <1>1, <1>5 DEF IInv, Places
  <1> QED
    BY <1>2, <1>3, <1>4, <1>6 DEF IInv

LEMMA HangupIInv ==
  ASSUME IInv, Hangup
  PROVE  IInv'
  <1>1. /\ pc = "loop" /\ closed' = TRUE
        /\ UNCHANGED <<netVars, pc, headVars, payload_buffer, partVars, has_name, name,
                       delivered>>
    BY DEF Hangup
  <1> USE DEF netVars, headVars, partVars, nameVars
  <1>2. TypeOK'
    BY <1>1 DEF IInv, TypeOK
  <1>3. Reads' /\ Blocks'
    BY <1>1 DEF IInv, Reads, Blocks
  <1>4. BuffersFit'
    BY <1>1 DEF IInv, BuffersFit, Needed
  <1>5. (~failed => Places)'
    BY <1>1 DEF IInv, Places, Disconnected, Remaining
  <1> QED
    BY <1>2, <1>3, <1>4, <1>5 DEF IInv

\* A header that is still incomplete.
LEMMA ReadHeaderPartIInv ==
  ASSUME IInv, ReadHeaderPart
  PROVE  IInv'
  <1>1. /\ pc = "read" /\ state = "READ_HEADER" /\ pc' = "loop"
        /\ Len(NewHeader) < HeaderLen /\ header_buffer' = NewHeader
        /\ Read(HeaderWanted)
        /\ UNCHANGED <<state, expected_payload_len, msg_done, payload_buffer, partVars,
                       nameVars>>
    BY DEF ReadHeaderPart
  <1> USE DEF partVars, nameVars
  <1> DEFINE g == Got(HeaderWanted)
  <1>2. HeaderWanted \in Nat
    BY <1>1 DEF IInv, TypeOK, Reads, HeaderWanted, HeaderLen
  <1>3. /\ g \in Seq(Bytes) /\ inq' \in Seq(Bytes)
        /\ consumed' = consumed \o g /\ peer' = peer
    BY <1>1, <1>2, GotBytes DEF IInv, TypeOK, Read
  <1>4. /\ NewHeader = header_buffer \o g
        /\ consumed \in Seq(Bytes) /\ header_buffer \in Seq(Bytes)
    BY DEF NewHeader, IInv, TypeOK
  <1> HIDE DEF g
  <1>5. consumed' \in Seq(Bytes) /\ header_buffer' \in Seq(Bytes)
    BY <1>1, <1>3, <1>4, ConcatElements
  <1>6. TypeOK'
    BY <1>1, <1>3, <1>5 DEF IInv, TypeOK, PCs
  <1>7. Reads' /\ Blocks'
    <2>1. Len(header_buffer') \in Nat /\ Len(header_buffer') < HeaderLen /\ HeaderLen = 3
      BY <1>1, <1>5 DEF HeaderLen
    <2>2. Len(header_buffer') <= HeaderLen /\ Len(header_buffer') # HeaderLen
      BY <2>1
    <2> QED
      BY <1>1, <2>1, <2>2 DEF IInv, Reads, Blocks
  <1>8. BuffersFit'
    BY <1>1, <1>5 DEF IInv, BuffersFit, Needed, HeaderLen
  <1>9. (~failed => Places)'
    <2> SUFFICES ASSUME ~failed' PROVE Places'
      OBVIOUS
    <2>1. EndsWith(consumed, header_buffer)
      BY <1>1 DEF IInv, Places
    <2>2. EndsWith(consumed', header_buffer')
      BY <1>1, <1>3, <1>4, <2>1, EndsWithMore
    <2> QED
      BY <1>1, <2>2 DEF Places
  <1> QED
    BY <1>6, <1>7, <1>8, <1>9 DEF IInv

\* A complete header: its length is checked before a payload is read.
LEMMA ReadHeaderIInv ==
  ASSUME IInv, ReadHeader
  PROVE  IInv'
  <1>1. /\ pc = "read" /\ state = "READ_HEADER"
        /\ Len(NewHeader) = HeaderLen
        /\ Read(HeaderWanted)
        /\ expected_payload_len' = MsgLen(NewHeader)
        /\ msg_done' = MsgDone(NewHeader)
        /\ UNCHANGED <<partVars, has_name, name, delivered>>
    BY DEF ReadHeader
  <1> USE DEF partVars
  <1> DEFINE g == Got(HeaderWanted)
             h == NewHeader
  <1>2. HeaderWanted \in Nat
    BY <1>1 DEF IInv, TypeOK, Reads, HeaderWanted, HeaderLen
  <1>3. /\ g \in Seq(Bytes) /\ inq' \in Seq(Bytes)
        /\ consumed' = consumed \o g /\ peer' = peer
    BY <1>1, <1>2, GotBytes DEF IInv, TypeOK, Read
  <1>4. /\ h = header_buffer \o g
        /\ consumed \in Seq(Bytes) /\ header_buffer \in Seq(Bytes)
    BY DEF NewHeader, IInv, TypeOK
  <1> HIDE DEF g
  <1>5. consumed' \in Seq(Bytes) /\ h \in Seq(Bytes)
    BY <1>3, <1>4, ConcatElements
  <1>6. /\ Len(h) = HeaderLen /\ expected_payload_len' = MsgLen(h)
        /\ msg_done' = MsgDone(h)
    BY <1>1
  <1>7. IF MsgLen(h) > BUF_SIZE
        THEN /\ closed' = TRUE /\ pc' = "loop"
             /\ header_buffer' = h
             /\ UNCHANGED <<state, payload_buffer>>
        ELSE /\ state' = "READ_PAYLOAD"
             /\ header_buffer' = << >> /\ payload_buffer' = << >>
             /\ UNCHANGED <<pc, closed>>
    BY DEF ReadHeader
  <1>8. EndsWith(consumed', h) \/ failed
    BY <1>1, <1>3, <1>4, EndsWithMore DEF IInv, Places
  <1> HIDE DEF h
  <1>9. /\ h[1] \in Bytes /\ h[2] \in Bytes /\ h[3] \in Bytes
        /\ MsgLen(h) \in Nat /\ msg_done' \in BOOLEAN
    <2>1. h[1] \in Bytes /\ h[2] \in Bytes /\ h[3] \in Bytes
      <3>1. 1 \in 1..Len(h) /\ 2 \in 1..Len(h) /\ 3 \in 1..Len(h)
        BY <1>6 DEF HeaderLen
      <3> QED
        BY <1>5, <3>1, ElementOfSeq
    <2>2. MsgLen(h) \in Nat
      BY <2>1, MsgLenNat DEF MsgLen
    <2>3. msg_done' \in BOOLEAN
      BY <1>6, Zenon DEF MsgDone
    <2> QED
      BY <2>1, <2>2, <2>3
  <1>10. CASE MsgLen(h) > BUF_SIZE
    <2>1. /\ closed' = TRUE /\ pc' = "loop" /\ header_buffer' = h
          /\ state' = "READ_HEADER" /\ payload_buffer' = payload_buffer
      BY <1>1, <1>7, <1>10
    <2>2. TypeOK'
      BY <1>1, <1>3, <1>5, <1>6, <1>9, <2>1 DEF IInv, TypeOK, PCs
    <2>a. Len(header_buffer') = HeaderLen /\ HeaderLen \in Nat
      BY <1>6, <2>1 DEF HeaderLen
    <2>3. Reads' /\ Blocks'
      <3>1. MsgLen(header_buffer') > BUF_SIZE /\ HeaderLen <= HeaderLen
        BY <1>10, <2>1, <2>a
      <3>2. Reads'
        BY <2>1, <2>a, <3>1 DEF Reads
      <3> QED
        BY <1>1, <3>2 DEF IInv, Blocks
    <2>4. BuffersFit'
      BY <1>1, <2>1, <2>a DEF IInv, BuffersFit
    <2>5. (~failed => Places)'
      BY <1>1, <1>8, <2>1 DEF Places
    <2> QED
      BY <2>2, <2>3, <2>4, <2>5 DEF IInv
  <1>11. CASE ~(MsgLen(h) > BUF_SIZE)
    <2>1. /\ state' = "READ_PAYLOAD" /\ header_buffer' = << >>
          /\ payload_buffer' = << >> /\ pc' = "read" /\ closed' = closed
      BY <1>1, <1>7, <1>11
    <2>2. TypeOK'
      <3>1. header_buffer' \in Seq(Bytes) /\ payload_buffer' \in Seq(Bytes)
        BY <2>1, EmptySeq
      <3> QED
        BY <1>1, <1>3, <1>5, <1>6, <1>9, <2>1, <3>1 DEF IInv, TypeOK, PCs
    <2>3. Len(payload_buffer') = 0 /\ Len(header_buffer') = 0
      BY <2>1
    <2>4. Reads' /\ Blocks'
      BY <1>1, <1>6, <1>9, <1>11, <2>1, <2>3, ReadAssumption
         DEF IInv, Reads, Blocks, HeaderLen
    <2>5. BuffersFit'
      BY <1>1, <2>1, <2>3, ReadAssumption DEF IInv, BuffersFit, Needed, HeaderLen
    <2>6. (~failed => Places)'
      <3> SUFFICES ASSUME ~failed' PROVE Places'
        OBVIOUS
      <3>1. EndsWith(consumed', h)
        BY <1>1, <1>8
      <3> DEFINE q == Len(consumed') - HeaderLen
      <3>2. /\ q >= 0 /\ consumed'[q + 1] = h[1] /\ consumed'[q + 2] = h[2]
            /\ consumed'[q + 3] = h[3]
        BY <1>5, <1>6, <3>1 DEF EndsWith, HeaderLen
      <3>3. EndsWith(consumed', payload_buffer')
        BY <1>5, <2>1, EndsWithNothing
      <3>4. Len(consumed') - Len(payload_buffer') - HeaderLen = q
        BY <1>5, <2>3 DEF HeaderLen
      <3>5. expected_payload_len' = consumed'[q + 1] * Base + consumed'[q + 2]
        BY <1>6, <3>2 DEF MsgLen
      <3>6. msg_done' <=> consumed'[q + 3] # 0
        BY <1>6, <3>2 DEF MsgDone
      <3> HIDE DEF q
      <3> QED
        BY <2>1, <3>2, <3>3, <3>4, <3>5, <3>6 DEF Places
    <2> QED
      BY <2>2, <2>4, <2>5, <2>6 DEF IInv
  <1> QED
    BY <1>10, <1>11

\* Bytes of a payload, to its end or short of it.
LEMMA ReadPayloadIInv ==
  ASSUME IInv, ReadPayload
  PROVE  IInv'
  <1>1. /\ pc = "read" /\ state = "READ_PAYLOAD"
        /\ Read(Remaining)
        /\ payload_buffer' = payload_buffer \o Got(Remaining)
        /\ pc' = IF Len(payload_buffer') < expected_payload_len THEN "loop" ELSE "append"
        /\ UNCHANGED <<headVars, partVars, nameVars>>
    BY DEF ReadPayload, PayloadShort
  <1> USE DEF headVars, partVars, nameVars
  <1> DEFINE g == Got(Remaining)
  <1>2. Remaining \in Nat /\ Remaining + Len(payload_buffer) = expected_payload_len
    BY <1>1 DEF IInv, TypeOK, Reads, Remaining
  <1>3. /\ g \in Seq(Bytes) /\ inq' \in Seq(Bytes) /\ Len(g) \in 0..Remaining
        /\ consumed' = consumed \o g /\ peer' = peer
    BY <1>1, <1>2, GotBytes DEF IInv, TypeOK, Read
  <1>4. /\ payload_buffer' = payload_buffer \o g
        /\ consumed \in Seq(Bytes) /\ payload_buffer \in Seq(Bytes)
    BY <1>1 DEF IInv, TypeOK
  <1> HIDE DEF g
  <1>5. /\ consumed' \in Seq(Bytes) /\ payload_buffer' \in Seq(Bytes)
        /\ Len(payload_buffer') = Len(payload_buffer) + Len(g)
        /\ Len(consumed') = Len(consumed) + Len(g)
    BY <1>3, <1>4, ConcatElements
  <1>6. /\ Len(payload_buffer') <= expected_payload_len
        /\ expected_payload_len <= BUF_SIZE
        /\ Len(payload_buffer') < expected_payload_len
             \/ Len(payload_buffer') = expected_payload_len
    <2>1. expected_payload_len <= BUF_SIZE
      BY <1>1 DEF IInv, Reads
    <2>2. Len(payload_buffer) \in Nat /\ Len(g) \in Nat /\ expected_payload_len \in Nat
      BY <1>3, <1>4 DEF IInv, TypeOK
    <2> QED
      <3> DEFINE r == Remaining
                 p == Len(payload_buffer)
                 n == Len(g)
                 pp == Len(payload_buffer')
      <3>1. /\ r \in Nat /\ r + p = expected_payload_len /\ n \in 0..r /\ pp = p + n
            /\ p \in Nat /\ expected_payload_len \in Nat
        BY <1>2, <1>3, <1>5, <2>2
      <3> HIDE DEF r, p, n, pp
      <3>2. pp <= expected_payload_len
        BY <3>1
      <3>3. pp < expected_payload_len \/ pp = expected_payload_len
        BY <3>1, <3>2
      <3> QED
        BY <2>1, <3>2, <3>3 DEF pp
  <1>7. TypeOK'
    BY <1>1, <1>3, <1>5 DEF IInv, TypeOK, PCs
  <1>8. Reads' /\ Blocks'
    BY <1>1, <1>6 DEF IInv, Reads, Blocks
  <1>9. BuffersFit'
    BY <1>1, <1>5, <1>6, ReadAssumption DEF IInv, BuffersFit, TypeOK
  <1>10. (~failed => Places)'
    <2> SUFFICES ASSUME ~failed' PROVE Places'
      OBVIOUS
    <2> DEFINE q == Len(consumed) - Len(payload_buffer) - HeaderLen
    <2>1. /\ q >= 0 /\ EndsWith(consumed, payload_buffer)
          /\ expected_payload_len = consumed[q + 1] * Base + consumed[q + 2]
          /\ msg_done <=> consumed[q + 3] # 0
      BY <1>1 DEF IInv, Places, Reads, Disconnected
    <2>2. EndsWith(consumed', payload_buffer')
      BY <1>3, <1>4, <2>1, EndsWithMore
    <2>3. Len(consumed') - Len(payload_buffer') - HeaderLen = q
      BY <1>3, <1>4, <1>5 DEF HeaderLen
    <2>4. q + 1 \in 1..Len(consumed) /\ q + 2 \in 1..Len(consumed)
          /\ q + 3 \in 1..Len(consumed)
      BY <1>4, <2>1 DEF HeaderLen
    <2> HIDE DEF q
    <2>5. /\ consumed'[q + 1] = consumed[q + 1] /\ consumed'[q + 2] = consumed[q + 2]
          /\ consumed'[q + 3] = consumed[q + 3]
      BY <1>3, <1>4, <2>4, ConcatElements
    <2>6. state' = "READ_PAYLOAD" /\ pc' # "process"
      BY <1>1
    <2>7. /\ expected_payload_len' = consumed'[q + 1] * Base + consumed'[q + 2]
          /\ msg_done' <=> consumed'[q + 3] # 0
      BY <1>1, <2>1, <2>5
    <2> QED
      BY <2>1, <2>2, <2>3, <2>6, <2>7 DEF Places
  <1> QED
    BY <1>7, <1>8, <1>9, <1>10 DEF IInv

LEMMA ReadNothingIInv ==
  ASSUME IInv, ReadNothing
  PROVE  IInv'
  <1>1. /\ pc = "read" /\ pc' = "loop"
        /\ state = "READ_HEADER" \/ Remaining > 0
        /\ UNCHANGED <<netVars, headVars, payload_buffer, partVars, has_name, name,
                       delivered>>
    BY DEF ReadNothing
  <1>2. closed' \in BOOLEAN
    BY Zenon DEF ReadNothing
  <1> USE DEF netVars, headVars, partVars
  <1>3. TypeOK'
    BY <1>1, <1>2 DEF IInv, TypeOK, PCs
  <1>4. state = "READ_PAYLOAD" => Len(payload_buffer) < expected_payload_len
    BY <1>1 DEF IInv, TypeOK, Remaining
  <1>5. Reads' /\ Blocks'
    BY <1>1, <1>4 DEF IInv, Reads, Blocks
  <1>6. BuffersFit'
    BY <1>1 DEF IInv, BuffersFit, Needed
  <1>7. (~failed => Places)'
    BY <1>1 DEF IInv, Places, Disconnected, Remaining
  <1> QED
    BY <1>3, <1>5, <1>6, <1>7 DEF IInv

LEMMA DoubleIInv ==
  ASSUME IInv, Double
  PROVE  IInv'
  <1>1. /\ pc \in {"append", "grow"} /\ pc' = "grow" /\ partial_cap' = 2 * partial_cap
        /\ UNCHANGED <<netVars, headVars, payload_buffer, partial_msg, block, failed,
                       nameVars>>
    BY DEF Double
  <1> USE DEF netVars, headVars, nameVars
  <1>2. partial_cap' \in Nat /\ partial_cap' >= BUF_SIZE
    BY <1>1, ReadAssumption DEF IInv, TypeOK, Blocks
  <1>3. TypeOK'
    BY <1>1, <1>2 DEF IInv, TypeOK, PCs
  <1>4. Reads' /\ Blocks'
    BY <1>1, <1>2 DEF IInv, Reads, Blocks
  <1>5. BuffersFit'
    BY <1>1 DEF IInv, BuffersFit
  <1>6. (~failed => Places)'
    BY <1>1 DEF IInv, Places, Disconnected, Remaining
  <1> QED
    BY <1>3, <1>4, <1>5, <1>6 DEF IInv

\* realloc gives the capacity that was computed, or nothing.
LEMMA ReallocIInv ==
  ASSUME IInv, Realloc
  PROVE  IInv'
  <1>1. /\ pc = "grow" /\ partial_cap >= Needed
        /\ UNCHANGED <<netVars, headVars, payload_buffer, partial_cap, nameVars>>
    BY DEF Realloc
  <1> USE DEF netVars, headVars, nameVars
  <1>2. CASE block' = partial_cap /\ pc' = "copy" /\ UNCHANGED <<partial_msg, failed>>
    <2>1. TypeOK'
      BY <1>1, <1>2 DEF IInv, TypeOK, PCs
    <2>2. Reads' /\ Blocks'
      BY <1>1, <1>2 DEF IInv, Reads, Blocks
    <2>3. BuffersFit'
      <3>1. /\ Needed = Len(partial_msg) + Len(payload_buffer)
            /\ Needed' = Len(partial_msg) + Len(payload_buffer)
        BY <1>1, <1>2 DEF Needed
      <3>2. Len(partial_msg) \in Nat /\ Len(payload_buffer) \in Nat /\ partial_cap \in Nat
        BY DEF IInv, TypeOK
      <3>3. Len(partial_msg') <= block' /\ Needed' <= block' /\ partial_cap' <= block'
        BY <1>1, <1>2, <3>1, <3>2
      <3>4. block' # 0
        BY <1>2, <3>2, ReadAssumption DEF IInv, Blocks
      <3> QED
        BY <1>1, <1>2, <3>3, <3>4 DEF IInv, BuffersFit
    <2>4. (~failed => Places)'
      BY <1>1, <1>2 DEF IInv, Places, Disconnected, Remaining
    <2> QED
      BY <2>1, <2>2, <2>3, <2>4 DEF IInv
  <1>3. CASE /\ block' = 0 /\ pc' = "process" /\ failed' = TRUE
             /\ partial_msg' = [j \in 1..Len(partial_msg) |-> LOST]
    <2>1. partial_msg' \in Seq(Bytes \cup {LOST})
      <3>1. Len(partial_msg) \in Nat
        BY DEF IInv, TypeOK
      <3>2. \A j \in 1..Len(partial_msg) : LOST \in Bytes \cup {LOST}
        OBVIOUS
      <3> QED
        BY <1>3, <3>1, <3>2, IsASeq
    <2>2. TypeOK'
      BY <1>1, <1>3, <2>1 DEF IInv, TypeOK, PCs
    <2>3. Reads' /\ Blocks'
      BY <1>1, <1>3 DEF IInv, Reads, Blocks
    <2>4. BuffersFit'
      BY <1>1, <1>3 DEF IInv, BuffersFit
    <2> QED
      BY <1>3, <2>2, <2>3, <2>4 DEF IInv
  <1> QED
    BY <1>2, <1>3 DEF Realloc

\* memcpy stays inside the block.
LEMMA CopyIInv ==
  ASSUME IInv, Copy
  PROVE  IInv'
  <1>1. /\ pc = "copy" \/ (pc = "append" /\ partial_cap >= Needed)
        /\ UNCHANGED <<netVars, headVars, payload_buffer, partial_cap, block, failed,
                       nameVars>>
    BY DEF Copy
  <1> USE DEF netVars, headVars, nameVars
  <1>2. CASE block = 0 /\ pc' = "crashed" /\ UNCHANGED partial_msg
    <2>1. TypeOK'
      BY <1>1, <1>2 DEF IInv, TypeOK, PCs
    <2>2. Reads' /\ Blocks'
      BY <1>1, <1>2 DEF IInv, Reads, Blocks
    <2>3. BuffersFit' /\ failed'
      BY <1>1, <1>2 DEF IInv, BuffersFit
    <2> QED
      BY <2>1, <2>2, <2>3 DEF IInv
  <1>3. CASE pc' = "process" /\ partial_msg' = partial_msg \o payload_buffer
    <2>1. /\ partial_msg \in Seq(Bytes \cup {LOST})
          /\ payload_buffer \in Seq(Bytes \cup {LOST})
      <3>1. Bytes \subseteq Bytes \cup {LOST}
        OBVIOUS
      <3> QED
        BY <3>1, SeqMonotonic DEF IInv, TypeOK
    <2>2. /\ partial_msg' \in Seq(Bytes \cup {LOST}) /\ Len(partial_msg') = Needed
          /\ EndsWith(partial_msg', payload_buffer')
      BY <1>1, <1>3, <2>1, ConcatElements, EndsWithSecond DEF Needed
    <2>3. TypeOK'
      BY <1>1, <1>3, <2>2 DEF IInv, TypeOK, PCs
    <2>4. Reads' /\ Blocks'
      BY <1>1, <1>3 DEF IInv, Reads, Blocks
    <2>5. block # 0 => Len(partial_msg') <= block
      <3>1. CASE pc = "copy"
        BY <2>2, <3>1 DEF IInv, BuffersFit
      <3>2. CASE pc = "append" /\ partial_cap >= Needed
        <4>1. block # 0 => partial_cap <= block
          BY <3>2 DEF IInv, BuffersFit
        <4>2. partial_cap \in Nat /\ block \in Nat /\ Needed \in Nat
          BY <2>1 DEF IInv, TypeOK, Needed
        <4> QED
          BY <2>2, <3>2, <4>1, <4>2
      <3> QED
        BY <1>1, <3>1, <3>2
    <2>6. BuffersFit'
      BY <1>1, <1>3, <2>5 DEF IInv, BuffersFit
    <2>7. (~failed => Places)'
      BY <1>1, <1>3, <2>2 DEF IInv, Places, Disconnected, Remaining, Reads
    <2> QED
      BY <2>3, <2>4, <2>6, <2>7 DEF IInv
  <1> QED
    BY <1>2, <1>3 DEF Copy

\* The end of a frame in the middle of a message.
LEMMA FrameEndIInv ==
  ASSUME IInv, FrameEnd
  PROVE  IInv'
  <1>1. /\ pc = "process" /\ pc' = "read"
        /\ state' = "READ_HEADER" /\ header_buffer' = << >> /\ expected_payload_len' = 0
        /\ UNCHANGED <<netVars, msg_done, payload_buffer, partVars, nameVars>>
    BY DEF FrameEnd, NextFrame
  <1> USE DEF netVars, partVars, nameVars
  <1>2. header_buffer' \in Seq(Bytes) /\ Len(header_buffer') = 0
    BY <1>1
  <1>3. TypeOK'
    BY <1>1, <1>2 DEF IInv, TypeOK, PCs
  <1>4. Reads' /\ Blocks'
    BY <1>1, <1>2 DEF IInv, Reads, Blocks, HeaderLen
  <1>5. BuffersFit'
    BY <1>1, <1>2 DEF IInv, BuffersFit, Needed, HeaderLen
  <1>6. EndsWith(consumed', header_buffer')
    BY <1>1, EndsWithNothing DEF IInv, TypeOK
  <1>7. Places'
    BY <1>1, <1>6 DEF Places
  <1> QED
    BY <1>3, <1>4, <1>5, <1>7 DEF IInv

\* The end of a message: the buffer is emptied, and its capacity forgotten.
LEMMA ProcessIInv ==
  ASSUME IInv, Process
  PROVE  IInv'
  <1>1. /\ pc = "process" /\ pc' = "read"
        /\ state' = "READ_HEADER" /\ header_buffer' = << >> /\ expected_payload_len' = 0
        /\ UNCHANGED <<netVars, msg_done, payload_buffer, closed, block, failed>>
        /\ delivered' = Append(delivered, partial_msg)
        /\ has_name' = TRUE
        /\ partial_msg' = << >>
        /\ partial_cap' = IF block = 0 THEN partial_cap ELSE BUF_SIZE
    BY DEF Process, NextFrame, clear_client_buffer, Cleared
  <1> USE DEF netVars
  <1>2. header_buffer' \in Seq(Bytes) /\ Len(header_buffer') = 0
        /\ partial_msg' \in Seq(Bytes \cup {LOST}) /\ Len(partial_msg') = 0
        /\ delivered' \in Seq(Seq(Bytes \cup {LOST}))
    BY <1>1 DEF IInv, TypeOK
  <1>3. name' \in Seq(Bytes \cup {LOST}) /\ Len(name') < NAME_MAX
    <2>1. partial_msg \in Seq(Bytes \cup {LOST}) /\ Len(partial_msg) \in Nat
      BY DEF IInv, TypeOK
    <2>2. CASE has_name
      BY <2>2 DEF Process, IInv, TypeOK, BuffersFit
    <2>3. CASE ~has_name /\ Len(partial_msg) >= NAME_MAX
      <3> DEFINE k == NAME_MAX - 1
      <3>1. k \in Nat /\ k <= Len(partial_msg) /\ k < NAME_MAX
        BY <2>1, <2>3, ReadAssumption
      <3>2. name' = SubSeq(partial_msg, 1, k)
        BY <2>3 DEF Process, store_client_name
      <3> HIDE DEF k
      <3>3. /\ SubSeq(partial_msg, 0 + 1, k) \in Seq(Bytes \cup {LOST})
            /\ Len(SubSeq(partial_msg, 0 + 1, k)) = k - 0
        BY <2>1, <3>1, SubSeqElements
      <3> QED
        BY <3>1, <3>2, <3>3
    <2>4. CASE ~has_name /\ ~(Len(partial_msg) >= NAME_MAX)
      BY <2>1, <2>4, ReadAssumption DEF Process, store_client_name
    <2> QED
      BY <2>2, <2>3, <2>4
  <1>4. partial_cap' \in Nat /\ partial_cap' >= BUF_SIZE
        /\ (block # 0 => partial_cap' <= block)
    BY <1>1, ReadAssumption DEF IInv, TypeOK, Blocks
  <1>5. TypeOK'
    BY <1>1, <1>2, <1>3, <1>4 DEF IInv, TypeOK, PCs
  <1>6. Reads' /\ Blocks'
    BY <1>1, <1>2, <1>4 DEF IInv, Reads, Blocks, HeaderLen
  <1>7. BuffersFit'
    <2>1. block \in Nat
      BY DEF IInv, TypeOK
    <2> QED
      BY <1>1, <1>2, <1>3, <1>4, <2>1 DEF IInv, BuffersFit, HeaderLen
  <1>8. EndsWith(consumed', header_buffer')
    BY <1>1, EndsWithNothing DEF IInv, TypeOK
  <1>9. Places'
    BY <1>1, <1>8 DEF Places
  <1> QED
    BY <1>5, <1>6, <1>7, <1>9 DEF IInv

\* A disconnecting command leaves everything as it is and closes.
LEMMA ProcessDisconnectsIInv ==
  ASSUME IInv, ProcessDisconnects
  PROVE  IInv'
  <1>1. /\ pc = "process" /\ pc' = "loop" /\ closed' = TRUE
        /\ delivered' = Append(delivered, partial_msg)
        /\ UNCHANGED <<netVars, headVars, payload_buffer, partVars, has_name, name>>
    BY DEF ProcessDisconnects
  <1> USE DEF netVars, headVars, partVars
  <1>2. delivered' \in Seq(Seq(Bytes \cup {LOST}))
    BY <1>1 DEF IInv, TypeOK
  <1>3. TypeOK'
    BY <1>1, <1>2 DEF IInv, TypeOK, PCs
  <1>4. Reads' /\ Blocks'
    BY <1>1 DEF IInv, Reads, Blocks
  <1>5. BuffersFit'
    BY <1>1 DEF IInv, BuffersFit
  <1>6. state' = "READ_PAYLOAD" /\ Disconnected'
    <2>1. state = "READ_PAYLOAD" /\ Len(payload_buffer) = expected_payload_len
      BY <1>1 DEF IInv, Reads, TypeOK
    <2>2. Len(payload_buffer) \in Nat /\ Remaining' = expected_payload_len - Len(payload_buffer)
      BY <1>1 DEF IInv, TypeOK, Remaining
    <2> QED
      BY <1>1, <2>1, <2>2 DEF Disconnected
  <1>7. Places'
    BY <1>1, <1>6 DEF Places
  <1> QED
    BY <1>3, <1>4, <1>5, <1>7 DEF IInv

LEMMA ProcessCrashesIInv ==
  ASSUME IInv, ProcessCrashes
  PROVE  IInv' /\ failed'
  <1>1. /\ pc = "process" /\ pc' = "crashed" /\ block = 0
        /\ UNCHANGED <<netVars, headVars, payload_buffer, partVars, nameVars>>
    BY DEF ProcessCrashes, Readable
  <1> USE DEF netVars, headVars, partVars, nameVars
  <1>2. TypeOK'
    BY <1>1 DEF IInv, TypeOK, PCs
  <1>3. Reads' /\ Blocks'
    BY <1>1 DEF IInv, Reads, Blocks
  <1>4. BuffersFit' /\ failed'
    BY <1>1 DEF IInv, BuffersFit
  <1> QED
    BY <1>2, <1>3, <1>4 DEF IInv

LEMMA NextIInv ==
  ASSUME IInv, [Next]_vars
  PROVE  IInv'
  <1>1. CASE Next
    BY <1>1, PeerIInv, EpollInIInv, HangupIInv, ReadHeaderPartIInv, ReadHeaderIInv,
       ReadPayloadIInv, ReadNothingIInv, DoubleIInv, ReallocIInv, CopyIInv,
       FrameEndIInv, ProcessIInv, ProcessDisconnectsIInv, ProcessCrashesIInv
       DEF Next, handle_client_read
  <1>2. CASE UNCHANGED vars
    BY <1>2 DEF vars, netVars, headVars, partVars, nameVars, IInv, TypeOK, Reads, Blocks,
                BuffersFit, Places, Needed, Disconnected, Remaining
  <1> QED
    BY <1>1, <1>2

LEMMA AlwaysIInv == Spec => []IInv
  BY InitIInv, NextIInv, PTL DEF Spec

\* Type correctness of the reading side of client_info.
THEOREM TypeCorrect == Spec => []TypeOK
  <1>1. IInv => TypeOK
    BY DEF IInv
  <1> QED
    BY <1>1, AlwaysIInv, PTL

\* Whatever bytes a peer sends and however they arrive, handle_client_read,
\* append_to_client_buffer and store_client_name stay inside header_buffer,
\* payload_buffer, the heap block of partial_msg and the name, and partial_msg
\* is NULL only after a failed realloc.
THEOREM BuffersSound == Spec => []BuffersFit
  <1>1. IInv => BuffersFit
    BY DEF IInv
  <1> QED
    BY <1>1, AlwaysIInv, PTL

-----------------------------------------------------------------------------
(* The refinement of Decoder.                                              *)

Begin == Len(consumed) - InProgress

\* While a payload is read, the decoder's frame is the one whose header was
\* read last.
LEMMA HeaderInProgress ==
  ASSUME IInv, ~failed, state = "READ_PAYLOAD", ~Disconnected
  PROVE  /\ Begin \in Nat
         /\ Begin + HeaderLen <= Len(consumed)
         /\ Begin + HeaderLen + Len(payload_buffer) = Len(consumed)
         /\ MsgLen(HeaderAt(consumed, Begin)) = expected_payload_len
         /\ MsgDone(HeaderAt(consumed, Begin)) <=> msg_done
         /\ EndAt(consumed, Begin) = Begin + HeaderLen + expected_payload_len
  <1> DEFINE h == Len(consumed) - Len(payload_buffer) - HeaderLen
  <1>1. /\ h >= 0
        /\ expected_payload_len = consumed[h + 1] * Base + consumed[h + 2]
        /\ msg_done <=> consumed[h + 3] # 0
    BY DEF IInv, Places
  <1>2. /\ consumed \in Seq(Bytes) /\ payload_buffer \in Seq(Bytes)
        /\ Len(consumed) \in Nat /\ Len(payload_buffer) \in Nat
    BY DEF IInv, TypeOK
  <1>3. Begin = h /\ h \in Nat /\ h + HeaderLen <= Len(consumed)
        /\ h + HeaderLen + Len(payload_buffer) = Len(consumed)
    BY <1>1, <1>2 DEF Begin, InProgress, HeaderLen
  <1> HIDE DEF h
  <1>4. /\ MsgLen(HeaderAt(consumed, h)) = consumed[h + 1] * Base + consumed[h + 2]
        /\ MsgDone(HeaderAt(consumed, h)) <=> consumed[h + 3] # 0
        /\ EndAt(consumed, h) = h + HeaderLen + MsgLen(HeaderAt(consumed, h))
    BY <1>2, <1>3, HeaderThere
  <1> QED
    BY <1>1, <1>3, <1>4

\* Before the test of msg_done a whole frame is there, and partial_msg is what
\* the message held before, followed by the frame's payload.
LEMMA FrameComplete ==
  ASSUME IInv, ~failed, pc = "process"
  PROVE  /\ WholeAt(consumed, Begin)
         /\ EndAt(consumed, Begin) = Len(consumed)
         /\ MsgDone(HeaderAt(consumed, Begin)) <=> msg_done
         /\ Earlier \o PayloadAt(consumed, Begin) = partial_msg
  <1>1. /\ state = "READ_PAYLOAD" /\ ~Disconnected
        /\ Len(payload_buffer) = expected_payload_len
        /\ expected_payload_len <= BUF_SIZE
    BY DEF IInv, TypeOK, Reads, Disconnected
  <1>2. /\ Begin \in Nat
        /\ Begin + HeaderLen <= Len(consumed)
        /\ Begin + HeaderLen + Len(payload_buffer) = Len(consumed)
        /\ MsgLen(HeaderAt(consumed, Begin)) = expected_payload_len
        /\ MsgDone(HeaderAt(consumed, Begin)) <=> msg_done
        /\ EndAt(consumed, Begin) = Begin + HeaderLen + expected_payload_len
    BY <1>1, HeaderInProgress
  <1>3. /\ consumed \in Seq(Bytes) /\ payload_buffer \in Seq(Bytes)
        /\ Len(consumed) \in Nat /\ Len(payload_buffer) \in Nat
    BY DEF IInv, TypeOK
  <1>4. EndAt(consumed, Begin) = Len(consumed)
    BY <1>1, <1>2
  <1>5. WholeAt(consumed, Begin)
    <2>1. EndAt(consumed, Begin) <= Len(consumed)
      BY <1>3, <1>4
    <2> QED
      BY <1>1, <1>2, <2>1 DEF WholeAt
  <1>6. PayloadAt(consumed, Begin) = payload_buffer
    <2>1. PayloadAt(consumed, Begin) =
            SubSeq(consumed, Begin + HeaderLen + 1, Len(consumed))
      BY <1>4 DEF PayloadAt
    <2>2. Begin + HeaderLen + 1 = Len(consumed) - Len(payload_buffer) + 1
      BY <1>2, <1>3 DEF HeaderLen
    <2>3. EndsWith(consumed, payload_buffer)
      BY <1>1 DEF IInv, Places
    <2> QED
      BY <1>3, <2>1, <2>2, <2>3, EndsWithParts
  <1>7. Earlier = SubSeq(partial_msg, 1, Len(partial_msg) - Len(payload_buffer))
    BY <1>1 DEF Earlier
  <1>8. Earlier \o payload_buffer = partial_msg
    <2>1. /\ partial_msg \in Seq(Bytes \cup {LOST})
          /\ payload_buffer \in Seq(Bytes \cup {LOST})
      <3>1. Bytes \subseteq Bytes \cup {LOST}
        OBVIOUS
      <3> QED
        BY <3>1, SeqMonotonic DEF IInv, TypeOK
    <2>2. EndsWith(partial_msg, payload_buffer)
      BY DEF IInv, Places
    <2> QED
      BY <1>7, <2>1, <2>2, EndsWithParts
  <1> QED
    BY <1>2, <1>4, <1>5, <1>6, <1>8

\* Outside handle_client_read no whole frame is in the buffers: a header is
\* incomplete or announces too much, or a payload is incomplete.
LEMMA NoFrameThere ==
  ASSUME IInv, pc = "loop", ~failed
  PROVE  Begin \in 0..Len(consumed) /\ ~WholeAt(consumed, Begin)
  <1>1. /\ consumed \in Seq(Bytes) /\ header_buffer \in Seq(Bytes)
        /\ Len(consumed) \in Nat /\ Len(header_buffer) \in Nat
        /\ Len(payload_buffer) \in Nat /\ expected_payload_len \in Nat
    BY DEF IInv, TypeOK
  <1>2. CASE state = "READ_HEADER"
    <2>1. PICK b \in Nat : b = Begin /\ b + Len(header_buffer) = Len(consumed)
      <3>1. Len(header_buffer) <= Len(consumed)
        BY <1>2 DEF IInv, Places, EndsWith
      <3> QED
        BY <1>1, <1>2, <3>1 DEF Begin, InProgress
    <2>2. CASE Len(header_buffer) < HeaderLen
      <3>1. ~(b + HeaderLen <= Len(consumed)) /\ b \in 0..Len(consumed)
        BY <1>1, <2>1, <2>2 DEF HeaderLen
      <3> QED
        BY <2>1, <3>1 DEF WholeAt
    <2>3. CASE Len(header_buffer) = HeaderLen
      <3>1. MsgLen(header_buffer) > BUF_SIZE
        BY <1>2, <2>3 DEF IInv, Reads
      <3>2. HeaderAt(consumed, b) = header_buffer
        <4>1. b + 1 = Len(consumed) - Len(header_buffer) + 1 /\ b + HeaderLen = Len(consumed)
          BY <1>1, <2>1, <2>3 DEF HeaderLen
        <4>2. EndsWith(consumed, header_buffer)
          BY <1>2 DEF IInv, Places
        <4> QED
          BY <1>1, <4>1, <4>2, EndsWithParts DEF HeaderAt
      <3>3. ~(MsgLen(header_buffer) <= BUF_SIZE)
        <4>1. MsgLen(header_buffer) \in Nat
          <5>1. b + HeaderLen <= Len(consumed)
            BY <1>1, <2>1, <2>3
          <5> QED
            BY <1>1, <3>2, <5>1, HeaderThere
        <4> QED
          BY <3>1, <4>1, ReadAssumption
      <3>4. b \in 0..Len(consumed)
        BY <1>1, <2>1
      <3> QED
        BY <2>1, <3>2, <3>3, <3>4 DEF WholeAt
    <2>4. Len(header_buffer) < HeaderLen \/ Len(header_buffer) = HeaderLen
      <3>1. PICK k \in Nat : k = Len(header_buffer)
        BY <1>1
      <3>2. k <= 3
        BY <1>2, <3>1 DEF IInv, Reads, HeaderLen
      <3> QED
        BY <3>1, <3>2 DEF HeaderLen
    <2> QED
      BY <2>2, <2>3, <2>4
  <1>3. CASE state = "READ_PAYLOAD" /\ Disconnected
    <2>1. Begin = Len(consumed)
      BY <1>1, <1>3 DEF Begin, InProgress
    <2>2. ~(Begin + HeaderLen <= Len(consumed)) /\ Begin \in 0..Len(consumed)
      BY <1>1, <2>1 DEF HeaderLen
    <2> QED
      BY <2>2 DEF WholeAt
  <1>4. CASE state = "READ_PAYLOAD" /\ ~Disconnected
    <2>1. Len(payload_buffer) < expected_payload_len
      BY <1>1, <1>4 DEF IInv, Reads, Disconnected, Remaining
    <2>2. /\ Begin \in Nat
          /\ Begin + HeaderLen + Len(payload_buffer) = Len(consumed)
          /\ EndAt(consumed, Begin) = Begin + HeaderLen + expected_payload_len
      BY <1>4, HeaderInProgress
    <2>3. ~(EndAt(consumed, Begin) <= Len(consumed)) /\ Begin \in 0..Len(consumed)
      BY <1>1, <2>1, <2>2 DEF HeaderLen
    <2> QED
      BY <2>3 DEF WholeAt
  <1> QED
    BY <1>2, <1>3, <1>4 DEF IInv, TypeOK

\* The decoder's frames are those of the stream.
LEMMA SameFrames ==
  /\ \A s, p : /\ Frame!HeaderAt(s, p) = HeaderAt(s, p)
               /\ Frame!EndAt(s, p) = EndAt(s, p)
               /\ Frame!PayloadAt(s, p) = PayloadAt(s, p)
               /\ Frame!WholeAt(s, p) <=> WholeAt(s, p)
  /\ \A h : Frame!MsgDone(h) <=> MsgDone(h)
  BY DEF Frame!HeaderAt, Frame!EndAt, Frame!PayloadAt, Frame!WholeAt, Frame!MsgDone,
         Frame!MsgLen, Frame!HeaderLen, HeaderAt, EndAt, PayloadAt, WholeAt, MsgDone,
         MsgLen, HeaderLen

\* The server does not go back to epoll_wait with a whole frame in its buffers:
\* nothing waits for an event that may never come.
THEOREM NothingWaits == Spec => []NothingLeft
  <1>1. IInv => NothingLeft
    BY NoFrameThere, SameFrames DEF NothingLeft, Frame!FrameThere, Begin
  <1> QED
    BY <1>1, AlwaysIInv, PTL

\* A read adds bytes to the stream and nothing else.
LEMMA ReadArrives ==
  ASSUME NEW g \in Seq(Bytes), consumed \in Seq(Bytes), consumed' = consumed \o g,
         Begin' = Begin, Earlier' = Earlier, delivered' = delivered, failed' = failed
  PROVE  Frame!Arrive
  <1>1. Len(consumed) \in Nat /\ Len(g) \in Nat
    OBVIOUS
  <1>2. /\ Len(consumed') = Len(consumed) + Len(g)
        /\ consumed = SubSeq(consumed', 1, Len(consumed))
    <2>1. /\ consumed' \in Seq(Bytes) /\ Len(consumed') = Len(consumed) + Len(g)
          /\ \A i \in 1..Len(consumed) : consumed'[i] = consumed[i]
      BY ConcatElements
    <2> DEFINE k == Len(consumed)
               p == SubSeq(consumed', 1, k)
    <2>2. k \in Nat /\ k <= Len(consumed')
      BY <1>1, <2>1
    <2>3. p \in Seq(Bytes) /\ Len(p) = k /\ \A i \in 1..k : p[i] = consumed'[i]
      <3> HIDE DEF k
      <3>1. /\ SubSeq(consumed', 0 + 1, k) \in Seq(Bytes)
            /\ Len(SubSeq(consumed', 0 + 1, k)) = k - 0
            /\ \A i \in 1..(k - 0) : SubSeq(consumed', 0 + 1, k)[i] = consumed'[0 + i]
        BY <2>1, <2>2, SubSeqElements
      <3> QED
        BY <2>2, <3>1
    <2> HIDE DEF p
    <2>4. p = consumed
      BY <2>1, <2>3, SeqEqual
    <2> QED
      BY <2>1, <2>4 DEF p
  <1>3. Len(consumed) \in 0..Len(consumed')
    BY <1>1, <1>2
  <1> QED
    BY <1>2, <1>3 DEF Frame!Arrive, Begin

\* Every step of the server is a step of the decoder or changes nothing of it.
LEMMA StepRefines ==
  ASSUME IInv, IInv', [Next]_vars
  PROVE  [Frame!Next]_(Frame!vars)
  <1> SUFFICES ASSUME ~failed' PROVE Frame!Next \/ UNCHANGED Frame!vars
    BY DEF Frame!Next
  <1> DEFINE Same == UNCHANGED <<consumed, Begin, Earlier, delivered, failed>>
  <1>0. Same => UNCHANGED Frame!vars
    BY DEF Frame!vars, Begin
  <1>a. ~failed
    BY DEF Next, Peer, PeerSend, PeerEnds, EpollIn, Hangup, handle_client_read, ReadHeaderPart,
           ReadHeader, ReadPayload, ReadNothing, Double, Realloc, Copy, FrameEnd, Process,
           ProcessDisconnects, ProcessCrashes, clear_client_buffer, partVars, vars
  <1>b. /\ pc # "loop" => ~Disconnected
        /\ pc' # "loop" => ~Disconnected'
    BY DEF IInv, Reads, Disconnected
  <1> USE <1>a DEF netVars, headVars, partVars, nameVars
  <1>1. CASE Peer
    <2>1. UNCHANGED <<consumed, pc, headVars, payload_buffer, partVars, nameVars>>
      BY <1>1 DEF Peer, PeerSend, PeerEnds
    <2>2. Same
      BY <2>1 DEF Begin, InProgress, Earlier, Disconnected, Remaining
    <2> QED
      BY <1>0, <2>2
  <1>2. CASE EpollIn
    <2>1. /\ pc = "loop" /\ ~closed /\ pc' = "read"
          /\ UNCHANGED <<netVars, headVars, payload_buffer, partVars, nameVars>>
      BY <1>2 DEF EpollIn
    <2>2. ~Disconnected /\ ~Disconnected'
      BY <2>1 DEF IInv, Reads, Disconnected, Remaining, TypeOK
    <2>3. Same
      BY <2>1, <2>2 DEF Begin, InProgress, Earlier
    <2> QED
      BY <1>0, <2>3
  <1>3. CASE Hangup
    <2>1. /\ pc = "loop" /\ ~closed
          /\ UNCHANGED <<netVars, pc, headVars, payload_buffer, partVars, has_name, name,
                         delivered>>
      BY <1>3 DEF Hangup
    <2>2. ~Disconnected /\ ~Disconnected'
      BY <2>1 DEF IInv, Reads, Disconnected, Remaining, TypeOK
    <2>3. Same
      BY <2>1, <2>2 DEF Begin, InProgress, Earlier
    <2> QED
      BY <1>0, <2>3
  <1>4. CASE ReadHeaderPart
    <2> DEFINE g == Got(HeaderWanted)
    <2>1. /\ pc = "read" /\ pc' = "loop" /\ state = "READ_HEADER" /\ state' = state
          /\ Read(HeaderWanted) /\ header_buffer' = header_buffer \o g
          /\ UNCHANGED <<partVars, nameVars>>
      BY <1>4 DEF ReadHeaderPart, NewHeader
    <2>2. HeaderWanted \in Nat
      BY <2>1 DEF IInv, TypeOK, Reads, HeaderWanted, HeaderLen
    <2>3. g \in Seq(Bytes) /\ consumed' = consumed \o g
      BY <2>1, <2>2, GotBytes DEF IInv, TypeOK, Read
    <2> HIDE DEF g
    <2>4. consumed \in Seq(Bytes) /\ header_buffer \in Seq(Bytes)
      BY DEF IInv, TypeOK
    <2>5. /\ Len(consumed') = Len(consumed) + Len(g)
          /\ Len(header_buffer') = Len(header_buffer) + Len(g)
      BY <2>1, <2>3, <2>4, ConcatElements
    <2>6. Begin' = Begin
      BY <2>1, <2>3, <2>4, <2>5 DEF Begin, InProgress
    <2>7. Earlier' = Earlier
      BY <2>1 DEF Earlier, Disconnected
    <2> QED
      BY <2>1, <2>3, <2>4, <2>6, <2>7, ReadArrives DEF Frame!Next
  <1>5. CASE ReadHeader
    <2> DEFINE g == Got(HeaderWanted)
    <2>1. /\ pc = "read" /\ state = "READ_HEADER"
          /\ Read(HeaderWanted) /\ Len(NewHeader) = HeaderLen
          /\ UNCHANGED <<partVars, delivered>>
          /\ NewHeader = header_buffer \o g
      BY <1>5 DEF ReadHeader, NewHeader
    <2>2. HeaderWanted \in Nat
      BY <2>1 DEF IInv, TypeOK, Reads, HeaderWanted, HeaderLen
    <2>3. g \in Seq(Bytes) /\ consumed' = consumed \o g
      BY <2>1, <2>2, GotBytes DEF IInv, TypeOK, Read
    <2> HIDE DEF g
    <2>4. consumed \in Seq(Bytes) /\ header_buffer \in Seq(Bytes)
      BY DEF IInv, TypeOK
    <2>5. /\ Len(consumed') = Len(consumed) + Len(g)
          /\ HeaderLen = Len(header_buffer) + Len(g)
      BY <2>1, <2>3, <2>4, ConcatElements
    <2>6. InProgress' = HeaderLen /\ Earlier' = partial_msg
      <3>1. CASE MsgLen(NewHeader) > BUF_SIZE
        <4>1. pc' = "loop" /\ header_buffer' = NewHeader /\ state' = state
          BY <1>5, <3>1 DEF ReadHeader
        <4> QED
          BY <2>1, <4>1 DEF InProgress, Earlier, Disconnected
      <3>2. CASE ~(MsgLen(NewHeader) > BUF_SIZE)
        <4>1. pc' = "read" /\ state' = "READ_PAYLOAD" /\ payload_buffer' = << >>
          BY <1>5, <2>1, <3>2 DEF ReadHeader
        <4>2. Len(payload_buffer') = 0
          BY <4>1
        <4> QED
          BY <1>b, <2>1, <4>1, <4>2 DEF InProgress, Earlier, HeaderLen
      <3> QED
        BY <3>1, <3>2
    <2>7. Begin' = Begin
      <3>1. InProgress = Len(header_buffer)
        BY <2>1 DEF InProgress
      <3>2. Len(consumed) \in Nat /\ Len(header_buffer) \in Nat /\ Len(g) \in Nat
        BY <2>3, <2>4
      <3>3. Len(consumed') - HeaderLen = Len(consumed) - Len(header_buffer)
        BY <2>5, <3>2
      <3> QED
        BY <2>6, <3>1, <3>3 DEF Begin
    <2>8. Earlier' = Earlier
      BY <2>1, <2>6 DEF Earlier, Disconnected
    <2> QED
      BY <2>1, <2>3, <2>4, <2>7, <2>8, ReadArrives DEF Frame!Next
  <1>6. CASE ReadPayload
    <2> DEFINE g == Got(Remaining)
    <2>1. /\ pc = "read" /\ state = "READ_PAYLOAD" /\ state' = state
          /\ Read(Remaining) /\ payload_buffer' = payload_buffer \o g
          /\ pc' = IF Len(payload_buffer') < expected_payload_len THEN "loop" ELSE "append"
          /\ UNCHANGED <<expected_payload_len, partVars, nameVars>>
      BY <1>6 DEF ReadPayload, PayloadShort
    <2>2. Remaining \in Nat
      BY <2>1 DEF IInv, TypeOK, Reads, Remaining
    <2>3. g \in Seq(Bytes) /\ consumed' = consumed \o g
      BY <2>1, <2>2, GotBytes DEF IInv, TypeOK, Read
    <2> HIDE DEF g
    <2>4. consumed \in Seq(Bytes) /\ payload_buffer \in Seq(Bytes)
      BY DEF IInv, TypeOK
    <2>5. /\ Len(consumed') = Len(consumed) + Len(g)
          /\ Len(payload_buffer') = Len(payload_buffer) + Len(g)
          /\ Len(payload_buffer') \in Nat
      BY <2>1, <2>3, <2>4, ConcatElements
    <2>6. ~Disconnected /\ ~Disconnected'
      <3>1. expected_payload_len \in Nat
        BY DEF IInv, TypeOK
      <3>2. pc' = "loop" => expected_payload_len - Len(payload_buffer') # 0
        BY <2>1, <2>5, <3>1
      <3> QED
        BY <1>b, <2>1, <3>2 DEF Disconnected, Remaining
    <2>7. Begin' = Begin
      BY <2>1, <2>3, <2>4, <2>5, <2>6 DEF Begin, InProgress, HeaderLen
    <2>8. Earlier' = Earlier
      BY <2>1, <2>6 DEF Earlier
    <2> QED
      BY <2>1, <2>3, <2>4, <2>7, <2>8, ReadArrives DEF Frame!Next
  <1>7. CASE ReadNothing
    <2>1. /\ pc = "read" /\ pc' = "loop"
          /\ state = "READ_HEADER" \/ Remaining > 0
          /\ UNCHANGED <<netVars, headVars, payload_buffer, partVars, has_name, name,
                         delivered>>
      BY <1>7 DEF ReadNothing
    <2>2. ~Disconnected /\ ~Disconnected'
      BY <2>1 DEF IInv, TypeOK, Disconnected, Remaining
    <2>3. Same
      BY <2>1, <2>2 DEF Begin, InProgress, Earlier
    <2> QED
      BY <1>0, <2>3
  <1>8. CASE Double
    <2>1. /\ pc \in {"append", "grow"} /\ pc' = "grow"
          /\ UNCHANGED <<netVars, headVars, payload_buffer, partial_msg, failed, nameVars>>
      BY <1>8 DEF Double
    <2>2. Same
      BY <1>b, <2>1 DEF Begin, InProgress, Earlier
    <2> QED
      BY <1>0, <2>2
  <1>9. CASE Realloc
    <2>1. /\ pc = "grow" /\ pc' = "copy"
          /\ UNCHANGED <<netVars, headVars, payload_buffer, partial_msg, failed, nameVars>>
      BY <1>9 DEF Realloc
    <2>2. Same
      BY <1>b, <2>1 DEF Begin, InProgress, Earlier
    <2> QED
      BY <1>0, <2>2
  <1>10. CASE Copy
    <2>1. block # 0
      BY DEF IInv, BuffersFit
    <2>2. /\ pc \in {"append", "copy"} /\ pc' = "process"
          /\ partial_msg' = partial_msg \o payload_buffer
          /\ UNCHANGED <<netVars, headVars, payload_buffer, failed, nameVars>>
      BY <1>10, <2>1 DEF Copy
    <2>3. Begin' = Begin
      BY <1>b, <2>2 DEF Begin, InProgress
    <2>4. Earlier = partial_msg
      BY <1>b, <2>2 DEF Earlier
    <2>5. /\ partial_msg \in Seq(Bytes \cup {LOST})
          /\ payload_buffer \in Seq(Bytes \cup {LOST})
      <3>1. Bytes \subseteq Bytes \cup {LOST}
        OBVIOUS
      <3> QED
        BY <3>1, SeqMonotonic DEF IInv, TypeOK
    <2>6. /\ partial_msg' \in Seq(Bytes \cup {LOST})
          /\ Len(partial_msg') = Len(partial_msg) + Len(payload_buffer)
      BY <2>2, <2>5, ConcatElements
    <2>7. Earlier' = SubSeq(partial_msg', 1, Len(partial_msg))
      <3>1. Len(partial_msg') - Len(payload_buffer') = Len(partial_msg)
        BY <2>2, <2>5, <2>6
      <3> QED
        BY <1>b, <2>2, <3>1 DEF Earlier
    <2>8. SubSeq(partial_msg \o payload_buffer, 1, Len(partial_msg)) = partial_msg
      BY <2>5, SubSeqOfConcat1, SubSeqFull
    <2>9. Same
      BY <2>2, <2>3, <2>4, <2>7, <2>8
    <2> QED
      BY <1>0, <2>9
  <1>11. CASE FrameEnd
    <2>1. /\ pc = "process" /\ ~msg_done
          /\ pc' = "read" /\ state' = "READ_HEADER" /\ header_buffer' = << >>
          /\ UNCHANGED <<netVars, partVars, nameVars>>
      BY <1>11 DEF FrameEnd, NextFrame
    <2>2. Begin' = Len(consumed)
      <3>1. Len(header_buffer') = 0 /\ Len(consumed) \in Nat
        BY <2>1 DEF IInv, TypeOK
      <3> QED
        BY <2>1, <3>1 DEF Begin, InProgress
    <2>3. Earlier' = partial_msg
      BY <2>1 DEF Earlier, Disconnected
    <2>4. Frame!TakeFrame
      BY <2>1, <2>2, <2>3, FrameComplete, SameFrames DEF Frame!TakeFrame, Frame!FrameThere, Begin
    <2> QED
      BY <2>4 DEF Frame!Next
  <1>12. CASE Process
    <2>1. /\ pc = "process" /\ msg_done
          /\ pc' = "read" /\ state' = "READ_HEADER" /\ header_buffer' = << >>
          /\ partial_msg' = << >> /\ delivered' = Append(delivered, partial_msg)
          /\ UNCHANGED <<netVars, failed>>
      BY <1>12 DEF Process, NextFrame, clear_client_buffer, Cleared
    <2>2. Begin' = Len(consumed)
      <3>1. Len(header_buffer') = 0 /\ Len(consumed) \in Nat
        BY <2>1 DEF IInv, TypeOK
      <3> QED
        BY <2>1, <3>1 DEF Begin, InProgress
    <2>3. Earlier' = << >>
      BY <2>1 DEF Earlier, Disconnected
    <2>4. Frame!TakeFrame
      BY <2>1, <2>2, <2>3, FrameComplete, SameFrames DEF Frame!TakeFrame, Frame!FrameThere, Begin
    <2> QED
      BY <2>4 DEF Frame!Next
  <1>13. CASE ProcessDisconnects
    <2>1. /\ pc = "process" /\ msg_done /\ pc' = "loop" /\ closed'
          /\ delivered' = Append(delivered, partial_msg)
          /\ UNCHANGED <<netVars, headVars, payload_buffer, partVars, has_name, name>>
      BY <1>13 DEF ProcessDisconnects
    <2>2. state' = "READ_PAYLOAD" /\ Disconnected'
      <3>1. state = "READ_PAYLOAD" /\ Len(payload_buffer) = expected_payload_len
            /\ expected_payload_len \in Nat
        BY <2>1 DEF IInv, Reads, TypeOK
      <3> QED
        BY <2>1, <3>1 DEF Disconnected, Remaining
    <2>3. Begin' = Len(consumed)
      <3>1. Len(consumed) \in Nat
        BY DEF IInv, TypeOK
      <3> QED
        BY <2>1, <2>2, <3>1 DEF Begin, InProgress
    <2>4. Earlier' = << >>
      BY <2>2 DEF Earlier
    <2>5. Frame!TakeFrame
      BY <2>1, <2>3, <2>4, FrameComplete, SameFrames DEF Frame!TakeFrame, Frame!FrameThere, Begin
    <2> QED
      BY <2>5 DEF Frame!Next
  <1>14. CASE ProcessCrashes
    BY <1>14, ProcessCrashesIInv
  <1>15. CASE UNCHANGED vars
    <2>1. Same
      BY <1>15 DEF vars, Begin, InProgress, Earlier, Disconnected, Remaining
    <2> QED
      BY <1>0, <2>1
  <1> QED
    BY <1>1, <1>2, <1>3, <1>4, <1>5, <1>6, <1>7, <1>8, <1>9, <1>10, <1>11, <1>12, <1>13,
       <1>14, <1>15 DEF Next, handle_client_read

\* handle_client_read with its buffers implements the decoder: however the
\* stream is cut into reads, its frames are taken whole, in order and once,
\* and each message delivered is the payloads up to a frame with msg_done.
THEOREM RefinesDecoder == Spec => ImplementsDecoder
  <1>1. Init => Frame!Init
    <2> SUFFICES ASSUME Init PROVE Frame!Init
      OBVIOUS
    <2>1. Begin = 0
      BY DEF Init, Begin, InProgress
    <2>2. Earlier = << >>
      BY DEF Init, Earlier, Disconnected
    <2> QED
      BY <2>1, <2>2 DEF Init, Frame!Init, Begin
  <1>2. IInv /\ IInv' /\ [Next]_vars => [Frame!Next]_(Frame!vars)
    BY StepRefines
  <1> QED
    BY <1>1, <1>2, AlwaysIInv, PTL DEF Spec, ImplementsDecoder, Frame!Spec

-----------------------------------------------------------------------------
(* What the decoder has delivered is what the stream decodes to.           *)

\* The reference decoder has come as far as the server has, whatever follows.
Followed ==
  /\ Begin \in Nat /\ delivered \in Messages /\ Earlier \in Seq(Bytes)
  /\ Parsed(consumed, Begin, delivered, Earlier)

LEMMA ArriveFollowed ==
  ASSUME consumed \in Seq(Bytes), consumed' \in Seq(Bytes), Followed, Frame!Arrive
  PROVE  Followed'
  <1>1. /\ Begin' = Begin /\ Earlier' = Earlier /\ delivered' = delivered
        /\ \E n \in 0..Len(consumed') : consumed = SubSeq(consumed', 1, n)
    BY DEF Frame!Arrive, Begin
  <1>2. PICK n \in 0..Len(consumed') : consumed = SubSeq(consumed', 1, n)
    BY <1>1
  <1>3. PICK v \in Seq(Bytes) : consumed' = consumed \o v
    <2>1. Len(consumed') \in Nat /\ n \in Nat /\ n <= Len(consumed')
      OBVIOUS
    <2>2. SubSeq(consumed', n + 1, Len(consumed')) \in Seq(Bytes)
      BY <2>1, SubSeqElements
    <2>3. SubSeq(consumed', 1, n) \o SubSeq(consumed', n + 1, Len(consumed'))
            = SubSeq(consumed', 1, Len(consumed'))
      <3>1. /\ 1 \in 1..Len(consumed') + 1 /\ n \in 1 - 1 .. Len(consumed')
            /\ Len(consumed') \in n .. Len(consumed')
        BY <2>1
      <3> QED
        BY <3>1, ConcatAdjacentSubSeq
    <2>4. SubSeq(consumed', 1, Len(consumed')) = consumed'
      BY SubSeqFull
    <2> QED
      BY <1>2, <2>2, <2>3, <2>4
  <1>4. Parsed(consumed \o v, Begin, delivered, Earlier)
    BY ParsedMore DEF Followed
  <1> QED
    BY <1>1, <1>3, <1>4 DEF Followed

LEMMA TakeFrameFollowed ==
  ASSUME consumed \in Seq(Bytes), Followed, Frame!TakeFrame
  PROVE  Followed'
  <1> DEFINE done == MsgDone(HeaderAt(consumed, Begin))
             m == Earlier \o PayloadAt(consumed, Begin)
  <1>1. /\ WholeAt(consumed, Begin) /\ Begin' = EndAt(consumed, Begin)
        /\ IF done THEN Earlier' = << >> /\ delivered' = Append(delivered, m)
                   ELSE Earlier' = m /\ delivered' = delivered
        /\ consumed' = consumed
    BY SameFrames DEF Frame!TakeFrame, Frame!FrameThere, Begin
  <1>2. Begin \in Nat /\ delivered \in Messages /\ Earlier \in Seq(Bytes)
    BY DEF Followed
  <1>3. EndAt(consumed, Begin) \in Nat /\ m \in Seq(Bytes)
    <2>1. /\ EndAt(consumed, Begin) \in (Begin + 1)..Len(consumed)
          /\ PayloadAt(consumed, Begin) \in Seq(Bytes)
      BY <1>1, <1>2, WholeFrame
    <2>2. Len(consumed) \in Nat
      OBVIOUS
    <2>3. EndAt(consumed, Begin) \in Nat
      BY <1>2, <2>1, <2>2
    <2> QED
      BY <1>2, <2>1, <2>3, ConcatProperties
  <1>4. /\ done => Parsed(consumed, EndAt(consumed, Begin), Append(delivered, m), << >>)
        /\ ~done => Parsed(consumed, EndAt(consumed, Begin), delivered, m)
    BY <1>1, <1>2, ParsedFrame DEF Followed
  <1> HIDE DEF done, m
  <1>5. CASE done
    <2>1. Append(delivered, m) \in Messages
      BY <1>2, <1>3, AppendProperties DEF Messages
    <2>2. /\ Begin' = EndAt(consumed, Begin) /\ Earlier' = << >>
          /\ delivered' = Append(delivered, m) /\ consumed' = consumed
      BY <1>1, <1>5
    <2>3. << >> \in Seq(Bytes)
      OBVIOUS
    <2>4. Parsed(consumed, EndAt(consumed, Begin), Append(delivered, m), << >>)
      BY <1>4, <1>5
    <2> QED
      BY <1>3, <2>1, <2>2, <2>3, <2>4 DEF Followed
  <1>6. CASE ~done
    BY <1>1, <1>2, <1>3, <1>4, <1>6 DEF Followed
  <1> QED
    BY <1>5, <1>6

\* Between two events the server has delivered exactly the messages in the
\* bytes it has read: those of the reference decoder, for every stream, every
\* cut of it into reads, and every size of the buffers.
THEOREM DecodesSound == Spec => []DecodesStream
  <1> DEFINE Inv == ~failed => Followed
  <1>1. Init => Inv
    <2> SUFFICES ASSUME Init PROVE Followed
      OBVIOUS
    <2>1. consumed = << >> /\ delivered = << >>
      BY DEF Init
    <2>2. Begin = 0 /\ Earlier = << >>
      BY DEF Init, Begin, InProgress, Earlier, Disconnected
    <2>3. << >> \in Messages /\ << >> \in Seq(Bytes)
      BY DEF Messages
    <2> QED
      BY <2>1, <2>2, <2>3, ParsedStart DEF Followed
  <1>2. IInv /\ IInv' /\ Inv /\ [Next]_vars => Inv'
    <2> SUFFICES ASSUME IInv, IInv', Inv, [Next]_vars, ~failed' PROVE Followed'
      OBVIOUS
    <2>1. consumed \in Seq(Bytes) /\ consumed' \in Seq(Bytes)
      BY DEF IInv, TypeOK
    <2>2. [Frame!Next]_(Frame!vars)
      BY StepRefines
    <2>3. CASE Frame!Arrive
      BY <2>1, <2>3, ArriveFollowed DEF Frame!Arrive
    <2>4. CASE Frame!TakeFrame
      BY <2>1, <2>4, TakeFrameFollowed DEF Frame!TakeFrame
    <2>5. CASE UNCHANGED Frame!vars
      <3>1. /\ consumed' = consumed /\ Begin' = Begin /\ Earlier' = Earlier
            /\ delivered' = delivered /\ failed' = failed
        BY <2>5 DEF Frame!vars, Begin
      <3> QED
        BY <3>1 DEF Followed
    <2> QED
      BY <2>2, <2>3, <2>4, <2>5 DEF Frame!Next
  <1>3. IInv /\ Inv => DecodesStream
    <2> SUFFICES ASSUME IInv, Followed, pc = "loop", ~failed
                 PROVE  delivered = Decode(consumed)
      BY DEF DecodesStream
    <2>1. consumed \in Seq(Bytes)
      BY DEF IInv, TypeOK
    <2>2. Begin \in 0..Len(consumed) /\ ~WholeAt(consumed, Begin)
      BY NoFrameThere
    <2> QED
      BY <2>1, <2>2, ParsedEnd DEF Followed
  <1> QED
    BY <1>1, <1>2, <1>3, AlwaysIInv, PTL DEF Spec
=============================================================================
