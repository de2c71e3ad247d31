-------------------------- MODULE ClientInputProofs -------------------------
(***************************************************************************)
(* The frames the chat client writes, proved well-formed for every input,  *)
(* every buffer size that a header can express and every way in which      *)
(* read() cuts the input.                                                  *)
(***************************************************************************)
EXTENDS ClientInput, FramesProofs

-----------------------------------------------------------------------------
(* Lemmas on the operators the model is built from.                        *)

\* Quotient and remainder of a number of two digits are its digits.
LEMMA DivMod ==
  ASSUME NEW b \in Nat \ {0, 1}, NEW n \in Nat, n < b * b
  PROVE  /\ n \div b \in 0..(b - 1) /\ n % b \in 0..(b - 1)
         /\ (n \div b) * b + (n % b) = n
  <1>1. n \div b \in Int /\ n % b \in 0..(b - 1)
    OBVIOUS
  <1>2. b * (n \div b) + (n % b) = n
    OBVIOUS
  <1>3. (n \div b) * b = b * (n \div b)
    BY <1>1
  <1>4. n \div b \in Nat
    BY <1>1, <1>2
  <1>5. n \div b < b
    <2> DEFINE q == n \div b
    <2>1. q \in Nat /\ b * q <= n
      BY <1>1, <1>2, <1>4
    <2> HIDE DEF q
    <2>2. ASSUME q >= b PROVE FALSE
      <3>1. b * q >= b * b
        BY <2>1, <2>2
      <3> QED
        BY <2>1, <3>1
    <2> QED
      BY <2>1, <2>2 DEF q
  <1> QED
    BY <1>1, <1>2, <1>3, <1>4, <1>5

\* What ntohl makes of the bytes htonl made of a length.
LEMMA HeaderRoundTrip ==
  ASSUME NEW len \in 0..BUF_SIZE, NEW done \in BOOLEAN
  PROVE  /\ create_header(len, done) \in Seq(Bytes)
         /\ Len(create_header(len, done)) = HeaderLen
         /\ MsgLen(create_header(len, done)) = len
  <1>1. Base \in Nat \ {0, 1} /\ BUF_SIZE \in Nat /\ BUF_SIZE < Base * Base
    BY InputAssumption, FramesAssumption
  <1>2. len \in Nat /\ len < Base * Base
    BY <1>1
  <1>3. /\ len \div Base \in 0..(Base - 1) /\ len % Base \in 0..(Base - 1)
        /\ (len \div Base) * Base + (len % Base) = len
    BY <1>1, <1>2, DivMod
  <1> DEFINE x == len \div Base
             y == len % Base
             z == IF done THEN 1 ELSE 0
  <1>4. x \in Bytes /\ y \in Bytes /\ z \in Bytes /\ x * Base + y = len
    BY <1>1, <1>3 DEF Bytes
  <1>5. create_header(len, done) = <<x, y, z>>
    BY DEF create_header
  <1> HIDE DEF x, y, z
  <1>6. <<x, y, z>> \in Seq(Bytes) /\ Len(<<x, y, z>>) = 3
    BY <1>4
  <1>7. MsgLen(<<x, y, z>>) = len
    BY <1>4 DEF MsgLen
  <1> QED
    BY <1>5, <1>6, <1>7 DEF HeaderLen

\* A first part of a byte sequence.
LEMMA FirstPart ==
  ASSUME NEW s \in Seq(Bytes), NEW n \in 0..Len(s)
  PROVE  SubSeq(s, 1, n) \in Seq(Bytes) /\ Len(SubSeq(s, 1, n)) = n
  <1>1. Len(s) \in Nat /\ n \in Nat /\ n <= Len(s)
    OBVIOUS
  <1>2. \A i \in 1..n : s[i] \in Bytes
    BY <1>1
  <1> QED
    BY <1>1, <1>2, SubSeqProperties

\* And the rest of it.
LEMMA LastPart ==
  ASSUME NEW s \in Seq(Bytes), NEW n \in Nat
  PROVE  SubSeq(s, n + 1, Len(s)) \in Seq(Bytes)
  <1>1. Len(s) \in Nat
    OBVIOUS
  <1>2. \A i \in (n + 1)..Len(s) : s[i] \in Bytes
    BY <1>1
  <1> QED
    BY <1>1, <1>2, SubSeqProperties

-----------------------------------------------------------------------------
(* The inductive invariant: besides the property only types are needed.    *)

IInv ==
  /\ input \in Seq(Bytes) /\ stream \in Seq(Bytes)
  /\ StreamParses

\* What stands where once a frame is written after the bytes before it.
Extended(before, h, body, after) ==
  /\ after \in Seq(Bytes)
  /\ Len(after) = Len(before) + HeaderLen + Len(body)
  /\ SubSeq(after, Len(before) + 1, Len(before) + HeaderLen) = h
  /\ \A p \in 0..Len(before) :
       p + HeaderLen <= Len(before) =>
         SubSeq(after, p + 1, p + HeaderLen) = SubSeq(before, p + 1, p + HeaderLen)

LEMMA FramePlaced ==
  ASSUME NEW before \in Seq(Bytes), NEW h \in Seq(Bytes), Len(h) = HeaderLen,
         NEW body \in Seq(Bytes), NEW after, after = before \o h \o body
  PROVE  Extended(before, h, body, after)
  <1>1. PICK front : front = before \o h
    OBVIOUS
  <1>2. front \in Seq(Bytes) /\ Len(front) = Len(before) + HeaderLen
    BY <1>1, ConcatProperties
  <1>3. after = front \o body
    BY <1>1
  <1>4. after \in Seq(Bytes) /\ Len(after) = Len(before) + HeaderLen + Len(body)
    <2>1. after \in Seq(Bytes) /\ Len(after) = Len(front) + Len(body)
      BY <1>2, <1>3, ConcatProperties
    <2> QED
      BY <1>2, <2>1
  <1>5. Len(before) \in Nat /\ Len(body) \in Nat /\ HeaderLen = 3
    BY DEF HeaderLen
  <1>6. ASSUME NEW p \in 0..Len(before)
        PROVE  SubSeq(after, p + 1, p + HeaderLen) = SubSeq(front, p + 1, p + HeaderLen)
    <2>1. PICK from \in Nat : from = p + 1
      BY <1>5
    <2>2. PICK to \in Nat : to = p + HeaderLen
      BY <1>5
    <2>3. from \in 1..Len(front) /\ to \in 1..Len(front)
      BY <1>2, <1>5, <2>1, <2>2
    <2>4. SubSeq(front \o body, from, to) = SubSeq(front, from, to)
      BY <1>2, <2>3, SubSeqOfConcat1
    <2> QED
      BY <1>3, <2>1, <2>2, <2>4
  <1>7. SubSeq(front, Len(before) + 1, Len(before) + HeaderLen) = h
    <2>1. PICK from \in Nat : from = Len(before) + 1
      BY <1>5
    <2>2. PICK to \in Nat : to = Len(before) + HeaderLen
      BY <1>5
    <2>3. /\ from \in Len(before) + 1 .. Len(before) + Len(h)
          /\ to \in Len(before) + 1 .. Len(before) + Len(h)
          /\ from - Len(before) = 1 /\ to - Len(before) = Len(h)
      BY <1>5, <2>1, <2>2
    <2>4. SubSeq(before \o h, from, to) = SubSeq(h, from - Len(before), to - Len(before))
      BY <2>3, SubSeqOfConcat2
    <2>5. SubSeq(h, 1, Len(h)) = h
      BY SubSeqFull
    <2> QED
      BY <1>1, <2>1, <2>2, <2>3, <2>4, <2>5
  <1>8. ASSUME NEW p \in 0..Len(before), p + HeaderLen <= Len(before)
        PROVE  SubSeq(front, p + 1, p + HeaderLen) = SubSeq(before, p + 1, p + HeaderLen)
    <2>1. PICK from \in Nat : from = p + 1
      BY <1>5
    <2>2. PICK to \in Nat : to = p + HeaderLen
      BY <1>5
    <2>3. from \in 1..Len(before) /\ to \in 1..Len(before)
      BY <1>5, <1>8, <2>1, <2>2
    <2>4. SubSeq(before \o h, from, to) = SubSeq(before, from, to)
      BY <2>3, SubSeqOfConcat1
    <2> QED
      BY <1>1, <2>1, <2>2, <2>4
  <1>9. Len(before) \in 0..Len(before)
    BY <1>5
  <1> QED
    BY <1>4, <1>6, <1>7, <1>8, <1>9 DEF Extended

\* A frame with a true length may be added at the end of the stream.
LEMMA FrameAdded ==
  ASSUME IInv, NEW h \in Seq(Bytes), Len(h) = HeaderLen,
         NEW body \in Seq(Bytes), MsgLen(h) = Len(body), Len(body) <= BUF_SIZE,
         stream' = stream \o h \o body,
         cuts' = cuts \cup {Len(stream')}
  PROVE  stream' \in Seq(Bytes) /\ StreamParses'
  <1>1. /\ stream \in Seq(Bytes) /\ Len(stream) \in Nat /\ Len(body) \in Nat
        /\ BUF_SIZE \in Nat
    BY InputAssumption DEF IInv
  <1>2. PICK after : after = stream'
    OBVIOUS
  <1>3. after = stream \o h \o body
    BY <1>2
  <1>4. Extended(stream, h, body, after)
    BY <1>1, <1>3, FramePlaced
  <1>5. /\ after \in Seq(Bytes)
        /\ Len(after) = Len(stream) + HeaderLen + Len(body)
        /\ SubSeq(after, Len(stream) + 1, Len(stream) + HeaderLen) = h
        /\ \A p \in 0..Len(stream) :
             p + HeaderLen <= Len(stream) =>
               SubSeq(after, p + 1, p + HeaderLen) = SubSeq(stream, p + 1, p + HeaderLen)
    BY <1>4 DEF Extended
  <1>6. /\ 0 \in cuts /\ Len(stream) \in cuts
        /\ \A p \in cuts : p \in 0..Len(stream) /\ Legal(p)
    BY DEF IInv, StreamParses
  <1>7. 0 \in cuts' /\ Len(after) \in cuts'
    BY <1>2, <1>6
  <1>8. ASSUME NEW p \in cuts'
        PROVE  p \in 0..Len(after) /\ Legal(p)'
    <2>1. CASE p = Len(after)
      <3>1. Len(after) \in Nat
        BY <1>5
      <3> QED
        BY <1>2, <2>1, <3>1 DEF Legal
    <2>2. CASE p = Len(stream)
      <3>1. /\ p + HeaderLen <= Len(after) /\ p \in 0..Len(after)
            /\ p + HeaderLen + Len(body) = Len(after)
        BY <1>1, <1>5, <2>2 DEF HeaderLen
      <3>2. SubSeq(after, p + 1, p + HeaderLen) = h
        BY <1>5, <2>2
      <3>3. Legal(p)'
        BY <1>2, <1>7, <3>1, <3>2 DEF Legal
      <3> QED
        BY <3>1, <3>3
    <2>3. CASE p \in cuts /\ p # Len(stream)
      <3>1. p \in 0..Len(stream) /\ Legal(p)
        BY <1>6, <2>3
      <3>2. PICK g : g = SubSeq(stream, p + 1, p + HeaderLen)
        OBVIOUS
      <3>3. /\ p + HeaderLen <= Len(stream) /\ MsgLen(g) <= BUF_SIZE
            /\ p + HeaderLen + MsgLen(g) \in cuts
        BY <2>3, <3>1, <3>2 DEF Legal
      <3>4. SubSeq(after, p + 1, p + HeaderLen) = g
        BY <1>5, <3>1, <3>2, <3>3
      <3>5. p + HeaderLen <= Len(after) /\ p \in 0..Len(after)
        BY <1>1, <1>5, <3>1, <3>3 DEF HeaderLen
      <3>6. p + HeaderLen + MsgLen(g) \in cuts'
        BY <3>3
      <3>7. Legal(p)'
        BY <1>2, <3>3, <3>4, <3>5, <3>6 DEF Legal
      <3> QED
        BY <3>5, <3>7
    <2> QED
      BY <1>2, <2>1, <2>2, <2>3
  <1> QED
    BY <1>2, <1>5, <1>7, <1>8 DEF StreamParses

LEMMA InitIInv == Init => IInv
  <1> SUFFICES ASSUME Init PROVE IInv
    OBVIOUS
  <1>1. input \in Seq(Bytes)
    <2>1. input \in SeqOf(Bytes \ {NUL}, MaxTyped)
      BY DEF Init, Inputs
    <2>2. PICK m \in 0..MaxTyped : input \in [1..m -> Bytes \ {NUL}]
      BY <2>1 DEF SeqOf
    <2>3. m \in Nat /\ input \in [1..m -> Bytes]
      BY <2>2, InputAssumption
    <2> QED
      BY <2>3, SeqDef
  <1>2. stream \in Seq(Bytes) /\ Len(stream) = 0 /\ cuts = {0}
    BY DEF Init
  <1>3. StreamParses
    BY <1>2 DEF StreamParses, Legal
  <1> QED
    BY <1>1, <1>2, <1>3 DEF IInv

\* A chunk that is read is a byte sequence of at most BUF_SIZE bytes.
LEMMA ChunkRead ==
  ASSUME IInv, NEW chunk \in Prefixes(input), Readable(chunk)
  PROVE  /\ chunk \in Seq(Bytes) /\ Len(chunk) \in 1..BUF_SIZE
         /\ SubSeq(input, Len(chunk) + 1, Len(input)) \in Seq(Bytes)
  <1>1. input \in Seq(Bytes)
    BY DEF IInv
  <1>2. PICK l \in 0..Len(input) : chunk = SubSeq(input, 1, l)
    BY DEF Prefixes
  <1>3. chunk \in Seq(Bytes) /\ Len(chunk) \in Nat
    BY <1>1, <1>2, FirstPart
  <1>4. Len(chunk) \in 1..BUF_SIZE
    BY <1>3, EmptySeq, InputAssumption DEF Readable
  <1> QED
    BY <1>1, <1>3, <1>4, LastPart

LEMMA NextIInv ==
  ASSUME IInv, [Next]_vars
  PROVE  IInv'
  <1>1. ASSUME NEW chunk \in Prefixes(input), ReadAndSend(chunk) PROVE IInv'
    <2>1. /\ Readable(chunk) /\ Send(chunk) /\ cuts' = cuts \cup {Len(stream')}
          /\ input' = SubSeq(input, Len(chunk) + 1, Len(input))
      BY <1>1 DEF ReadAndSend
    <2>2. /\ chunk \in Seq(Bytes) /\ Len(chunk) \in 1..BUF_SIZE /\ BUF_SIZE \in Nat
          /\ input' \in Seq(Bytes)
      BY <2>1, ChunkRead, InputAssumption
    <2>3. CASE EndsMessage(chunk)
      <3> DEFINE n == Len(chunk) - 1
                 h == create_header(n, TRUE)
                 body == SubSeq(chunk, 1, n)
      <3>1. n \in 0..BUF_SIZE /\ n \in 0..Len(chunk) /\ TRUE \in BOOLEAN
        BY <2>2
      <3>2. stream' = stream \o h \o body
        BY <2>1, <2>3 DEF Send, SendEnd, EndHeader, Front
      <3> HIDE DEF n
      <3>3. h \in Seq(Bytes) /\ Len(h) = HeaderLen /\ MsgLen(h) = n
        BY <3>1, HeaderRoundTrip
      <3>4. body \in Seq(Bytes) /\ Len(body) = n /\ n <= BUF_SIZE
        BY <2>2, <3>1, FirstPart
      <3> HIDE DEF h, body
      <3>5. stream' \in Seq(Bytes) /\ StreamParses'
        BY <2>1, <3>2, <3>3, <3>4, FrameAdded
      <3> QED
        BY <2>2, <3>5 DEF IInv
    <2>4. CASE ~EndsMessage(chunk)
      <3> DEFINE n == Len(chunk)
                 h == create_header(n, FALSE)
      <3>1. n \in 0..BUF_SIZE /\ n <= BUF_SIZE /\ FALSE \in BOOLEAN
        BY <2>2
      <3>2. stream' = stream \o h \o chunk
        BY <2>1, <2>4 DEF Send, SendPart
      <3>3. h \in Seq(Bytes) /\ Len(h) = HeaderLen /\ MsgLen(h) = n
        <4> HIDE DEF n
        <4> QED
          BY <3>1, HeaderRoundTrip
      <3> HIDE DEF h
      <3>4. stream' \in Seq(Bytes) /\ StreamParses'
        BY <2>1, <2>2, <3>1, <3>2, <3>3, FrameAdded
      <3> QED
        BY <2>2, <3>4 DEF IInv
    <2> QED
      BY <2>3, <2>4
  <1>2. ASSUME NEW chunk \in Prefixes(input), ReadAndSkip(chunk) \/ ReadQuit(chunk)
        PROVE  IInv'
    <2>1. /\ Readable(chunk) /\ input' = SubSeq(input, Len(chunk) + 1, Len(input))
          /\ UNCHANGED <<stream, cuts>>
      BY <1>2 DEF ReadAndSkip, ReadQuit
    <2>2. input' \in Seq(Bytes)
      BY <2>1, ChunkRead
    <2> QED
      BY <2>1, <2>2 DEF IInv, StreamParses, Legal
  <1>3. ASSUME NEW chunk \in Prefixes(input), ReadLoneSlash(chunk)
        PROVE  IInv'
    <2>1. /\ Readable(chunk) /\ chunk = <<Slash>> /\ input' = Tail(input)
          /\ UNCHANGED <<stream, cuts>>
      BY <1>3 DEF ReadLoneSlash
    <2>2. input \in Seq(Bytes) /\ input # << >>
      <3>1. Len(chunk) <= Len(input) /\ Len(chunk) = 1
        BY <2>1 DEF Readable, IsPrefix
      <3> QED
        BY <3>1, EmptySeq DEF IInv
    <2>3. input' \in Seq(Bytes)
      BY <2>1, <2>2, HeadTailProperties
    <2> QED
      BY <2>1, <2>3 DEF IInv, StreamParses, Legal
  <1>4. CASE ReadEnd \/ UNCHANGED vars
    BY <1>4 DEF ReadEnd, vars, IInv, StreamParses, Legal
  <1> QED
    BY <1>1, <1>2, <1>3, <1>4 DEF Next, ReadChunk

\* Whatever is typed or piped in, and wherever the reads of client.c cut it,
\* the client's bytes are frames with true lengths of at most BUF_SIZE.
THEOREM StreamWellFormed == Spec => []StreamParses
  <1>1. IInv => StreamParses
    BY DEF IInv
  <1> QED
    BY <1>1, InitIInv, NextIInv, PTL DEF Spec

-----------------------------------------------------------------------------
(* The lines in what is typed                                              *)

\* The line after the first p bytes ends at the first newline there.
LEMMA LineEndIs ==
  ASSUME NEW s \in Seq(Bytes), NEW p \in Nat, NEW e \in (p + 1)..Len(s),
         s[e] = Newline, \A j \in (p + 1)..(e - 1) : s[j] # Newline
  PROVE  LineEnds(s, p) # {} /\ LineEnd(s, p) = e
  <1>1. e \in LineEnds(s, p)
    BY DEF LineEnds
  <1>2. ASSUME NEW j \in LineEnds(s, p) PROVE e <= j
    BY <1>2 DEF LineEnds
  <1>3. \A j \in LineEnds(s, p) : j \in Int
    BY DEF LineEnds
  <1>4. ASSUME NEW x \in LineEnds(s, p), \A y \in LineEnds(s, p) : x <= y PROVE x = e
    BY <1>1, <1>2, <1>3, <1>4
  <1> QED
    BY <1>1, <1>2, <1>4 DEF LineEnd, Min

\* There is a first newline wherever there is one.
LEMMA FirstLineEnd ==
  ASSUME NEW s \in Seq(Bytes), NEW p \in Nat, LineEnds(s, p) # {}
  PROVE  /\ LineEnd(s, p) \in (p + 1)..Len(s)
         /\ Line(s, p) \in Seq(Bytes)
  <1>1. LineEnds(s, p) \subseteq Nat
    BY DEF LineEnds
  <1>2. PICK e \in LineEnds(s, p) : \A y \in LineEnds(s, p) : ~(<<y, e>> \in OpToRel(<, Nat))
    BY <1>1, NatLessThanWellFounded, WFMin
  <1>3. e \in (p + 1)..Len(s) /\ s[e] = Newline /\ e \in Nat
    BY <1>1 DEF LineEnds
  <1>4. ASSUME NEW j \in (p + 1)..(e - 1) PROVE s[j] # Newline
    <2>1. j \in (p + 1)..Len(s) /\ j \in Nat /\ j < e
      BY <1>3
    <2>2. j \notin LineEnds(s, p)
      BY <1>2, <1>3, <2>1 DEF OpToRel
    <2> QED
      BY <2>1, <2>2 DEF LineEnds
  <1>5. LineEnd(s, p) = e
    BY <1>3, <1>4, LineEndIs
  <1>6. PICK f \in Nat : f = e - 1 /\ p <= f /\ f <= Len(s)
    BY <1>3
  <1>7. SubSeq(s, p + 1, f) \in Seq(Bytes)
    BY <1>6, SubSeqElements
  <1> QED
    BY <1>3, <1>5, <1>6, <1>7 DEF Line

\* The messages once the line after the first p bytes comes before them.
AfterLine(s, p, messages) ==
  (IF Line(s, p) = << >> THEN << >> ELSE <<Line(s, p)>>) \o messages

LEMMA AfterLineType ==
  ASSUME NEW s \in Seq(Bytes), NEW p \in Nat, LineEnds(s, p) # {}, NEW r \in Messages
  PROVE  AfterLine(s, p, r) \in Messages
  <1>1. PICK y \in Seq(Bytes) : y = Line(s, p)
    BY FirstLineEnd
  <1>2. PICK c \in Messages : c = IF y = << >> THEN << >> ELSE <<y>>
    <2>1. << >> \in Seq(Seq(Bytes)) /\ <<y>> \in Seq(Seq(Bytes))
      OBVIOUS
    <2> QED
      BY <2>1 DEF Messages
  <1>3. c \o r \in Messages
    BY ConcatProperties DEF Messages
  <1> QED
    BY <1>1, <1>2, <1>3 DEF AfterLine

\* As for the decoder: the function MessagesFrom is meant to be exists.
LEMMA MessagesFromEquation ==
  ASSUME NEW s \in Seq(Bytes)
  PROVE  MessagesFrom(s) =
           [p \in 0..Len(s) |->
              IF LineEnds(s, p) = {} THEN << >>
              ELSE AfterLine(s, p, MessagesFrom(s)[LineEnd(s, p)])]
  <1> DEFINE n == Len(s)
             Solution(F) ==
               F = [p \in 0..n |->
                      IF LineEnds(s, p) = {} THEN << >>
                      ELSE AfterLine(s, p, F[LineEnd(s, p)])]
             Stop == {p \in 0..n : LineEnds(s, p) = {}}
             nxt == [p \in 0..n |-> LineEnd(s, p)]
             op == [p \in 0..n |-> [r \in Messages |-> AfterLine(s, p, r)]]
  <1>1. n \in Nat /\ << >> \in Messages
    BY DEF Messages
  <1>2. ASSUME NEW p \in (0..n) \ Stop
        PROVE  /\ p \in 0..n /\ LineEnds(s, p) # {} /\ nxt[p] = LineEnd(s, p)
               /\ nxt[p] \in (p + 1)..n
               /\ \A r \in Messages : op[p][r] = AfterLine(s, p, r) /\ op[p][r] \in Messages
    <2>1. p \in Nat /\ p \in 0..n /\ LineEnds(s, p) # {}
      BY <1>1
    <2>2. nxt[p] = LineEnd(s, p) /\ LineEnd(s, p) \in (p + 1)..n
      BY <2>1, FirstLineEnd
    <2>3. \A r \in Messages : AfterLine(s, p, r) \in Messages
      BY <2>1, AfterLineType
    <2>4. \A r \in Messages : op[p][r] = AfterLine(s, p, r)
      BY <2>1
    <2> QED
      BY <2>1, <2>2, <2>3, <2>4
  <1> HIDE DEF nxt, op
  <1>3. PICK F \in [0..n -> Messages] :
          \A p \in 0..n : F[p] = IF p \in Stop THEN << >> ELSE op[p][F[nxt[p]]]
    <2>1. GoesOn(n, Messages, << >>, Stop, nxt, op)
      BY <1>1, <1>2 DEF GoesOn
    <2> HIDE DEF n, Stop
    <2> QED
      BY <2>1, RecursionExists
  <1>4. ASSUME NEW p \in 0..n
        PROVE  F[p] = IF LineEnds(s, p) = {} THEN << >>
                      ELSE AfterLine(s, p, F[LineEnd(s, p)])
    <2>1. CASE p \in Stop
      BY <1>3, <2>1
    <2>2. CASE p \notin Stop
      <3>1. nxt[p] \in 0..n
        BY <1>2, <2>2
      <3>2. F[nxt[p]] \in Messages
        BY <1>3, <3>1
      <3> QED
        BY <1>2, <1>3, <2>2, <3>2
    <2> QED
      BY <2>1, <2>2
  <1>5. Solution(F)
    BY <1>3, <1>4
  <1>6. MessagesFrom(s) = CHOOSE G : Solution(G)
    BY DEF MessagesFrom, AfterLine
  <1> HIDE DEF Solution
  <1>7. Solution(MessagesFrom(s))
    BY <1>5, <1>6
  <1> QED
    BY <1>7 DEF Solution

LEMMA MessagesStep ==
  ASSUME NEW s \in Seq(Bytes), NEW p \in 0..Len(s)
  PROVE  /\ LineEnds(s, p) # {} =>
              MessagesFrom(s)[p] = AfterLine(s, p, MessagesFrom(s)[LineEnd(s, p)])
         /\ LineEnds(s, p) = {} => MessagesFrom(s)[p] = << >>
  <1> DEFINE M == MessagesFrom(s)
  <1>1. M = [q \in 0..Len(s) |->
               IF LineEnds(s, q) = {} THEN << >> ELSE AfterLine(s, q, M[LineEnd(s, q)])]
    BY MessagesFromEquation
  <1> HIDE DEF M
  <1>2. M[p] = IF LineEnds(s, p) = {} THEN << >> ELSE AfterLine(s, p, M[LineEnd(s, p)])
    BY <1>1
  <1> QED
    BY <1>2 DEF M

LEMMA MessagesType ==
  ASSUME NEW s \in Seq(Bytes)
  PROVE  \A p \in 0..Len(s) : MessagesFrom(s)[p] \in Messages
  <1> DEFINE S == {p \in 0..Len(s) : MessagesFrom(s)[p] \in Messages}
  <1>1. ASSUME NEW p \in 0..Len(s), \A k \in (p + 1)..Len(s) : k \in S
        PROVE  p \in S
    <2>1. CASE LineEnds(s, p) = {}
      <3>1. MessagesFrom(s)[p] = << >>
        BY <2>1, MessagesStep
      <3>2. << >> \in Messages
        BY DEF Messages
      <3> QED
        BY <3>1, <3>2
    <2>2. CASE LineEnds(s, p) # {}
      <3>1. p \in Nat /\ Len(s) \in Nat
        OBVIOUS
      <3>2. LineEnd(s, p) \in S
        BY <1>1, <2>2, <3>1, FirstLineEnd
      <3>3. MessagesFrom(s)[LineEnd(s, p)] \in Messages
        BY <3>2
      <3>4. MessagesFrom(s)[p] \in Messages
        BY <2>2, <3>1, <3>3, MessagesStep, AfterLineType
      <3> QED
        BY <3>4
    <2> QED
      BY <2>1, <2>2
  <1> HIDE DEF S
  <1>2. 0..Len(s) \subseteq S
    <2>1. PICK n \in Nat : n = Len(s)
      OBVIOUS
    <2>2. \A p \in 0..n : (\A k \in (p + 1)..n : k \in S) => p \in S
      BY <1>1, <2>1
    <2> QED
      BY <2>1, <2>2, Backwards
  <1> QED
    BY <1>2 DEF S

-----------------------------------------------------------------------------
(* Following the lines while they are read                                 *)

\* No line ends between two places.
Unbroken(s, m, n) == \A j \in (m + 1)..n : s[j] # Newline

\* After the first c bytes of s the lines up to p were sent as d, and what
\* follows p has no newline yet and was sent as q, if it is not empty.
Reading(s, c, p, d, q, filled) ==
  /\ p \in 0..c
  /\ q = SubSeq(s, p + 1, c)
  /\ Unbroken(s, p, c)
  /\ filled <=> p < c
  /\ MessagesIn(s) = d \o MessagesFrom(s)[p]

\* Two adjacent parts of a sequence.
LEMMA Adjacent ==
  ASSUME NEW s \in Seq(Bytes), NEW k \in Nat, NEW m \in Nat, NEW n \in Nat,
         k <= m, m <= n, n <= Len(s)
  PROVE  SubSeq(s, k + 1, m) \o SubSeq(s, m + 1, n) = SubSeq(s, k + 1, n)
  <1> DEFINE a == SubSeq(s, k + 1, m)
             b == SubSeq(s, m + 1, n)
             t == SubSeq(s, k + 1, n)
             w == a \o b
  <1>0. m <= Len(s) /\ k <= n
    OBVIOUS
  <1>1. a \in Seq(Bytes) /\ Len(a) = m - k /\ \A i \in 1..(m - k) : a[i] = s[k + i]
    BY <1>0, SubSeqElements
  <1>2. b \in Seq(Bytes) /\ Len(b) = n - m /\ \A i \in 1..(n - m) : b[i] = s[m + i]
    BY SubSeqElements
  <1>3. t \in Seq(Bytes) /\ Len(t) = n - k /\ \A i \in 1..(n - k) : t[i] = s[k + i]
    BY <1>0, SubSeqElements
  <1> HIDE DEF a, b, t
  <1>4. /\ w \in Seq(Bytes) /\ Len(w) = n - k
        /\ \A i \in 1..Len(a) : w[i] = a[i]
        /\ \A i \in 1..Len(b) : w[Len(a) + i] = b[i]
    <2>1. (m - k) + (n - m) = n - k
      OBVIOUS
    <2> QED
      BY <1>1, <1>2, <2>1, ConcatElements
  <1> HIDE DEF w
  <1>5. ASSUME NEW i \in 1..(n - k) PROVE w[i] = t[i]
    <2>1. CASE i <= m - k
      <3>1. i \in 1..(m - k)
        BY <2>1
      <3> QED
        BY <1>1, <1>3, <1>4, <3>1
    <2>2. CASE i > m - k
      <3>1. PICK j \in 1..(n - m) : i = (m - k) + j /\ m + j = k + i
        <4>1. i - (m - k) \in 1..(n - m)
          BY <2>2
        <4> QED
          BY <4>1
      <3>2. w[(m - k) + j] = b[j]
        BY <1>1, <1>2, <1>4, <3>1
      <3>3. b[j] = s[m + j]
        BY <1>2, <3>1
      <3> QED
        BY <1>3, <3>1, <3>2, <3>3
    <2> QED
      BY <2>1, <2>2
  <1>6. w = t
    BY <1>3, <1>4, <1>5, SeqEqual
  <1> QED
    BY <1>6 DEF a, b, t, w

\* A line goes on.
LEMMA ReadingPart ==
  ASSUME NEW s \in Seq(Bytes), NEW c \in Nat, NEW n \in Nat, c < n, n <= Len(s),
         NEW p, NEW d, NEW q, NEW filled, Reading(s, c, p, d, q, filled),
         Unbroken(s, c, n)
  PROVE  Reading(s, n, p, d, q \o SubSeq(s, c + 1, n), TRUE)
  <1>1. p \in Nat /\ p <= c /\ p <= n /\ p < n /\ c <= n /\ p \in 0..n
    BY DEF Reading
  <1>2. q \o SubSeq(s, c + 1, n) = SubSeq(s, p + 1, n)
    BY <1>1, Adjacent DEF Reading
  <1>3. ASSUME NEW j \in (p + 1)..n PROVE s[j] # Newline
    <2>1. j \in (p + 1)..c \/ j \in (c + 1)..n
      BY <1>1
    <2> QED
      BY <2>1 DEF Reading, Unbroken
  <1> QED
    BY <1>1, <1>2, <1>3 DEF Reading, Unbroken

\* The line that was going on ends.
LEMMA ReadingLine ==
  ASSUME NEW s \in Seq(Bytes), NEW c \in Nat, NEW n \in Nat, c <= n, n + 1 <= Len(s),
         NEW p, NEW d, NEW q, NEW filled, Reading(s, c, p, d, q, filled),
         Unbroken(s, c, n), s[n + 1] = Newline
  PROVE  /\ p \in 0..Len(s) /\ LineEnds(s, p) # {}
         /\ LineEnd(s, p) = n + 1
         /\ Line(s, p) = q \o SubSeq(s, c + 1, n)
         /\ (Line(s, p) = << >> <=> p = n)
  <1>1. p \in Nat /\ p <= c /\ p <= n /\ n <= Len(s) /\ p \in 0..Len(s)
    BY DEF Reading
  <1>2. q \o SubSeq(s, c + 1, n) = SubSeq(s, p + 1, n)
    BY <1>1, Adjacent DEF Reading
  <1>3. ASSUME NEW j \in (p + 1)..n PROVE s[j] # Newline
    <2>1. j \in (p + 1)..c \/ j \in (c + 1)..n
      BY <1>1
    <2> QED
      BY <2>1 DEF Reading, Unbroken
  <1>4. PICK e \in (p + 1)..Len(s) : e = n + 1 /\ e - 1 = n
    <2>1. n + 1 \in (p + 1)..Len(s)
      BY <1>1
    <2> QED
      BY <2>1
  <1>5. LineEnds(s, p) # {} /\ LineEnd(s, p) = e
    BY <1>1, <1>3, <1>4, LineEndIs
  <1>6. Line(s, p) = SubSeq(s, p + 1, n)
    BY <1>4, <1>5 DEF Line
  <1>7. SubSeq(s, p + 1, n) \in Seq(Bytes) /\ Len(SubSeq(s, p + 1, n)) = n - p
    BY <1>1, SubSeqElements
  <1>8. SubSeq(s, p + 1, n) = << >> <=> p = n
    <2>1. n - p = 0 <=> p = n
      BY <1>1
    <2> QED
      BY <1>7, <2>1, EmptySeq
  <1>9. Line(s, p) = q \o SubSeq(s, c + 1, n) /\ (Line(s, p) = << >> <=> p = n)
    BY <1>2, <1>6, <1>8
  <1>10. LineEnds(s, p) # {} /\ LineEnd(s, p) = n + 1
    BY <1>4, <1>5
  <1>11. p \in 0..Len(s)
    BY <1>1
  <1> QED
    BY <1>9, <1>10, <1>11, Zenon

LEMMA ReadingEnd ==
  ASSUME NEW s \in Seq(Bytes), NEW c \in Nat, NEW n \in Nat, c <= n, n + 1 <= Len(s),
         NEW p, NEW d \in Messages, NEW q \in Seq(Bytes), NEW filled,
         Reading(s, c, p, d, q, filled),
         Unbroken(s, c, n), s[n + 1] = Newline
  PROVE  /\ p < n => /\ q \o SubSeq(s, c + 1, n) \in Seq(Bytes)
                     /\ Append(d, q \o SubSeq(s, c + 1, n)) \in Messages
                     /\ Reading(s, n + 1, n + 1, Append(d, q \o SubSeq(s, c + 1, n)), << >>, FALSE)
         /\ p = n => Reading(s, n + 1, n + 1, d, << >>, FALSE)
  <1>1. /\ p \in 0..Len(s) /\ LineEnds(s, p) # {}
        /\ LineEnd(s, p) = n + 1
        /\ Line(s, p) = q \o SubSeq(s, c + 1, n)
        /\ (Line(s, p) = << >> <=> p = n)
    BY ReadingLine
  <1>2. PICK y \in Seq(Bytes) : y = Line(s, p)
    <2>1. p \in Nat
      BY <1>1
    <2> QED
      BY <1>1, <2>1, FirstLineEnd
  <1>3. PICK e \in 0..Len(s) : e = n + 1
    BY <1>1
  <1>4. PICK r \in Messages : r = MessagesFrom(s)[e]
    BY MessagesType
  <1>5. MessagesFrom(s)[p] = AfterLine(s, p, r)
    BY <1>1, <1>3, <1>4, MessagesStep
  <1>6. MessagesIn(s) = d \o AfterLine(s, p, r)
    BY <1>5 DEF Reading
  <1>7. SubSeq(s, e + 1, e) = << >> /\ e \in 0..e /\ Unbroken(s, e, e) /\ ~(e < e)
    BY <1>3 DEF Unbroken
  <1>8. ASSUME NEW f, MessagesIn(s) = f \o r
        PROVE  Reading(s, e, e, f, << >>, FALSE)
    BY <1>4, <1>7, <1>8 DEF Reading
  <1>9. ASSUME p < n
        PROVE  Append(d, y) \in Messages /\ MessagesIn(s) = Append(d, y) \o r
    <2>1. p # n
      BY <1>1, <1>9
    <2>2. AfterLine(s, p, r) = <<y>> \o r
      BY <1>1, <1>2, <2>1 DEF AfterLine
    <2>3. PICK m \in Messages : m = <<y>>
      <3>1. <<y>> \in Seq(Seq(Bytes))
        OBVIOUS
      <3> QED
        BY <3>1 DEF Messages
    <2>4. Append(d, y) = d \o <<y>> /\ Append(d, y) \in Messages
      BY AppendIsConcat, AppendProperties DEF Messages
    <2>5. (d \o m) \o r = d \o (m \o r)
      BY Regrouped
    <2> QED
      BY <1>6, <2>2, <2>3, <2>4, <2>5
  <1>10. ASSUME p = n PROVE MessagesIn(s) = d \o r
    <2>1. AfterLine(s, p, r) = << >> \o r
      BY <1>1, <1>10 DEF AfterLine
    <2>2. << >> \o r = r
      BY ConcatEmptySeq DEF Messages
    <2> QED
      BY <1>6, <2>1, <2>2
  <1> QED
    BY <1>1, <1>2, <1>3, <1>8, <1>9, <1>10

\* All is read, and the last line was complete.
LEMMA ReadingDone ==
  ASSUME NEW s \in Seq(Bytes), s = << >> \/ s[Len(s)] = Newline,
         NEW p, NEW d \in Messages, NEW q, NEW filled,
         Reading(s, Len(s), p, d, q, filled)
  PROVE  MessagesIn(s) = d
  <1>1. p \in 0..Len(s) /\ Len(s) \in Nat
    BY DEF Reading
  <1>2. p = Len(s)
    <2>1. CASE s = << >>
      BY <1>1, <2>1
    <2>2. CASE s # << >>
      <3>1. s[Len(s)] = Newline
        BY <2>2
      <3>2. Len(s) \notin (p + 1)..Len(s)
        BY <3>1 DEF Reading, Unbroken
      <3> QED
        BY <1>1, <3>2
    <2> QED
      BY <2>1, <2>2
  <1>3. LineEnds(s, p) = {}
    BY <1>1, <1>2 DEF LineEnds
  <1>4. MessagesFrom(s)[p] = << >>
    BY <1>1, <1>3, MessagesStep
  <1>5. d \o << >> = d
    BY ConcatEmptySeq DEF Messages
  <1> QED
    BY <1>4, <1>5 DEF Reading

-----------------------------------------------------------------------------
(* Following the frames while they are written                             *)

\* What was put behind a sequence.
LEMMA SecondPart ==
  ASSUME NEW f \in Seq(Bytes), NEW g \in Seq(Bytes)
  PROVE  SubSeq(f \o g, Len(f) + 1, Len(f \o g)) = g
  <1> DEFINE t == f \o g
             y == SubSeq(t, Len(f) + 1, Len(t))
  <1>1. /\ t \in Seq(Bytes) /\ Len(t) = Len(f) + Len(g)
        /\ \A i \in 1..Len(g) : t[Len(f) + i] = g[i]
    BY ConcatElements
  <1> HIDE DEF t
  <1>2. PICK j \in Nat, k \in Nat : j = Len(f) /\ k = Len(t) /\ j <= k /\ k <= Len(t)
                                    /\ k - j = Len(g)
    BY <1>1
  <1>3. /\ SubSeq(t, j + 1, k) \in Seq(Bytes) /\ Len(SubSeq(t, j + 1, k)) = k - j
        /\ \A i \in 1..(k - j) : SubSeq(t, j + 1, k)[i] = t[j + i]
    BY <1>1, <1>2, SubSeqElements
  <1>4. y \in Seq(Bytes) /\ Len(y) = Len(g) /\ \A i \in 1..Len(g) : y[i] = t[Len(f) + i]
    BY <1>2, <1>3
  <1> HIDE DEF y
  <1>5. \A i \in 1..Len(g) : y[i] = g[i]
    BY <1>1, <1>4
  <1>6. y = g
    BY <1>4, <1>5, SeqEqual
  <1> QED
    BY <1>6 DEF t, y

LEMMA RegroupedBytes ==
  ASSUME NEW a \in Seq(Bytes), NEW b \in Seq(Bytes), NEW c \in Seq(Bytes)
  PROVE  (a \o b) \o c = a \o (b \o c)
  BY ConcatAssociative

\* What the decoder makes of a stream after which one more frame is written.
LEMMA FrameWritten ==
  ASSUME NEW s \in Seq(Bytes), NEW d \in Messages, NEW q \in Seq(Bytes),
         Parsed(s, Len(s), d, q),
         NEW body \in Seq(Bytes), Len(body) <= BUF_SIZE, NEW done \in BOOLEAN
  PROVE  LET t == s \o create_header(Len(body), done) \o body
         IN /\ t \in Seq(Bytes)
            /\ done => Parsed(t, Len(t), Append(d, q \o body), << >>)
            /\ ~done => Parsed(t, Len(t), d, q \o body)
  <1> DEFINE t == s \o create_header(Len(body), done) \o body
  <1>1. Len(body) \in 0..BUF_SIZE /\ Len(body) \in Nat /\ Len(s) \in Nat /\ BUF_SIZE \in Nat
    BY InputAssumption
  <1>2. PICK h \in Seq(Bytes) :
          /\ h = create_header(Len(body), done) /\ Len(h) = HeaderLen /\ MsgLen(h) = Len(body)
    <2>1. PICK n \in 0..BUF_SIZE : n = Len(body)
      BY <1>1
    <2> QED
      BY <2>1, HeaderRoundTrip
  <1>3. MsgDone(h) <=> done
    <2>1. h[3] = IF done THEN 1 ELSE 0
      BY <1>2 DEF create_header
    <2> QED
      BY <2>1 DEF MsgDone
  <1>4. t = s \o h \o body
    BY <1>2
  <1> HIDE DEF t
  <1>5. PICK v \in Seq(Bytes) : v = h \o body
    BY ConcatProperties
  <1>6. t = s \o v
    <2>1. (s \o h) \o body = s \o (h \o body)
      BY RegroupedBytes, SMTT(30)
    <2> QED
      BY <1>4, <1>5, <2>1, Zenon
  <1>7. Extended(s, h, body, t)
    BY <1>2, <1>4, FramePlaced
  <1>8. t \in Seq(Bytes) /\ Len(t) = Len(s) + HeaderLen + Len(body) /\ HeaderAt(t, Len(s)) = h
    BY <1>7 DEF Extended, HeaderAt
  <1>9. EndAt(t, Len(s)) = Len(t)
    BY <1>2, <1>8 DEF EndAt
  <1>10. WholeAt(t, Len(s))
    BY <1>1, <1>2, <1>8, <1>9 DEF WholeAt, HeaderLen
  <1>11. PayloadAt(t, Len(s)) = body
    <2>1. PICK f \in Seq(Bytes) : f = s \o h /\ Len(f) = Len(s) + HeaderLen
      BY <1>2, ConcatProperties
    <2>2. t = f \o body
      BY <1>4, <2>1
    <2>3. SubSeq(f \o body, Len(f) + 1, Len(f \o body)) = body
      BY SecondPart
    <2> QED
      BY <1>9, <2>1, <2>2, <2>3 DEF PayloadAt
  <1>12. Parsed(t, Len(s), d, q)
    BY <1>6, ParsedMore
  <1>13. PICK p \in Nat : p = Len(s)
    BY <1>1
  <1>14. /\ Parsed(t, p, d, q) /\ WholeAt(t, p) /\ t \in Seq(Bytes)
         /\ EndAt(t, p) = Len(t) /\ PayloadAt(t, p) = body
         /\ (MsgDone(HeaderAt(t, p)) <=> done)
    BY <1>3, <1>8, <1>9, <1>10, <1>11, <1>12, <1>13, Zenon
  <1>15. /\ MsgDone(HeaderAt(t, p)) =>
              Parsed(t, EndAt(t, p), Append(d, q \o PayloadAt(t, p)), << >>)
         /\ ~MsgDone(HeaderAt(t, p)) =>
              Parsed(t, EndAt(t, p), d, q \o PayloadAt(t, p))
    BY <1>14, ParsedFrame
  <1>16. /\ done => Parsed(t, Len(t), Append(d, q \o body), << >>)
         /\ ~done => Parsed(t, Len(t), d, q \o body)
    BY <1>14, <1>15
  <1> QED
    BY <1>14, <1>16 DEF t

-----------------------------------------------------------------------------
(* The inductive invariant for lines.  The reader is at a place of what was *)
(* typed, the decoder of what was written at the end of the stream, and     *)
(* both have the same messages and the same beginning of another one.       *)

Place == Len(typed) - Len(input)

InTyped ==
  /\ typed \in Seq(Bytes) /\ (typed = << >> \/ typed[Len(typed)] = Newline)
  /\ Len(input) <= Len(typed) /\ input = SubSeq(typed, Place + 1, Len(typed))
  /\ status \in {"running", "end of input", "left"}
  /\ status = "end of input" => input = << >>

InStep(d, q) ==
  /\ Parsed(stream, Len(stream), d, q)
  /\ \E r \in Messages : MessagesIn(typed) = d \o r
  /\ status # "left" => \E p : Reading(typed, Place, p, d, q, last_chunk_filled)

LinesInv == terminal => InTyped /\ \E d \in Messages, q \in Seq(Bytes) : InStep(d, q)

\* A part of a part of a sequence.
LEMMA PartOfPart ==
  ASSUME NEW s \in Seq(Bytes), NEW a \in Nat, NEW b \in Nat, a <= b, b <= Len(s),
         NEW i \in Nat, NEW j \in Nat, i <= j, j <= b - a
  PROVE  SubSeq(SubSeq(s, a + 1, b), i + 1, j) = SubSeq(s, (a + i) + 1, a + j)
  <1> DEFINE t == SubSeq(s, a + 1, b)
             x == SubSeq(t, i + 1, j)
             y == SubSeq(s, (a + i) + 1, a + j)
  <1>1. t \in Seq(Bytes) /\ Len(t) = b - a /\ \A k \in 1..(b - a) : t[k] = s[a + k]
    BY SubSeqElements
  <1> HIDE DEF t
  <1>2. x \in Seq(Bytes) /\ Len(x) = j - i /\ \A k \in 1..(j - i) : x[k] = t[i + k]
    BY <1>1, SubSeqElements
  <1>3. y \in Seq(Bytes) /\ Len(y) = j - i /\ \A k \in 1..(j - i) : y[k] = s[(a + i) + k]
    <2>1. PICK m \in Nat, n \in Nat : m = a + i /\ n = a + j /\ m <= n /\ n <= Len(s)
                                      /\ n - m = j - i
      OBVIOUS
    <2>2. /\ SubSeq(s, m + 1, n) \in Seq(Bytes) /\ Len(SubSeq(s, m + 1, n)) = n - m
          /\ \A k \in 1..(n - m) : SubSeq(s, m + 1, n)[k] = s[m + k]
      BY <2>1, SubSeqElements
    <2> QED
      BY <2>1, <2>2
  <1> HIDE DEF x, y
  <1>4. ASSUME NEW k \in 1..(j - i) PROVE x[k] = y[k]
    <2>1. i + k \in 1..(b - a) /\ a + (i + k) = (a + i) + k
      OBVIOUS
    <2> QED
      BY <1>1, <1>2, <1>3, <2>1
  <1>5. x = y
    BY <1>2, <1>3, <1>4, SeqEqual
  <1> QED
    BY <1>5 DEF x, y, t

\* What a terminal's read() returns, as a part of what was typed.
LEMMA TerminalChunk ==
  ASSUME IInv, terminal, InTyped, NEW chunk \in Prefixes(input), Readable(chunk)
  PROVE  \E c \in Nat, n \in Nat :
           /\ c = Place /\ c <= n /\ n + 1 <= Len(typed) /\ Len(chunk) = (n - c) + 1
           /\ chunk = SubSeq(typed, c + 1, n + 1)
           /\ Front(chunk) = SubSeq(typed, c + 1, n)
           /\ SubSeq(input, Len(chunk) + 1, Len(input)) = SubSeq(typed, (n + 1) + 1, Len(typed))
           /\ Len(SubSeq(input, Len(chunk) + 1, Len(input))) = Len(typed) - (n + 1)
           /\ Unbroken(typed, c, n)
           /\ chunk[Len(chunk)] = typed[n + 1]
           /\ Len(chunk) = BUF_SIZE \/ typed[n + 1] = Newline
  <1>1. /\ chunk \in Seq(Bytes) /\ Len(chunk) \in 1..BUF_SIZE /\ BUF_SIZE \in Nat
    BY ChunkRead, InputAssumption
  <1>2. /\ input \in Seq(Bytes) /\ typed \in Seq(Bytes) /\ Len(input) <= Len(typed)
        /\ input = SubSeq(typed, Place + 1, Len(typed))
    BY DEF IInv, InTyped
  <1>3. PICK l \in 0..Len(input) : chunk = SubSeq(input, 1, l)
    BY DEF Prefixes
  <1>4. Len(chunk) = l
    BY <1>2, <1>3, FirstPart
  <1>5. PICK w \in Nat : w = Len(typed)
    BY <1>2
  <1>6. PICK c \in Nat : c = Place /\ c <= w /\ Len(input) = w - c
    <2>1. PICK x \in Nat : x = Len(input) /\ x <= w
      BY <1>2, <1>5
    <2>2. Place = w - x
      BY <1>5, <2>1 DEF Place
    <2>3. w - x \in Nat /\ w - x <= w /\ x = w - (w - x)
      BY <2>1
    <2> QED
      BY <2>1, <2>2, <2>3
  <1>7. PICK n \in Nat : c + l = n + 1 /\ l = (n - c) + 1 /\ c <= n /\ n + 1 <= w
                         /\ l - 1 = n - c /\ l \in Nat /\ l <= w - c
    <2>1. l \in 1..(w - c) /\ c + l - 1 \in Nat
      BY <1>1, <1>4, <1>6
    <2> QED
      BY <2>1
  <1>8. input = SubSeq(typed, c + 1, w)
    BY <1>2, <1>5, <1>6
  <1>9. w <= Len(typed) /\ 0 \in Nat /\ w - c \in Nat
    BY <1>5, <1>6
  <1>10. chunk = SubSeq(typed, c + 1, n + 1)
    <2>1. PICK i \in Nat : i = 0 /\ i <= l /\ i + 1 = 1 /\ c + i = c
      BY <1>6, <1>7
    <2>2. SubSeq(SubSeq(typed, c + 1, w), i + 1, l) = SubSeq(typed, (c + i) + 1, c + l)
      BY <1>2, <1>6, <1>7, <1>9, <2>1, PartOfPart
    <2> QED
      BY <1>3, <1>7, <1>8, <2>1, <2>2
  <1>11. SubSeq(input, Len(chunk) + 1, Len(input)) = SubSeq(typed, (n + 1) + 1, Len(typed))
    <2>1. PICK j \in Nat : j = w - c /\ c + j = w /\ l <= j
      BY <1>7, <1>9
    <2>2. SubSeq(SubSeq(typed, c + 1, w), l + 1, j) = SubSeq(typed, (c + l) + 1, c + j)
      BY <1>2, <1>6, <1>7, <1>9, <2>1, PartOfPart
    <2> QED
      BY <1>4, <1>5, <1>6, <1>7, <1>8, <2>1, <2>2
  <1>12. PICK m \in Nat : m = n + 1 /\ c <= m /\ m <= w /\ m - c = l
    BY <1>7
  <1>13. Front(chunk) = SubSeq(typed, c + 1, n)
    <2>1. SubSeq(SubSeq(typed, c + 1, m), 0 + 1, n - c) = SubSeq(typed, (c + 0) + 1, c + (n - c))
      <3>1. PICK i \in Nat, j \in Nat : i = 0 /\ j = n - c /\ i <= j /\ j <= m - c
        BY <1>7, <1>12
      <3>2. SubSeq(SubSeq(typed, c + 1, m), i + 1, j) = SubSeq(typed, (c + i) + 1, c + j)
        BY <1>2, <1>5, <1>12, <3>1, PartOfPart
      <3> QED
        BY <3>1, <3>2
    <2>2. c + (n - c) = n /\ c + 0 = c /\ 0 + 1 = 1
      OBVIOUS
    <2>3. SubSeq(chunk, 1, n - c) = SubSeq(typed, c + 1, n)
      BY <1>10, <1>12, <2>1, <2>2
    <2> QED
      BY <1>4, <1>7, <2>3 DEF Front
  <1>14. Len(SubSeq(input, Len(chunk) + 1, Len(input))) = Len(typed) - (n + 1)
    <2>1. Len(SubSeq(typed, m + 1, w)) = w - m
      BY <1>2, <1>5, <1>12, SubSeqElements
    <2> QED
      BY <1>5, <1>11, <1>12, <2>1
  <1>15. \A i \in 1..l : chunk[i] = typed[c + i]
    <2>1. \A i \in 1..(m - c) : SubSeq(typed, c + 1, m)[i] = typed[c + i]
      BY <1>2, <1>5, <1>12, SubSeqElements
    <2> QED
      BY <1>10, <1>12, <2>1
  <1>16. /\ \A j \in 1..(l - 1) : chunk[j] # Newline
         /\ l = BUF_SIZE \/ chunk[l] = Newline
    BY <1>4 DEF Readable, Last
  <1>17. Unbroken(typed, c, n)
    <2> SUFFICES ASSUME NEW j \in (c + 1)..n PROVE typed[j] # Newline
      BY DEF Unbroken
    <2>1. PICK i \in 1..(l - 1) : c + i = j /\ i \in 1..l
      <3>1. j - c \in 1..(l - 1) /\ c + (j - c) = j /\ j - c \in 1..l
        BY <1>7
      <3> QED
        BY <3>1
    <2> QED
      BY <1>15, <1>16, <2>1
  <1>18. chunk[l] = typed[n + 1]
    <2>1. l \in 1..l
      BY <1>7
    <2> QED
      BY <1>7, <1>15, <2>1
  <1> QED
    BY <1>4, <1>5, <1>6, <1>7, <1>10, <1>11, <1>13, <1>14, <1>16, <1>17, <1>18

\* At a terminal only a newline of the chunk itself can end a message: either
\* the chunk is as long as buf, or it has a newline.
LEMMA TerminalEnds ==
  ASSUME terminal, NEW chunk, Readable(chunk), Len(chunk) \in 1..BUF_SIZE, BUF_SIZE \in Nat
  PROVE  EndsMessage(chunk) <=> chunk[Len(chunk)] = Newline
  <1>1. /\ \A j \in 1..(Len(chunk) - 1) : chunk[j] # Newline
        /\ Len(chunk) = BUF_SIZE \/ chunk[Len(chunk)] = Newline
    BY DEF Readable, Last
  <1>2. \A j \in 1..Len(chunk) : j \in 1..BUF_SIZE /\ Filled(chunk)[j] = chunk[j]
    BY DEF Filled
  <1>3. ASSUME chunk[Len(chunk)] = Newline PROVE EndsMessage(chunk)
    <2>1. Len(chunk) \in 1..Len(chunk)
      OBVIOUS
    <2> QED
      BY <1>2, <1>3, <2>1 DEF EndsMessage
  <1>4. ASSUME EndsMessage(chunk), Len(chunk) = BUF_SIZE PROVE chunk[Len(chunk)] = Newline
    <2>1. PICK j \in 1..BUF_SIZE : Filled(chunk)[j] = Newline
      BY <1>4 DEF EndsMessage
    <2>2. j \in 1..Len(chunk) /\ chunk[j] = Newline
      BY <1>2, <1>4, <2>1
    <2>3. j = Len(chunk)
      BY <1>1, <2>2
    <2> QED
      BY <2>2, <2>3
  <1> QED
    BY <1>1, <1>3, <1>4

\* The reader is at a new place.
LEMMA Advanced ==
  ASSUME InTyped, typed' = typed, NEW n \in Nat, n <= Len(typed),
         input' = SubSeq(typed, n + 1, Len(typed)), Len(input') = Len(typed) - n,
         status' \in {"running", "left"}
  PROVE  InTyped' /\ Place' = n
  <1>1. typed \in Seq(Bytes) /\ (typed = << >> \/ typed[Len(typed)] = Newline)
    BY Zenon DEF InTyped
  <1>2. PICK w \in Nat : w = Len(typed)
    BY <1>1
  <1>3. PICK x \in Nat : x = Len(input') /\ x = w - n /\ x <= w /\ w - x = n
    BY <1>2
  <1>4. Place' = n
    BY <1>2, <1>3 DEF Place
  <1>5. Len(input') <= Len(typed)
    BY <1>2, <1>3
  <1>6. status' \in {"running", "end of input", "left"} /\ status' # "end of input"
    OBVIOUS
  <1> QED
    BY <1>1, <1>4, <1>5, <1>6 DEF InTyped

\* What was sent are the first messages typed.
LEMMA ReadingPrefix ==
  ASSUME NEW s \in Seq(Bytes), NEW c \in 0..Len(s), NEW p, NEW d, NEW q, NEW filled,
         Reading(s, c, p, d, q, filled)
  PROVE  \E r \in Messages : MessagesIn(s) = d \o r
  <1>1. p \in 0..Len(s)
    BY DEF Reading
  <1>2. MessagesFrom(s)[p] \in Messages
    BY <1>1, MessagesType
  <1> QED
    BY <1>2 DEF Reading

\* A chunk that ends a line is sent as the last part of its message.
LEMMA SendEndInStep ==
  ASSUME IInv, InTyped, NEW d \in Messages, NEW q \in Seq(Bytes), InStep(d, q),
         status = "running", NEW c \in Nat, NEW n \in Nat, c = Place, c <= n,
         n + 1 <= Len(typed), (n - c) + 1 <= BUF_SIZE, c = n => last_chunk_filled,
         Unbroken(typed, c, n), typed[n + 1] = Newline,
         NEW body, body = SubSeq(typed, c + 1, n),
         stream' = stream \o create_header(n - c, TRUE) \o body,
         last_chunk_filled' = FALSE, typed' = typed, Place' = n + 1
  PROVE  \E e \in Messages, f \in Seq(Bytes) : InStep(e, f)'
  <1>1. stream \in Seq(Bytes) /\ Parsed(stream, Len(stream), d, q)
    BY DEF IInv, InStep
  <1>2. PICK s \in Seq(Bytes) : s = typed
    BY DEF InTyped
  <1>3. PICK p : Reading(s, c, p, d, q, last_chunk_filled)
    BY <1>2 DEF InStep
  <1>4. n <= Len(s) /\ Len(s) \in Nat /\ BUF_SIZE \in Nat
    BY <1>2, InputAssumption
  <1>5. body \in Seq(Bytes) /\ Len(body) = n - c
    BY <1>2, <1>4, SubSeqElements
  <1>6. Len(body) <= BUF_SIZE
    BY <1>4, <1>5
  <1>7. PICK t : t = stream'
    OBVIOUS
  <1>8. t = stream \o create_header(Len(body), TRUE) \o body
    BY <1>5, <1>7
  <1>9. Parsed(t, Len(t), Append(d, q \o body), << >>)
    BY <1>1, <1>5, <1>6, <1>8, FrameWritten
  <1>10. p < n
    <2>1. p \in Nat /\ p <= c /\ (last_chunk_filled => p < c)
      BY <1>3 DEF Reading
    <2> QED
      BY <2>1
  <1>11. /\ q \o body \in Seq(Bytes) /\ Append(d, q \o body) \in Messages
         /\ Reading(s, n + 1, n + 1, Append(d, q \o body), << >>, FALSE)
    BY <1>2, <1>3, <1>10, ReadingEnd
  <1>12. PICK e \in Messages : e = Append(d, q \o body)
    BY <1>11
  <1>13. \E r \in Messages : MessagesIn(s) = e \o r
    <2>1. PICK m \in 0..Len(s) : m = n + 1
      BY <1>2, <1>4
    <2>2. Reading(s, m, m, e, << >>, FALSE)
      BY <1>11, <1>12, <2>1
    <2> QED
      BY <2>2, ReadingPrefix
  <1>14. << >> \in Seq(Bytes)
    OBVIOUS
  <1>15. InStep(e, << >>)'
    BY <1>2, <1>7, <1>9, <1>11, <1>12, <1>13 DEF InStep
  <1> QED
    BY <1>14, <1>15

\* A chunk without a newline is sent as a part.
LEMMA SendPartInStep ==
  ASSUME IInv, InTyped, NEW d \in Messages, NEW q \in Seq(Bytes), InStep(d, q),
         status = "running", NEW c \in Nat, NEW n \in Nat, c = Place, c < n,
         n <= Len(typed), n - c <= BUF_SIZE, Unbroken(typed, c, n),
         NEW body, body = SubSeq(typed, c + 1, n),
         stream' = stream \o create_header(n - c, FALSE) \o body,
         last_chunk_filled' = TRUE, typed' = typed, Place' = n
  PROVE  \E e \in Messages, f \in Seq(Bytes) : InStep(e, f)'
  <1>1. stream \in Seq(Bytes) /\ Parsed(stream, Len(stream), d, q)
    BY DEF IInv, InStep
  <1>2. PICK s \in Seq(Bytes) : s = typed
    BY DEF InTyped
  <1>3. PICK p : Reading(s, c, p, d, q, last_chunk_filled)
    BY <1>2 DEF InStep
  <1>4. c <= n /\ n <= Len(s) /\ Len(s) \in Nat /\ BUF_SIZE \in Nat
    BY <1>2, InputAssumption
  <1>5. body \in Seq(Bytes) /\ Len(body) = n - c
    BY <1>2, <1>4, SubSeqElements
  <1>6. PICK t : t = stream'
    OBVIOUS
  <1>7. t = stream \o create_header(Len(body), FALSE) \o body
    BY <1>5, <1>6
  <1>8. Len(body) <= BUF_SIZE
    BY <1>5
  <1>9. Parsed(t, Len(t), d, q \o body)
    BY <1>1, <1>5, <1>7, <1>8, FrameWritten
  <1>10. PICK f \in Seq(Bytes) : f = q \o body
    BY <1>5, ConcatProperties
  <1>11. Reading(s, n, p, d, f, TRUE)
    BY <1>2, <1>3, <1>4, <1>10, ReadingPart
  <1>12. \E r \in Messages : MessagesIn(s) = d \o r
    <2>1. n \in 0..Len(s)
      BY <1>4
    <2> QED
      BY <1>11, <2>1, ReadingPrefix
  <1>13. InStep(d, f)'
    BY <1>2, <1>6, <1>9, <1>10, <1>11, <1>12 DEF InStep
  <1> QED
    BY <1>13

\* An empty line is not sent.
LEMMA SkipInStep ==
  ASSUME IInv, InTyped, NEW d \in Messages, NEW q \in Seq(Bytes), InStep(d, q),
         status = "running", ~last_chunk_filled, NEW c \in Nat, c = Place,
         c + 1 <= Len(typed), typed[c + 1] = Newline,
         UNCHANGED <<stream, typed, last_chunk_filled>>, Place' = c + 1
  PROVE  InStep(d, q)'
  <1>1. Parsed(stream, Len(stream), d, q) /\ \E r \in Messages : MessagesIn(typed) = d \o r
    BY DEF InStep
  <1>2. PICK s \in Seq(Bytes) : s = typed
    BY DEF InTyped
  <1>3. PICK p : Reading(s, c, p, d, q, last_chunk_filled)
    BY <1>2 DEF InStep
  <1>4. p = c
    BY <1>3 DEF Reading
  <1>5. q = << >>
    BY <1>3, <1>4 DEF Reading
  <1>6. Unbroken(s, c, c) /\ c <= c /\ c + 1 <= Len(s) /\ s[c + 1] = Newline
    BY <1>2 DEF Unbroken
  <1>7. Reading(s, c + 1, c + 1, d, << >>, FALSE)
    <2>1. PICK b \in BOOLEAN : b = FALSE
      OBVIOUS
    <2>2. Reading(s, c, p, d, q, b)
      BY <1>3, <2>1 DEF Reading
    <2> QED
      BY <1>4, <1>6, <2>2, ReadingEnd
  <1>8. Reading(s, c + 1, c + 1, d, q, last_chunk_filled')
    BY <1>5, <1>7 DEF Reading
  <1> QED
    BY <1>1, <1>2, <1>8 DEF InStep

LEMMA InitLines ==
  ASSUME Init
  PROVE  LinesInv
  <1> SUFFICES ASSUME terminal PROVE InTyped /\ \E d \in Messages, q \in Seq(Bytes) : InStep(d, q)
    BY DEF LinesInv
  <1>1. input = typed /\ stream = << >> /\ last_chunk_filled = FALSE /\ status = "running"
    BY DEF Init
  <1>2. PICK s \in Seq(Bytes) : s = typed
    BY <1>1, InitIInv DEF IInv
  <1>3. s = << >> \/ s[Len(s)] = Newline
    BY <1>2 DEF Init, Inputs, Last
  <1>4. Len(s) \in Nat /\ Place = 0
    <2>1. Len(s) \in Nat /\ Len(s) - Len(s) = 0
      OBVIOUS
    <2> QED
      BY <1>1, <1>2, <2>1 DEF Place
  <1>5. SubSeq(s, 0 + 1, Len(s)) = s
    BY SubSeqFull
  <1>6. InTyped
    BY <1>1, <1>2, <1>3, <1>4, <1>5 DEF InTyped
  <1>7. PICK d \in Messages : d = << >>
    <2>1. << >> \in Messages
      BY DEF Messages
    <2> QED
      BY <2>1
  <1>8. PICK q \in Seq(Bytes) : q = << >>
    <2>1. << >> \in Seq(Bytes)
      OBVIOUS
    <2> QED
      BY <2>1
  <1>9. Parsed(stream, Len(stream), d, q)
    <2>1. Len(stream) = 0
      BY <1>1
    <2> QED
      BY <1>1, <1>7, <1>8, <2>1, ParsedStart
  <1>10. PICK r \in Messages : r = MessagesFrom(s)[0]
    <2>1. 0 \in 0..Len(s)
      BY <1>4
    <2> QED
      BY <2>1, MessagesType
  <1>11. MessagesIn(s) = d \o r
    <2>1. << >> \o r = r
      BY ConcatEmptySeq DEF Messages
    <2> QED
      BY <1>7, <1>10, <2>1 DEF MessagesIn
  <1>12. Reading(s, 0, 0, d, q, FALSE)
    <2>1. SubSeq(s, 0 + 1, 0) = << >> /\ 0 \in 0..0 /\ Unbroken(s, 0, 0) /\ ~(0 < 0)
      BY DEF Unbroken
    <2> QED
      BY <1>8, <1>10, <1>11, <2>1 DEF Reading
  <1>13. InStep(d, q)
    BY <1>1, <1>2, <1>4, <1>9, <1>11, <1>12 DEF InStep
  <1> QED
    BY <1>6, <1>13

LEMMA NextLines ==
  ASSUME IInv, LinesInv, [Next]_vars
  PROVE  LinesInv'
  <1> SUFFICES ASSUME terminal'
               PROVE  InTyped' /\ \E d \in Messages, q \in Seq(Bytes) : InStep(d, q)'
    BY DEF LinesInv
  <1>1. terminal /\ typed' = typed
    BY DEF Next, ReadChunk, ReadAndSend, ReadAndSkip, ReadQuit, ReadLoneSlash, ReadEnd, vars
  <1>2. InTyped
    BY <1>1 DEF LinesInv
  <1>3. PICK d \in Messages, q \in Seq(Bytes) : InStep(d, q)
    BY <1>1 DEF LinesInv
  <1>4. ASSUME NEW chunk \in Prefixes(input), ReadChunk(chunk)
        PROVE  InTyped' /\ \E e \in Messages, f \in Seq(Bytes) : InStep(e, f)'
    <2>1. status = "running" /\ Readable(chunk)
      BY <1>4 DEF ReadChunk, ReadAndSend, ReadAndSkip, ReadQuit, ReadLoneSlash
    <2>2. /\ chunk \in Seq(Bytes) /\ Len(chunk) \in 1..BUF_SIZE /\ BUF_SIZE \in Nat \ {0, 1}
          /\ Newline # Slash
      BY <2>1, ChunkRead, InputAssumption
    <2>3. PICK c \in Nat, n \in Nat :
            /\ c = Place /\ c <= n /\ n + 1 <= Len(typed) /\ Len(chunk) = (n - c) + 1
            /\ chunk = SubSeq(typed, c + 1, n + 1)
            /\ Front(chunk) = SubSeq(typed, c + 1, n)
            /\ SubSeq(input, Len(chunk) + 1, Len(input)) =
                 SubSeq(typed, (n + 1) + 1, Len(typed))
            /\ Len(SubSeq(input, Len(chunk) + 1, Len(input))) = Len(typed) - (n + 1)
            /\ Unbroken(typed, c, n)
            /\ chunk[Len(chunk)] = typed[n + 1]
            /\ Len(chunk) = BUF_SIZE \/ typed[n + 1] = Newline
      BY <1>1, <1>2, <2>1, TerminalChunk
    <2>4. PICK m \in Nat : m = n + 1 /\ m <= Len(typed) /\ c < m /\ m - c = Len(chunk)
      <3>1. PICK m \in Nat : m = n + 1
        OBVIOUS
      <3>2. m <= Len(typed) /\ c <= n /\ Len(chunk) = (n - c) + 1
        BY <2>3, <3>1
      <3>3. c < m /\ m - c = (n - c) + 1
        BY <3>1, <3>2
      <3> QED
        BY <3>1, <3>2, <3>3
    <2>5. Len(chunk) = 1 => typed[n + 1] = Newline /\ n = c
      BY <2>2, <2>3
    <2>6. ASSUME input' = SubSeq(input, Len(chunk) + 1, Len(input)), status' \in {"running", "left"}
          PROVE  InTyped' /\ Place' = m
      <3>1. input' = SubSeq(typed, m + 1, Len(typed)) /\ Len(input') = Len(typed) - m
        BY <2>3, <2>4, <2>6
      <3> QED
        BY <1>1, <1>2, <2>4, <2>6, <3>1, Advanced
    <2>7. CASE ReadAndSend(chunk)
      <3>1. /\ input' = SubSeq(input, Len(chunk) + 1, Len(input)) /\ Send(chunk)
            /\ status' \in {"running", "left"} /\ ~Skipped(chunk)
        BY <2>7 DEF ReadAndSend
      <3>2. InTyped' /\ Place' = m
        BY <2>6, <3>1
      <3>3. CASE typed[n + 1] = Newline
        <4>1. EndsMessage(chunk)
          BY <1>1, <2>1, <2>2, <2>3, <3>3, TerminalEnds
        <4>2. SendEnd(chunk)
          BY <3>1, <4>1 DEF Send
        <4>3. stream' = stream \o create_header(n - c, TRUE) \o Front(chunk)
          <5>1. Len(chunk) - 1 = n - c
            BY <2>3
          <5> QED
            BY <4>2, <5>1 DEF SendEnd, EndHeader
        <4>4. last_chunk_filled' = FALSE
          BY <4>2 DEF SendEnd
        <4>5. c = n => last_chunk_filled
          <5>1. c = n => Len(chunk) = 1
            BY <2>3
          <5> QED
            BY <3>1, <5>1 DEF Skipped
        <4>6. (n - c) + 1 <= BUF_SIZE /\ Place' = n + 1
          BY <2>2, <2>3, <2>4, <3>2
        <4>7. PICK body : body = Front(chunk)
          OBVIOUS
        <4>8. \E e \in Messages, f \in Seq(Bytes) : InStep(e, f)'
          BY <1>1, <1>2, <1>3, <2>1, <2>3, <3>3, <4>3, <4>4, <4>5, <4>6, <4>7, SendEndInStep
        <4> QED
          BY <3>2, <4>8
      <3>4. CASE typed[n + 1] # Newline
        <4>1. ~EndsMessage(chunk)
          BY <1>1, <2>1, <2>2, <2>3, <3>4, TerminalEnds
        <4>2. SendPart(chunk)
          BY <3>1, <4>1 DEF Send
        <4>3. stream' = stream \o create_header(m - c, FALSE) \o chunk
          BY <2>4, <4>2 DEF SendPart
        <4>4. last_chunk_filled' = TRUE
          BY <4>2 DEF SendPart
        <4>5. Unbroken(typed, c, m)
          <5> SUFFICES ASSUME NEW j \in (c + 1)..m PROVE typed[j] # Newline
            BY DEF Unbroken
          <5>1. j \in (c + 1)..n \/ j = n + 1
            BY <2>4
          <5> QED
            BY <2>3, <3>4, <5>1 DEF Unbroken
        <4>6. m - c <= BUF_SIZE /\ chunk = SubSeq(typed, c + 1, m) /\ c = Place
          BY <2>2, <2>3, <2>4
        <4>7. \E e \in Messages, f \in Seq(Bytes) : InStep(e, f)'
          BY <1>1, <1>2, <1>3, <2>1, <2>4, <3>2, <4>3, <4>4, <4>5, <4>6, SendPartInStep
        <4> QED
          BY <3>2, <4>7
      <3> QED
        BY <3>3, <3>4
    <2>8. CASE ReadAndSkip(chunk)
      <3>1. /\ input' = SubSeq(input, Len(chunk) + 1, Len(input)) /\ status' \in {"running", "left"}
            /\ Len(chunk) = 1 /\ ~last_chunk_filled
            /\ UNCHANGED <<stream, typed, last_chunk_filled>>
        BY <2>1, <2>8 DEF ReadAndSkip, Skipped
      <3>2. InTyped' /\ Place' = m
        BY <2>6, <3>1
      <3>3. c + 1 <= Len(typed) /\ typed[c + 1] = Newline /\ Place' = c + 1 /\ c = Place
        BY <2>3, <2>4, <2>5, <3>1, <3>2
      <3>4. InStep(d, q)'
        BY <1>2, <1>3, <2>1, <3>1, <3>3, SkipInStep
      <3> QED
        BY <1>3, <3>2, <3>4
    <2>9. CASE ReadQuit(chunk)
      <3>1. /\ input' = SubSeq(input, Len(chunk) + 1, Len(input)) /\ status' = "left"
            /\ UNCHANGED <<stream, typed>>
        BY <2>9 DEF ReadQuit
      <3>2. InTyped'
        BY <2>6, <3>1
      <3>3. InStep(d, q)'
        BY <1>3, <3>1 DEF InStep
      <3> QED
        BY <1>3, <3>2, <3>3
    <2>10. CASE ReadLoneSlash(chunk)
      <3>1. chunk = <<Slash>>
        BY <2>10 DEF ReadLoneSlash
      <3>2. Len(chunk) = 1 /\ chunk[1] = Slash
        BY <3>1
      <3> QED
        BY <2>2, <2>3, <2>5, <3>2
    <2> QED
      BY <1>4, <2>7, <2>8, <2>9, <2>10 DEF ReadChunk
  <1>5. CASE ReadEnd
    <2>1. /\ status = "running" /\ input = << >> /\ status' = "end of input"
          /\ UNCHANGED <<typed, input, stream, last_chunk_filled>>
      BY <1>5 DEF ReadEnd
    <2>2. Place' = Place
      BY <2>1 DEF Place
    <2>3. InTyped'
      BY <1>2, <2>1, <2>2 DEF InTyped
    <2>4. InStep(d, q)'
      BY <1>3, <2>1, <2>2 DEF InStep
    <2> QED
      BY <1>3, <2>3, <2>4
  <1>6. CASE UNCHANGED vars
    <2>1. InTyped'
      BY <1>2, <1>6 DEF InTyped, Place, vars
    <2>2. InStep(d, q)'
      BY <1>3, <1>6 DEF InStep, Place, vars
    <2> QED
      BY <1>3, <2>1, <2>2
  <1> QED
    BY <1>4, <1>5, <1>6 DEF Next

\* A first part of a sequence, by its concatenation with the rest.
LEMMA PrefixOf ==
  ASSUME NEW d \in Messages, NEW r \in Messages
  PROVE  IsPrefix(d, d \o r)
  <1> DEFINE w == d \o r
  <1>1. PICK n \in Nat : n = Len(d)
    BY DEF Messages
  <1>2. /\ w \in Seq(Seq(Bytes)) /\ Len(w) = n + Len(r)
        /\ \A i \in 1..n : w[i] = d[i]
    BY <1>1, ConcatElements DEF Messages
  <1>3. Len(r) \in Nat
    BY DEF Messages
  <1>4. n <= Len(w)
    BY <1>2, <1>3
  <1>5. SubSeq(d \o r, 1, n) = SubSeq(d, 1, n)
    <2>1. PICK m \in Nat : m = 0 /\ m <= n /\ n <= Len(d) /\ m + 1 = 1
      BY <1>1
    <2>2. SubSeq(d \o r, m + 1, n) = SubSeq(d, m + 1, n)
      BY <2>1, SamePart DEF Messages
    <2> QED
      BY <2>1, <2>2
  <1> QED
    BY <1>1, <1>4, <1>5 DEF IsPrefix

LEMMA PrefixOfPrefix ==
  ASSUME NEW a \in Messages, NEW b \in Messages, NEW r \in Messages
  PROVE  IsPrefix(a, (a \o b) \o r)
  <1>1. PICK z \in Messages : z = b \o r
    BY ConcatProperties DEF Messages
  <1>2. (a \o b) \o r = a \o (b \o r)
    BY Regrouped, SMTT(30)
  <1>3. IsPrefix(a, a \o z)
    BY PrefixOf
  <1> QED
    BY <1>1, <1>2, <1>3

\* The stream ends where a frame ends.
LEMMA StreamDecoded ==
  ASSUME IInv, NEW d \in Messages, NEW q \in Seq(Bytes), InStep(d, q)
  PROVE  Decode(stream) = d
  <1>1. stream \in Seq(Bytes) /\ Len(stream) \in Nat
    BY DEF IInv
  <1>2. Parsed(stream, Len(stream), d, q)
    BY DEF InStep
  <1>3. ~WholeAt(stream, Len(stream))
    BY <1>1 DEF WholeAt, HeaderLen
  <1>4. Len(stream) \in 0..Len(stream)
    BY <1>1
  <1> QED
    BY <1>1, <1>2, <1>3, <1>4, ParsedEnd

LEMMA LinesInvSent ==
  ASSUME IInv, LinesInv
  PROVE  SentIsTyped
  <1> SUFFICES ASSUME terminal PROVE LinesSent
    BY DEF SentIsTyped
  <1>1. PICK d \in Messages, q \in Seq(Bytes) : InStep(d, q)
    BY DEF LinesInv
  <1>2. PICK s \in Seq(Bytes) : s = typed
    BY DEF LinesInv, InTyped
  <1>4. Decode(stream) = d
    BY <1>1, StreamDecoded
  <1>5. IsPrefix(d, MessagesIn(s))
    <2>1. PICK r \in Messages : MessagesIn(s) = d \o r
      BY <1>1, <1>2 DEF InStep
    <2> QED
      BY <2>1, PrefixOf
  <1>6. ASSUME status \in {"end of input", "crashed"} PROVE d = MessagesIn(s)
    <2>1. status = "end of input" /\ input = << >>
      BY <1>6 DEF LinesInv, InTyped
    <2>2. Place = Len(s)
      <3>1. Len(input) = 0 /\ Len(s) \in Nat
        <4>1. Len(input) = 0
          BY <2>1, EmptySeq
        <4> QED
          BY <4>1
      <3> QED
        BY <1>2, <3>1 DEF Place
    <2>3. PICK p : Reading(s, Len(s), p, d, q, last_chunk_filled)
      BY <1>1, <1>2, <2>1, <2>2 DEF InStep
    <2>4. s = << >> \/ s[Len(s)] = Newline
      BY <1>2 DEF LinesInv, InTyped
    <2> QED
      BY <2>3, <2>4, ReadingDone
  <1> QED
    BY <1>2, <1>4, <1>5, <1>6 DEF LinesSent

\* However long the lines are that a user types at a terminal, and however
\* the buffer of client.c cuts them, the frames it sends decode to those
\* lines, each a message of its own, in order and up to the last one.
THEOREM SentSound == Spec => []SentIsTyped
  <1>1. Init => IInv /\ LinesInv
    BY InitIInv, InitLines
  <1>2. IInv /\ LinesInv /\ [Next]_vars => (IInv /\ LinesInv)'
    BY NextIInv, NextLines
  <1>3. IInv /\ LinesInv => SentIsTyped
    BY LinesInvSent
  <1> QED
    BY <1>1, <1>2, <1>3, PTL DEF Spec

\* Whatever first part of the client's bytes has arrived, it decodes to the
\* first of the lines typed: nothing is made of half a line.
ArrivedIsTyped ==
  terminal => \A v, u \in Seq(Bytes) :
                stream = v \o u => IsPrefix(Decode(v), MessagesIn(typed))

\* From the terminal to the server's decoder: at every moment, and wherever the
\* connection is at that moment or breaks, the server can only have found the
\* first of the lines typed.
THEOREM ArrivedSound == Spec => []ArrivedIsTyped
  <1>1. Init => IInv /\ LinesInv
    BY InitIInv, InitLines
  <1>2. IInv /\ LinesInv /\ [Next]_vars => (IInv /\ LinesInv)'
    BY NextIInv, NextLines
  <1>3. ASSUME IInv, LinesInv PROVE ArrivedIsTyped
    <2> SUFFICES ASSUME terminal, NEW v \in Seq(Bytes), NEW u \in Seq(Bytes), stream = v \o u
                 PROVE  IsPrefix(Decode(v), MessagesIn(typed))
      BY DEF ArrivedIsTyped
    <2>1. PICK d \in Messages, q \in Seq(Bytes) : InStep(d, q)
      BY <1>3 DEF LinesInv
    <2>2. Decode(stream) = d
      BY <1>3, <2>1, StreamDecoded
    <2>3. PICK r \in Messages : MessagesIn(typed) = d \o r
      BY <2>1 DEF InStep
    <2>4. PICK a \in Messages, b \in Messages : a = Decode(v) /\ Decode(v \o u) = a \o b
      <3>1. Decode(v) \in Messages /\ \E b \in Messages : Decode(v \o u) = Decode(v) \o b
        BY DecodeGrows, Zenon
      <3> QED
        BY <3>1, Zenon
    <2>5. d = a \o b
      BY <2>2, <2>4
    <2>6. MessagesIn(typed) = (a \o b) \o r
      BY <2>3, <2>5
    <2>7. IsPrefix(a, (a \o b) \o r)
      BY PrefixOfPrefix, Zenon
    <2> QED
      BY <2>4, <2>6, <2>7, Zenon
  <1> QED
    BY <1>1, <1>2, <1>3, PTL DEF Spec
=============================================================================
