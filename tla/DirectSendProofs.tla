-------------------------- MODULE DirectSendProofs --------------------------
(***************************************************************************)
(* What a client receives from its queue and past it, proved on top of the *)
(* queue's own invariant (module MsgQueueProofs).                          *)
(***************************************************************************)
EXTENDS DirectSend, MsgQueueProofs

-----------------------------------------------------------------------------
(* The inductive invariant.                                                *)

OutType ==
  /\ out \in Seq(Byte)
  /\ size \in [1..(MaxMsgs + MaxDirect) -> Nat]
  /\ directs \in 0..MaxDirect
  /\ harmed \in BOOLEAN

\* A byte that was received belongs to a message that was sent: the size of a
\* later one does not change what it is measured by.
Known ==
  \A i \in 1..Len(out) :
    out[i].msg \in (1..offered) \cup ((MaxMsgs + 1)..(MaxMsgs + directs))

\* The size of a queued message is the length of its packet.
Sized ==
  \A i \in 1..Len(order) :
    /\ data[order[i]] \in 1..offered
    /\ size[data[order[i]]] = len[order[i]]

\* The last byte received is the last one sent of the packet in progress, or
\* else the end of a message.
Joint ==
  ~Releasing =>
    IF MidPacket
    THEN out # << >> /\ out[Len(out)] = [msg |-> data[head], k |-> offset[head]]
    ELSE out = << >> \/ out[Len(out)].k = size[out[Len(out)].msg]

OInv ==
  /\ IInv
  /\ OutType
  /\ Known
  /\ Sized
  /\ ~harmed => Framed(out) /\ Joint

-----------------------------------------------------------------------------
(* Lemmas on framed streams.                                               *)

\* Framed, for any sizes.
FramedBy(sz, s) ==
  \A i \in 1..Len(s) :
    IF s[i].k = 1
    THEN i = 1 \/ s[i - 1].k = sz[s[i - 1].msg]
    ELSE i > 1 /\ s[i - 1] = [s[i] EXCEPT !.k = @ - 1]

\* Byte number k of message n is the last one of s.
LastIs(s, n, k) == s # << >> /\ s[Len(s)] = [msg |-> n, k |-> k]

\* s ends where a message ends.
Complete(sz, s) == s = << >> \/ s[Len(s)].k = sz[s[Len(s)].msg]

\* Message n may go on after its first k bytes.
MayFollow(sz, s, n, k) ==
  \/ k = 0 /\ Complete(sz, s)
  \/ k > 0 /\ LastIs(s, n, k)

\* Only the sizes of the messages in the stream matter.
LEMMA FramedSame ==
  ASSUME NEW s \in Seq(Byte), NEW sz, NEW sz2, FramedBy(sz, s),
         \A i \in 1..Len(s) : sz2[s[i].msg] = sz[s[i].msg]
  PROVE  FramedBy(sz2, s)
  <1> SUFFICES ASSUME NEW i \in 1..Len(s)
               PROVE  IF s[i].k = 1
                      THEN i = 1 \/ s[i - 1].k = sz2[s[i - 1].msg]
                      ELSE i > 1 /\ s[i - 1] = [s[i] EXCEPT !.k = @ - 1]
    BY DEF FramedBy
  <1>1. IF s[i].k = 1
        THEN i = 1 \/ s[i - 1].k = sz[s[i - 1].msg]
        ELSE i > 1 /\ s[i - 1] = [s[i] EXCEPT !.k = @ - 1]
    BY DEF FramedBy
  <1>2. i # 1 => i - 1 \in 1..Len(s)
    OBVIOUS
  <1> QED
    BY <1>1, <1>2

\* Part of a packet may follow the part before it, and its first part the end
\* of another message.
LEMMA FramedMore ==
  ASSUME NEW s \in Seq(Byte), NEW sz, FramedBy(sz, s),
         NEW n \in Nat, NEW from \in Nat, NEW to \in Nat, from < to,
         MayFollow(sz, s, n, from)
  PROVE  /\ FramedBy(sz, s \o Chunk(n, from, to))
         /\ LastIs(s \o Chunk(n, from, to), n, to)
  <1>0. PICK m \in Nat \ {0} : m = to - from /\ to = from + m
    OBVIOUS
  <1> DEFINE c == Chunk(n, from, to)
             t == s \o c
             L == Len(s)
  <1>1. L \in Nat /\ (s = << >> <=> L = 0)
    BY EmptySeq
  <1>2. /\ c \in Seq(Byte) /\ Len(c) = m
        /\ \A j \in 1..m : c[j] = [msg |-> n, k |-> from + j]
    <2>1. from <= to
      OBVIOUS
    <2> QED
      BY <1>0, <2>1, ChunkBytes
  <1> HIDE DEF c
  <1>3. /\ t \in Seq(Byte) /\ Len(t) = L + m
        /\ \A i \in 1..L : t[i] = s[i]
        /\ \A i \in 1..m : t[L + i] = c[i]
    BY <1>2, ConcatBytes
  <1> HIDE DEF t
  <1>4. \A j \in 1..m : t[L + j] = [msg |-> n, k |-> from + j]
    BY <1>2, <1>3
  <1> HIDE DEF L
  <1>5. FramedBy(sz, t)
    <2> SUFFICES ASSUME NEW i \in 1..Len(t)
                 PROVE  IF t[i].k = 1
                        THEN i = 1 \/ t[i - 1].k = sz[t[i - 1].msg]
                        ELSE i > 1 /\ t[i - 1] = [t[i] EXCEPT !.k = @ - 1]
      BY DEF FramedBy
    <2>1. CASE i <= L
      <3>1. i \in 1..L /\ t[i] = s[i] /\ (i # 1 => t[i - 1] = s[i - 1])
        BY <1>1, <1>3, <2>1
      <3>2. IF s[i].k = 1
            THEN i = 1 \/ s[i - 1].k = sz[s[i - 1].msg]
            ELSE i > 1 /\ s[i - 1] = [s[i] EXCEPT !.k = @ - 1]
        BY <3>1 DEF FramedBy, L
      <3> QED
        BY <3>1, <3>2
    <2>2. CASE i = L + 1
      <3>1. t[i] = [msg |-> n, k |-> from + 1] /\ (L # 0 => i - 1 = L /\ t[L] = s[L])
        <4>1. 1 \in 1..m
          OBVIOUS
        <4>2. t[L + 1] = [msg |-> n, k |-> from + 1]
          BY <1>4, <4>1
        <4>3. L # 0 => L \in 1..L /\ i - 1 = L
          BY <1>1, <2>2
        <4> QED
          BY <1>3, <2>2, <4>2, <4>3
      <3>2. CASE from = 0 /\ (s = << >> \/ s[Len(s)].k = sz[s[Len(s)].msg])
        <4>1. t[i].k = 1
          BY <3>1, <3>2
        <4>2. i = 1 \/ t[i - 1].k = sz[t[i - 1].msg]
          BY <1>1, <2>2, <3>1, <3>2 DEF L
        <4> QED
          BY <4>1, <4>2
      <3>3. CASE from > 0 /\ s # << >> /\ s[Len(s)] = [msg |-> n, k |-> from]
        <4>1. t[i].k # 1 /\ i > 1
          BY <1>1, <2>2, <3>1, <3>3
        <4>2. t[i - 1] = [msg |-> n, k |-> from]
          BY <1>1, <3>1, <3>3 DEF L
        <4>3. [t[i] EXCEPT !.k = @ - 1] = [msg |-> n, k |-> (from + 1) - 1]
          BY <3>1
        <4>4. (from + 1) - 1 = from
          OBVIOUS
        <4> QED
          BY <4>1, <4>2, <4>3, <4>4
      <3> QED
        BY <3>2, <3>3 DEF MayFollow, Complete, LastIs
    <2>3. CASE i > L + 1
      <3> DEFINE j == i - L
      <3>1. /\ j \in 1..m /\ j - 1 \in 1..m /\ i = L + j /\ i - 1 = L + (j - 1) /\ i > 1
        BY <1>1, <1>3, <2>3
      <3> HIDE DEF j
      <3>2. /\ t[i] = [msg |-> n, k |-> from + j]
            /\ t[i - 1] = [msg |-> n, k |-> from + (j - 1)]
        BY <1>4, <3>1
      <3>3. [t[i] EXCEPT !.k = @ - 1] = [msg |-> n, k |-> (from + j) - 1]
        BY <3>2
      <3>4. (from + j) - 1 = from + (j - 1) /\ from + j # 1
        BY <3>1
      <3> QED
        BY <3>1, <3>2, <3>3, <3>4
    <2> QED
      BY <1>1, <1>3, <2>1, <2>2, <2>3
  <1>6. LastIs(t, n, to)
    <2>1. m \in 1..m
      OBVIOUS
    <2>2. t[L + m] = [msg |-> n, k |-> to]
      BY <1>0, <1>4, <2>1
    <2>3. t # << >>
      BY <1>1, <1>3, EmptySeq
    <2> QED
      BY <1>3, <2>2, <2>3 DEF LastIs
  <1> QED
    BY <1>5, <1>6 DEF t, c

\* What the client receives when send() took the bytes c, and when it took none.
LEMMA WireGrows ==
  ASSUME NEW w \in Seq(Byte), NEW c \in Seq(Byte), Len(c) > 0
  PROVE  SubSeq(w \o c, Len(w) + 1, Len(w \o c)) = c
  <1>1. /\ Len(w) \in Nat /\ Len(c) \in Nat /\ Len(w \o c) = Len(w) + Len(c)
    BY ConcatBytes
  <1>2. /\ Len(w) + 1 \in (Len(w) + 1)..(Len(w) + Len(c))
        /\ Len(w) + Len(c) \in (Len(w) + 1)..(Len(w) + Len(c))
        /\ (Len(w) + 1) - Len(w) = 1 /\ (Len(w) + Len(c)) - Len(w) = Len(c)
    BY <1>1
  <1>3. SubSeq(w \o c, Len(w) + 1, Len(w) + Len(c)) = SubSeq(c, 1, Len(c))
    BY <1>2, SubSeqOfConcat2
  <1> QED
    BY <1>1, <1>3, SubSeqFull

LEMMA WireStays ==
  ASSUME NEW w \in Seq(Byte), NEW s \in Seq(Byte)
  PROVE  s \o SubSeq(w, Len(w) + 1, Len(w)) = s
  <1>1. SubSeq(w, Len(w) + 1, Len(w)) = << >>
    BY SubSeqEmpty
  <1> QED
    BY <1>1, ConcatEmptySeq

-----------------------------------------------------------------------------
(* Every step preserves the invariant.                                     *)

\* The size of a new message changes nothing for the ones received or queued.
LEMMA SizeKept ==
  ASSUME OInv, NEW x \in 1..(MaxMsgs + MaxDirect), NEW y \in Nat,
         (offered < x /\ x <= MaxMsgs) \/ x = NextDirect,
         size' = [size EXCEPT ![x] = y]
  PROVE  /\ size' \in [1..(MaxMsgs + MaxDirect) -> Nat] /\ size'[x] = y
         /\ \A i \in 1..Len(out) : size'[out[i].msg] = size[out[i].msg]
         /\ \A i \in 1..Len(order) : size'[data[order[i]]] = size[data[order[i]]]
  <1>1. /\ size \in [1..(MaxMsgs + MaxDirect) -> Nat] /\ directs \in 0..MaxDirect
        /\ offered \in 0..MaxMsgs /\ MaxMsgs \in Nat /\ MaxDirect \in Nat
    BY QueueAssumption, DirectAssumption DEF OInv, OutType, IInv, TypeOK
  <1>2. size' \in [1..(MaxMsgs + MaxDirect) -> Nat] /\ size'[x] = y
    BY <1>1
  <1>3. \A z \in (1..offered) \cup ((MaxMsgs + 1)..(MaxMsgs + directs)) :
          size'[z] = size[z]
    <2> TAKE z \in (1..offered) \cup ((MaxMsgs + 1)..(MaxMsgs + directs))
    <2>1. z # x /\ z \in 1..(MaxMsgs + MaxDirect)
      BY <1>1 DEF NextDirect
    <2> QED
      BY <1>1, <2>1
  <1>4. \A i \in 1..Len(out) :
          out[i].msg \in (1..offered) \cup ((MaxMsgs + 1)..(MaxMsgs + directs))
    BY DEF OInv, Known
  <1>5. \A i \in 1..Len(order) : data[order[i]] \in 1..offered
    BY DEF OInv, Sized
  <1> QED
    BY <1>2, <1>3, <1>4, <1>5

\* A step of the queue in which nothing is sent and nothing is queued: at most
\* a message is refused, or a packet freed with its client.
LEMMA CalmStep ==
  ASSUME OInv, IInv', QueueStep,
         UNCHANGED <<wire, accepted, data, len, offset>>,
         offered' \in {offered, offered + 1},
         order' = order \/ (order # << >> /\ order' = Tail(order)),
         Releasing' \/ (~Releasing /\ head' = head)
  PROVE  OInv'
  <1>1. /\ wire \in Seq(Byte) /\ accepted \in Seq(Byte) /\ order \in Seq(Packets)
        /\ offered \in 0..MaxMsgs /\ offered' \in 0..MaxMsgs
        /\ out \in Seq(Byte) /\ size \in [1..(MaxMsgs + MaxDirect) -> Nat]
        /\ directs \in 0..MaxDirect /\ MaxMsgs \in Nat /\ MaxDirect \in Nat
    BY QueueAssumption, DirectAssumption DEF OInv, IInv, TypeOK, OutType
  <1>2. out' = out /\ directs' = directs /\ harmed' = harmed
    BY <1>1, WireStays DEF QueueStep
  <1>3. /\ size' \in [1..(MaxMsgs + MaxDirect) -> Nat]
        /\ \A i \in 1..Len(out) : size'[out[i].msg] = size[out[i].msg]
        /\ \A i \in 1..Len(order) : size'[data[order[i]]] = size[data[order[i]]]
    <2>1. CASE offered' = offered
      BY <1>1, <2>1 DEF QueueStep
    <2>2. CASE offered' = offered + 1
      <3>1. size' = [size EXCEPT ![offered'] = 0]
        <4>1. offered' # offered /\ Len(accepted') - Len(accepted) = 0
          BY <1>1, <2>2
        <4> QED
          BY <4>1 DEF QueueStep
      <3>2. /\ offered' \in 1..(MaxMsgs + MaxDirect)
            /\ offered < offered' /\ offered' <= MaxMsgs
        BY <1>1, <2>2
      <3> QED
        BY <3>1, <3>2, SizeKept
    <2> QED
      BY <2>1, <2>2
  <1>4. OutType'
    BY <1>1, <1>2, <1>3 DEF OInv, OutType
  <1>5. Known'
    <2>1. \A i \in 1..Len(out) :
            out[i].msg \in (1..offered) \cup ((MaxMsgs + 1)..(MaxMsgs + directs))
      BY DEF OInv, Known
    <2>2. 1..offered \subseteq 1..offered'
      BY <1>1
    <2> QED
      BY <1>2, <2>1, <2>2 DEF Known
  <1>6. Sized'
    <2>1. \A i \in 1..Len(order) :
            /\ data[order[i]] \in 1..offered'
            /\ size'[data[order[i]]] = len[order[i]]
      <3>1. 1..offered \subseteq 1..offered'
        BY <1>1
      <3> QED
        BY <1>3, <3>1 DEF OInv, Sized
    <2>2. CASE order' = order
      BY <2>1, <2>2 DEF Sized
    <2>3. CASE order # << >> /\ order' = Tail(order)
      <3>1. /\ Len(order') = Len(order) - 1 /\ Len(order) \in Nat
            /\ \A i \in 1..Len(order') : order'[i] = order[i + 1]
        BY <1>1, <2>3, TailPackets
      <3>2. \A i \in 1..Len(order') : i + 1 \in 1..Len(order)
        BY <3>1
      <3> QED
        BY <2>1, <3>1, <3>2 DEF Sized
    <2> QED
      BY <2>2, <2>3
  <1>7. (~harmed => Framed(out) /\ Joint)'
    <2> SUFFICES ASSUME ~harmed' PROVE Framed(out)' /\ Joint'
      OBVIOUS
    <2>1. Framed(out) /\ Joint
      BY <1>2 DEF OInv
    <2>2. FramedBy(size, out)
      BY <2>1 DEF Framed, FramedBy
    <2>3. FramedBy(size', out)
      BY <1>1, <1>3, <2>2, FramedSame
    <2>4. Framed(out)'
      BY <1>2, <2>3 DEF Framed, FramedBy
    <2>5. Joint'
      <3> SUFFICES ASSUME ~Releasing' PROVE Joint'
        BY DEF Joint
      <3>1. ~Releasing /\ head' = head /\ (MidPacket' <=> MidPacket)
        BY DEF MidPacket
      <3>2. out = << >> \/ Len(out) \in 1..Len(out)
        BY <1>1, EmptySeq
      <3>3. CASE MidPacket
        BY <1>2, <2>1, <3>1, <3>3 DEF Joint
      <3>4. CASE ~MidPacket
        <4>1. out = << >> \/ out[Len(out)].k = size[out[Len(out)].msg]
          BY <2>1, <3>1, <3>4 DEF Joint
        <4>2. out = << >> \/ out[Len(out)].k = size'[out[Len(out)].msg]
          BY <1>3, <3>2, <4>1
        <4> QED
          BY <1>2, <3>1, <3>4, <4>2 DEF Joint
      <3> QED
        BY <3>3, <3>4
    <2> QED
      BY <2>4, <2>5
  <1> QED
    BY <1>4, <1>5, <1>6, <1>7 DEF OInv

\* broadcast queues a packet: its size is recorded, and it is not in progress.
LEMMA QueueingStep ==
  ASSUME OInv, IInv', QueueStep,
         NEW p \in Packets, NEW n \in PayloadLens, BroadcastEnqueue(p, n)
  PROVE  OInv'
  <1> DEFINE total == HeaderLen + n
  <1>1. /\ wire \in Seq(Byte) /\ accepted \in Seq(Byte) /\ order \in Seq(Packets)
        /\ offered \in 0..MaxMsgs /\ offered' = offered + 1 /\ offered' \in 0..MaxMsgs
        /\ out \in Seq(Byte) /\ size \in [1..(MaxMsgs + MaxDirect) -> Nat]
        /\ directs \in 0..MaxDirect /\ MaxMsgs \in Nat /\ MaxDirect \in Nat
        /\ total \in Nat
    <2>1. offered' = offered + 1 /\ n \in Nat /\ HeaderLen \in Nat
      BY QueueAssumption DEF BroadcastEnqueue
    <2>2. /\ wire \in Seq(Byte) /\ accepted \in Seq(Byte) /\ order \in Seq(Packets)
          /\ offered \in 0..MaxMsgs /\ offered' \in 0..MaxMsgs
      BY DEF OInv, IInv, TypeOK
    <2> QED
      BY <2>1, <2>2, QueueAssumption, DirectAssumption DEF OInv, OutType
  <1>2. /\ pc = "loop" /\ pc' \in {"bwrite", "arm"}
        /\ p \notin allocated
        /\ len' = [len EXCEPT ![p] = total]
        /\ offset' = [offset EXCEPT ![p] = 0]
        /\ data' = [data EXCEPT ![p] = offered + 1]
        /\ head' = IF tail = NULL THEN p ELSE head
        /\ accepted' = accepted \o Chunk(offered + 1, 0, total)
        /\ order' = Append(order, p)
        /\ wire' = wire
    BY DEF BroadcastEnqueue, create_packet, client_enqueue_msg_packet
  <1>3. out' = out /\ directs' = directs /\ harmed' = harmed
    BY <1>1, <1>2, WireStays DEF QueueStep
  <1>4. Len(accepted') - Len(accepted) = total
    <2> HIDE DEF total
    <2>1. /\ offered + 1 \in Nat /\ 0 \in Nat /\ 0 <= total /\ total - 0 = total
      BY <1>1
    <2>2. /\ Chunk(offered + 1, 0, total) \in Seq(Byte)
          /\ Len(Chunk(offered + 1, 0, total)) = total
      BY <1>1, <2>1, ChunkBytes
    <2>3. Len(accepted') = Len(accepted) + total
      BY <1>1, <1>2, <2>2, ConcatBytes
    <2> QED
      BY <1>1, <2>3
  <1> HIDE DEF total
  <1>5. /\ size' \in [1..(MaxMsgs + MaxDirect) -> Nat]
        /\ size'[offered + 1] = total
        /\ \A i \in 1..Len(out) : size'[out[i].msg] = size[out[i].msg]
        /\ \A i \in 1..Len(order) : size'[data[order[i]]] = size[data[order[i]]]
    <2>1. size' = [size EXCEPT ![offered'] = total]
      <3>1. offered' # offered
        BY <1>1
      <3> QED
        BY <1>4, <3>1 DEF QueueStep
    <2>2. /\ offered' \in 1..(MaxMsgs + MaxDirect)
          /\ offered < offered' /\ offered' <= MaxMsgs
      BY <1>1
    <2> QED
      BY <1>1, <2>1, <2>2, SizeKept
  <1>6. /\ ListShape /\ TailShape /\ ~Releasing /\ ~Releasing'
        /\ len \in [Packets -> Nat] /\ data \in [Packets -> Nat]
        /\ offset \in [Packets -> Nat]
    BY <1>2 DEF OInv, IInv, TypeOK, Releasing
  <1>7. \A i \in 1..Len(order) : order[i] \in Packets /\ order[i] # p
    <2>1. allocated = {order[i] : i \in 1..Len(order)}
      BY <1>6 DEF ListShape
    <2> QED
      BY <1>1, <1>2, <2>1
  <1>8. OutType'
    BY <1>1, <1>3, <1>5 DEF OInv, OutType
  <1>9. Known'
    <2>1. \A i \in 1..Len(out) :
            out[i].msg \in (1..offered) \cup ((MaxMsgs + 1)..(MaxMsgs + directs))
      BY DEF OInv, Known
    <2>2. 1..offered \subseteq 1..offered'
      BY <1>1
    <2> QED
      BY <1>3, <2>1, <2>2 DEF Known
  <1>10. Sized'
    <2> SUFFICES ASSUME NEW i \in 1..Len(order')
                 PROVE  /\ data'[order'[i]] \in 1..offered'
                        /\ size'[data'[order'[i]]] = len'[order'[i]]
      BY DEF Sized
    <2>1. /\ Len(order') = Len(order) + 1 /\ Len(order) \in Nat
          /\ \A j \in 1..Len(order) : order'[j] = order[j]
          /\ order'[Len(order) + 1] = p
      BY <1>1, <1>2, AppendPacket
    <2>2. CASE i \in 1..Len(order)
      <3>1. order'[i] = order[i] /\ data'[order[i]] = data[order[i]]
            /\ len'[order[i]] = len[order[i]]
        BY <1>2, <1>6, <1>7, <2>1, <2>2
      <3>2. data[order[i]] \in 1..offered /\ size[data[order[i]]] = len[order[i]]
        BY <2>2 DEF OInv, Sized
      <3>3. 1..offered \subseteq 1..offered'
        BY <1>1
      <3> QED
        BY <1>5, <2>2, <3>1, <3>2, <3>3
    <2>3. CASE i = Len(order) + 1
      <3>1. order'[i] = p /\ data'[p] = offered + 1 /\ len'[p] = total
        BY <1>2, <1>6, <2>1, <2>3
      <3>2. offered + 1 \in 1..offered'
        BY <1>1
      <3> QED
        BY <1>5, <3>1, <3>2
    <2> QED
      BY <2>1, <2>2, <2>3
  <1>11. (~harmed => Framed(out) /\ Joint)'
    <2> SUFFICES ASSUME ~harmed' PROVE Framed(out)' /\ Joint'
      OBVIOUS
    <2>1. Framed(out) /\ Joint
      BY <1>3 DEF OInv
    <2>2. FramedBy(size', out)
      <3>1. FramedBy(size, out)
        BY <2>1 DEF Framed, FramedBy
      <3> QED
        BY <1>1, <1>5, <3>1, FramedSame
    <2>3. Framed(out)'
      BY <1>3, <2>2 DEF Framed, FramedBy
    <2>4. (MidPacket' <=> MidPacket)
          /\ (MidPacket => head' = head /\ data'[head] = data[head]
                           /\ offset'[head] = offset[head])
      <3>1. CASE order = << >>
        <4>1. head = NULL /\ tail = NULL
          BY <1>6, <3>1 DEF ListShape, TailShape
        <4>2. head' = p /\ offset'[p] = 0
          BY <1>2, <1>6, <4>1
        <4> QED
          BY <4>1, <4>2 DEF MidPacket
      <3>2. CASE order # << >>
        <4>1. Len(order) \in 1..Len(order) /\ 1 \in 1..Len(order)
          BY <1>1, <3>2, EmptySeq
        <4>2. tail = order[Len(order)] /\ head = order[1]
          BY <1>6, <3>2 DEF ListShape, TailShape
        <4>3. tail # NULL /\ head \in Packets /\ head # p
          BY <1>7, <4>1, <4>2, QueueAssumption
        <4>4. head' = head /\ data'[head] = data[head] /\ offset'[head] = offset[head]
          BY <1>2, <1>6, <4>3
        <4> QED
          BY <4>4 DEF MidPacket
      <3> QED
        BY <3>1, <3>2
    <2>5. Joint'
      <3>1. out = << >> \/ Len(out) \in 1..Len(out)
        BY <1>1, EmptySeq
      <3>2. CASE MidPacket
        BY <1>3, <1>6, <2>1, <2>4, <3>2 DEF Joint
      <3>3. CASE ~MidPacket
        <4>1. out = << >> \/ out[Len(out)].k = size'[out[Len(out)].msg]
          BY <1>5, <1>6, <2>1, <3>1, <3>3 DEF Joint
        <4> QED
          BY <1>3, <2>4, <3>3, <4>1 DEF Joint
      <3> QED
        BY <3>2, <3>3
    <2> QED
      BY <2>3, <2>5
  <1> QED
    BY <1>8, <1>9, <1>10, <1>11 DEF OInv

\* send() takes m bytes of the head packet: they go on where its last ones
\* ended, or begin where another message has ended.
LEMMA TransmitStep ==
  ASSUME OInv, IInv', QueueStep, ~Releasing, ~Releasing', head # NULL,
         NEW m \in Nat \ {0}, m \in 1..Remaining, Sent(m),
         UNCHANGED <<data, len, offered>>,
         \/ m < Remaining /\ head' = head /\ order' = order
         \/ m = Remaining /\ order' = Tail(order)
  PROVE  OInv'
  <1>1. /\ wire \in Seq(Byte) /\ order \in Seq(Packets) /\ data \in [Packets -> Nat]
        /\ out \in Seq(Byte) /\ size \in [1..(MaxMsgs + MaxDirect) -> Nat]
    BY DEF OInv, IInv, TypeOK, OutType
  <1>a. /\ head \in Packets /\ offset[head] \in Nat /\ data[head] \in Nat
    <2>1. head \in Packets /\ offset[head] \in Nat
      BY SentBytes DEF OInv
    <2> QED
      BY <1>1, <2>1
  <1>b. PICK o \in Nat : o = offset[head]
    BY <1>a
  <1>c. PICK d \in Nat : d = data[head]
    BY <1>a
  <1>d. PICK e \in Nat : e = o + m /\ o < e /\ e - o = m
    OBVIOUS
  <1> DEFINE c == Chunk(d, o, e)
  <1>2. /\ order # << >> /\ Len(order) \in Nat \ {0}
        /\ head = order[1] /\ head \in Packets
        /\ len[head] \in Nat /\ o + m <= len[head]
        /\ offset'[head] = o + m
        /\ \A i \in 1..Len(order) : i > 1 => offset'[order[i]] = 0
    BY <1>b, SentBytes DEF OInv
  <1>3. o + m \in Nat
    OBVIOUS
  <1>4. c \in Seq(Byte) /\ Len(c) = m /\ \A j \in 1..m : c[j].msg = d
    <2>1. o <= e
      BY <1>d
    <2>2. /\ c \in Seq(Byte) /\ Len(c) = e - o
          /\ \A j \in 1..(e - o) : c[j] = [msg |-> d, k |-> o + j]
      BY <2>1, ChunkBytes
    <2> HIDE DEF c
    <2> QED
      BY <1>d, <2>2
  <1>5. wire' = wire \o c
    BY <1>b, <1>c, <1>d DEF Sent
  <1>6. /\ out' = out \o c /\ size' = size /\ directs' = directs /\ harmed' = harmed
    <2> HIDE DEF c
    <2>1. Len(c) > 0
      BY <1>3, <1>4
    <2>2. SubSeq(wire', Len(wire) + 1, Len(wire')) = c
      BY <1>1, <1>4, <1>5, <2>1, WireGrows
    <2> QED
      BY <2>2 DEF QueueStep
  <1>7. d \in 1..offered /\ size[d] = len[head]
    BY <1>2, <1>c DEF OInv, Sized
  <1>8. /\ out' \in Seq(Byte) /\ Len(out') = Len(out) + m
        /\ \A i \in 1..Len(out) : out'[i] = out[i]
        /\ \A i \in (Len(out) + 1)..(Len(out) + m) : out'[i].msg = d
    <2> HIDE DEF c
    <2>1. /\ out' \in Seq(Byte) /\ Len(out') = Len(out) + m
          /\ \A i \in 1..Len(out) : out'[i] = out[i]
          /\ \A i \in 1..m : out'[Len(out) + i] = c[i]
      <3>1. out \in Seq(Byte) /\ c \in Seq(Byte)
        BY <1>1, <1>4
      <3>2. /\ out \o c \in Seq(Byte) /\ Len(out \o c) = Len(out) + Len(c)
            /\ \A i \in 1..Len(out) : (out \o c)[i] = out[i]
            /\ \A i \in 1..Len(c) : (out \o c)[Len(out) + i] = c[i]
        BY <3>1, ConcatBytes
      <3>3. out' = out \o c /\ Len(c) = m
        BY <1>4, <1>6
      <3> QED
        BY <3>2, <3>3
    <2>2. \A i \in 1..m : c[i].msg = d
      BY <1>4
    <2>3. ASSUME NEW i \in (Len(out) + 1)..(Len(out) + m) PROVE out'[i].msg = d
      <3>1. i - Len(out) \in 1..m /\ Len(out) + (i - Len(out)) = i
        BY <1>1, <1>3
      <3> QED
        BY <2>1, <2>2, <3>1
    <2> QED
      BY <2>1, <2>3
  <1>9. OutType'
    BY <1>6, <1>8 DEF OInv, OutType
  <1>10. Known'
    <2> SUFFICES ASSUME NEW i \in 1..Len(out')
                 PROVE  out'[i].msg \in (1..offered) \cup ((MaxMsgs + 1)..(MaxMsgs + directs))
      BY <1>6 DEF Known
    <2>1. CASE i \in 1..Len(out)
      BY <1>8, <2>1 DEF OInv, Known
    <2>2. CASE i \in (Len(out) + 1)..(Len(out) + m)
      BY <1>7, <1>8, <2>2
    <2> QED
      BY <1>1, <1>3, <1>8, <2>1, <2>2
  <1>11. Sized'
    <2>1. \A i \in 1..Len(order) :
            data[order[i]] \in 1..offered /\ size[data[order[i]]] = len[order[i]]
      BY DEF OInv, Sized
    <2>2. CASE order' = order
      BY <1>6, <2>1, <2>2 DEF Sized
    <2>3. CASE order' = Tail(order)
      <3>1. /\ Len(order') = Len(order) - 1
            /\ \A i \in 1..Len(order') : order'[i] = order[i + 1]
        BY <1>1, <1>2, <2>3, TailPackets
      <3>2. \A i \in 1..Len(order') : i + 1 \in 1..Len(order)
        BY <1>2, <3>1
      <3>3. ASSUME NEW i \in 1..Len(order')
            PROVE  data[order'[i]] \in 1..offered /\ size[data[order'[i]]] = len[order'[i]]
        <4>1. PICK j \in 1..Len(order) : j = i + 1
          BY <3>2
        <4>2. order'[i] = order[j]
          BY <3>1, <4>1
        <4> QED
          BY <2>1, <4>2, Zenon
      <3> QED
        BY <1>6, <3>3 DEF Sized
    <2> QED
      BY <2>2, <2>3
  <1>12. (~harmed => Framed(out) /\ Joint)'
    <2> SUFFICES ASSUME ~harmed' PROVE Framed(out)' /\ Joint'
      OBVIOUS
    <2>1. FramedBy(size, out) /\ Joint
      BY <1>6 DEF OInv, Framed, FramedBy
    <2>2. MayFollow(size, out, d, o)
      <3>1. CASE o > 0
        BY <1>b, <1>c, <2>1, <3>1 DEF Joint, MidPacket, MayFollow, LastIs
      <3>2. CASE o = 0
        <4>1. ~MidPacket
          BY <1>b, <3>2 DEF MidPacket
        <4> QED
          BY <2>1, <3>2, <4>1 DEF Joint, MayFollow, Complete
      <3> QED
        BY <1>2, <3>1, <3>2
    <2>3. FramedBy(size, out') /\ LastIs(out', d, e)
      BY <1>1, <1>6, <1>d, <2>1, <2>2, FramedMore
    <2>4. Framed(out)'
      BY <1>6, <2>3 DEF Framed, FramedBy
    <2>5. out' # << >> /\ out'[Len(out')] = [msg |-> d, k |-> o + m]
      BY <1>d, <2>3 DEF LastIs
    <2>6. CASE m < Remaining /\ head' = head
      <3>1. MidPacket'
        BY <1>2, <1>3, <2>6 DEF MidPacket
      <3>2. data'[head'] = d /\ offset'[head'] = o + m
        BY <1>2, <1>c, <2>6
      <3>3. Joint'
        BY <2>5, <3>1, <3>2 DEF Joint
      <3> QED
        BY <2>4, <3>3
    <2>7. CASE m = Remaining /\ order' = Tail(order)
      <3>1. o + m = len[head]
        BY <1>2, <1>3, <1>b, <2>7 DEF Remaining
      <3>2. ~MidPacket'
        <4>1. ListShape'
          BY DEF IInv
        <4>2. /\ Len(order') = Len(order) - 1
              /\ \A i \in 1..Len(order') : order'[i] = order[i + 1]
              /\ order' \in Seq(Packets)
          BY <1>1, <1>2, <2>7, TailPackets
        <4>3. CASE order' = << >>
          BY <4>1, <4>3 DEF ListShape, MidPacket
        <4>4. CASE order' # << >>
          <5>1. 1 \in 1..Len(order') /\ 2 \in 1..Len(order)
            BY <1>2, <4>2, <4>4, EmptySeq
          <5>2. head' = order[2]
            BY <4>1, <4>2, <4>4, <5>1 DEF ListShape
          <5>3. offset'[head'] = 0
            BY <1>2, <5>1, <5>2
          <5> QED
            BY <5>3 DEF MidPacket
        <4> QED
          BY <4>3, <4>4
      <3>3. out'[Len(out')].k = size'[out'[Len(out')].msg]
        BY <1>6, <1>7, <2>5, <3>1
      <3>4. Joint'
        BY <3>2, <3>3 DEF Joint
      <3> QED
        BY <2>4, <3>4
    <2> QED
      BY <2>6, <2>7
  <1> QED
    BY <1>9, <1>10, <1>11, <1>12 DEF OInv

\* A message past the queue: unless it is cut, or sent inside a packet, it
\* begins where another has ended, and ends itself.
LEMMA SendDirectStep ==
  ASSUME OInv, NEW n \in PayloadLens, NEW k \in 0..(HeaderLen + n), SendDirect(n, k)
  PROVE  OInv'
  <1>1. /\ directs < MaxDirect /\ pc = "loop"
        /\ out' = out \o Chunk(NextDirect, 0, k)
        /\ size' = [size EXCEPT ![NextDirect] = HeaderLen + n]
        /\ directs' = directs + 1
        /\ UNCHANGED vars
    BY DEF SendDirect
  <1>2. /\ out \in Seq(Byte) /\ size \in [1..(MaxMsgs + MaxDirect) -> Nat]
        /\ directs \in 0..MaxDirect /\ MaxMsgs \in Nat /\ MaxDirect \in Nat
        /\ HeaderLen + n \in Nat /\ k \in Nat
    BY QueueAssumption, DirectAssumption DEF OInv, OutType
  <1>3. IInv' /\ UNCHANGED <<order, data, len, offered, head, offset, pc>>
    BY <1>1, StutterStep DEF OInv, vars, heapVars, queueVars, ghostVars
  <1>4. PICK d \in Nat : d = NextDirect /\ d \in 1..(MaxMsgs + MaxDirect)
                         /\ d = MaxMsgs + directs'
    BY <1>1, <1>2 DEF NextDirect
  <1>5. /\ size' \in [1..(MaxMsgs + MaxDirect) -> Nat] /\ size'[d] = HeaderLen + n
        /\ \A i \in 1..Len(out) : size'[out[i].msg] = size[out[i].msg]
        /\ \A i \in 1..Len(order) : size'[data[order[i]]] = size[data[order[i]]]
    BY <1>1, <1>2, <1>4, SizeKept
  <1> DEFINE c == Chunk(d, 0, k)
  <1>6. c \in Seq(Byte) /\ Len(c) = k /\ \A j \in 1..k : c[j].msg = d
    <2>1. 0 \in Nat /\ 0 <= k /\ k - 0 = k
      BY <1>2
    <2>2. /\ c \in Seq(Byte) /\ Len(c) = k - 0
          /\ \A j \in 1..(k - 0) : c[j] = [msg |-> d, k |-> 0 + j]
      BY <1>2, <2>1, ChunkBytes
    <2> HIDE DEF c
    <2> QED
      BY <2>1, <2>2
  <1>7. out' = out \o c
    BY <1>1, <1>4
  <1>8. OutType'
    <2> HIDE DEF c
    <2>1. out' \in Seq(Byte)
      BY <1>2, <1>6, <1>7, ConcatBytes
    <2>2. directs' \in 0..MaxDirect
      BY <1>1, <1>2
    <2>3. harmed' \in BOOLEAN
      BY Zenon DEF SendDirect
    <2> QED
      BY <1>5, <2>1, <2>2, <2>3 DEF OutType
  <1>9. Known'
    <2> SUFFICES ASSUME NEW i \in 1..Len(out')
                 PROVE  out'[i].msg \in (1..offered) \cup ((MaxMsgs + 1)..(MaxMsgs + directs'))
      BY <1>3 DEF Known
    <2> HIDE DEF c
    <2>1. /\ Len(out') = Len(out) + k
          /\ \A j \in 1..Len(out) : out'[j] = out[j]
          /\ \A j \in 1..k : out'[Len(out) + j] = c[j]
      BY <1>2, <1>6, <1>7, ConcatBytes
    <2>2. CASE i \in 1..Len(out)
      <3>1. out[i].msg \in (1..offered) \cup ((MaxMsgs + 1)..(MaxMsgs + directs))
        BY <2>2 DEF OInv, Known
      <3>2. (MaxMsgs + 1)..(MaxMsgs + directs) \subseteq (MaxMsgs + 1)..(MaxMsgs + directs')
        BY <1>1, <1>2
      <3> QED
        BY <2>1, <2>2, <3>1, <3>2
    <2>3. CASE ~(i \in 1..Len(out))
      <3>1. i - Len(out) \in 1..k /\ Len(out) + (i - Len(out)) = i
        BY <1>2, <2>1, <2>3
      <3>2. out'[i].msg = d
        BY <1>6, <2>1, <3>1
      <3>3. d \in (MaxMsgs + 1)..(MaxMsgs + directs')
        BY <1>1, <1>2, <1>4
      <3> QED
        BY <3>2, <3>3
    <2> QED
      BY <2>2, <2>3
  <1>10. Sized'
    BY <1>3, <1>5 DEF OInv, Sized
  <1>11. (~harmed => Framed(out) /\ Joint)'
    <2> SUFFICES ASSUME ~harmed' PROVE Framed(out)' /\ Joint'
      OBVIOUS
    <2>1. /\ ~harmed /\ ~MidPacket
          /\ k = 0 \/ k = HeaderLen + n
      <3>1. ~harmed /\ ~MidPacket /\ ~(0 < k /\ k < HeaderLen + n)
        BY DEF SendDirect
      <3> QED
        BY <1>2, <3>1
    <2>2. FramedBy(size, out) /\ Joint
      BY <2>1 DEF OInv, Framed, FramedBy
    <2>3. ~Releasing /\ ~Releasing' /\ ~MidPacket'
      BY <1>1, <1>3, <2>1 DEF Releasing, MidPacket
    <2>4. FramedBy(size', out)
      BY <1>2, <1>5, <2>2, FramedSame
    <2>5. Complete(size', out)
      <3>1. out = << >> \/ Len(out) \in 1..Len(out)
        BY <1>2, EmptySeq
      <3>2. Complete(size, out)
        BY <2>1, <2>2, <2>3 DEF Joint, Complete
      <3> QED
        BY <1>5, <3>1, <3>2 DEF Complete
    <2>6. FramedBy(size', out') /\ Complete(size', out')
      <3>1. CASE k = 0
        <4>1. c = << >>
          <5> HIDE DEF c
          <5> QED
            BY <1>6, <3>1, EmptySeq
        <4>2. out' = out
          BY <1>2, <1>7, <4>1, ConcatEmptySeq
        <4> QED
          BY <2>4, <2>5, <4>2
      <3>2. CASE k > 0
        <4>1. MayFollow(size', out, d, 0)
          BY <2>5 DEF MayFollow
        <4>2. 0 \in Nat /\ k \in Nat /\ 0 < k
          BY <1>2, <3>2
        <4>3. FramedBy(size', out') /\ LastIs(out', d, k)
          BY <1>2, <1>7, <2>4, <4>1, <4>2, FramedMore
        <4>4. k = HeaderLen + n
          BY <2>1, <3>2
        <4>5. Complete(size', out')
          BY <1>5, <4>3, <4>4 DEF Complete, LastIs
        <4> QED
          BY <4>3, <4>5
      <3> QED
        BY <1>2, <3>1, <3>2
    <2>7. Framed(out)'
      BY <2>6 DEF Framed, FramedBy
    <2>8. Joint'
      BY <2>3, <2>6 DEF Joint, Complete
    <2> QED
      BY <2>7, <2>8
  <1> QED
    BY <1>3, <1>8, <1>9, <1>10, <1>11 DEF OInv

LEMMA InitOInv == OutInit => OInv
  <1> SUFFICES ASSUME OutInit PROVE OInv
    OBVIOUS
  <1>1. Init /\ out = << >> /\ directs = 0 /\ harmed = FALSE
        /\ size = [m \in 1..(MaxMsgs + MaxDirect) |-> 0]
    BY DEF OutInit
  <1>2. IInv /\ Len(order) = 0 /\ Len(out) = 0
    BY <1>1, InitIInv DEF Init
  <1>3. OutType
    <2>1. out \in Seq(Byte)
      BY <1>1
    <2>2. size \in [1..(MaxMsgs + MaxDirect) -> Nat]
      BY <1>1
    <2>3. directs \in 0..MaxDirect
      BY <1>1, DirectAssumption
    <2>4. harmed \in BOOLEAN
      BY <1>1
    <2> QED
      BY <2>1, <2>2, <2>3, <2>4 DEF OutType
  <1>4. Known /\ Sized
    BY <1>2 DEF Known, Sized
  <1>5. Framed(out) /\ Joint
    <2>1. ~MidPacket
      BY <1>1 DEF Init, MidPacket
    <2> QED
      BY <1>1, <1>2, <2>1 DEF Framed, Joint
  <1> QED
    BY <1>2, <1>3, <1>4, <1>5 DEF OInv

\* One case per kind of step of the queue.
LEMMA QueueStepOInv ==
  ASSUME OInv, QueueStep
  PROVE  OInv'
  <1>1. IInv' /\ Next
    BY NextIInv DEF OInv, QueueStep
  <1> USE DEF heapVars, queueVars, ghostVars
  <1>2. CASE \E p \in Packets, n \in PayloadLens : BroadcastEnqueue(p, n)
    BY <1>1, <1>2, QueueingStep
  <1>3. CASE Send
    <2>1. /\ ~Releasing /\ ~Releasing' /\ head # NULL
          /\ UNCHANGED <<data, len, offered>>
      BY <1>3 DEF Send, SendLast, SendPart, Writing, Releasing
    <2>2. head \in Packets /\ Remaining \in Int
      <3>1. head \in Packets
        BY <2>1 DEF OInv, IInv, TypeOK
      <3>2. len[head] \in Nat /\ offset[head] \in Nat
        BY <3>1 DEF OInv, IInv, TypeOK
      <3> QED
        BY <3>1, <3>2 DEF Remaining
    <2>3. CASE SendLast
      <3>1. /\ Remaining \in Nat \ {0} /\ Remaining \in 1..Remaining
            /\ Sent(Remaining) /\ order' = Tail(order)
        BY <2>2, <2>3 DEF SendLast
      <3> QED
        BY <1>1, <2>1, <3>1, TransmitStep
    <2>4. CASE \E m \in 1..MSG_SIZE_LIMIT : SendPart(m)
      <3>1. PICK m \in 1..MSG_SIZE_LIMIT : SendPart(m)
        BY <2>4
      <3>2. /\ m \in Nat \ {0} /\ m \in 1..Remaining /\ m < Remaining
            /\ Sent(m) /\ head' = head /\ order' = order
        BY <2>2, <3>1, QueueAssumption DEF SendPart
      <3> QED
        BY <1>1, <2>1, <3>2, TransmitStep
    <2> QED
      BY <1>3, <2>3, <2>4 DEF Send
  <1>4. CASE ReleaseOne
    <2>1. /\ UNCHANGED <<wire, accepted, data, len, offset, offered>>
          /\ Releasing' /\ order' = Tail(order) /\ head # NULL
      BY <1>4 DEF ReleaseOne, Releasing
    <2>2. order # << >>
      BY <2>1 DEF OInv, IInv, ListShape
    <2> QED
      BY <1>1, <2>1, <2>2, CalmStep
  <1>5. CASE (\E n \in PayloadLens : BroadcastDrop(n)) \/ BroadcastNoMemory
    <2>1. /\ UNCHANGED <<wire, accepted, data, len, offset, order, head>>
          /\ offered' = offered + 1 /\ ~Releasing
      BY <1>5 DEF BroadcastDrop, BroadcastNoMemory, Releasing
    <2> QED
      BY <1>1, <2>1, CalmStep
  <1>6. CASE \/ BroadcastArm \/ EpolloutEvent \/ SendWouldBlock \/ SendFails
             \/ WriteDone \/ Disconnect \/ BeginRelease \/ ReleaseDone
    <2>1. /\ UNCHANGED <<wire, accepted, data, len, offset, order, head, offered>>
          /\ Releasing' \/ ~Releasing
      BY <1>6 DEF BroadcastArm, EpolloutEvent, SendWouldBlock, SendFails, WriteDone,
                  Disconnect, BeginRelease, ReleaseDone, Writing, Releasing
    <2> QED
      BY <1>1, <2>1, CalmStep
  <1> QED
    BY <1>1, <1>2, <1>3, <1>4, <1>5, <1>6 DEF Next

LEMMA NextOInv ==
  ASSUME OInv, [OutNext]_<<vars, outVars>>
  PROVE  OInv'
  <1>1. CASE QueueStep
    BY <1>1, QueueStepOInv
  <1>2. CASE \E n \in PayloadLens : \E k \in 0..(HeaderLen + n) : SendDirect(n, k)
    BY <1>2, SendDirectStep
  <1>3. CASE UNCHANGED <<vars, outVars>>
    <2>1. IInv'
      BY <1>3, StutterStep DEF OInv
    <2>2. (OutType /\ Known /\ Sized /\ (~harmed => Framed(out) /\ Joint))'
      BY <1>3 DEF OInv, OutType, Known, Sized, Framed, Joint, MidPacket, Releasing, vars,
                  outVars, heapVars, queueVars, ghostVars
    <2> QED
      BY <2>1, <2>2 DEF OInv
  <1> QED
    BY <1>1, <1>2, <1>3 DEF OutNext

\* As long as no direct message is cut or written inside a packet that
\* client_try_write has sent in part, the client can tell the messages apart:
\* the two ways of sending do no other harm.
THEOREM DirectSound == OutSpec => []FramedUnlessHarmed
  <1>1. OInv => FramedUnlessHarmed
    BY DEF OInv, FramedUnlessHarmed
  <1> QED
    BY <1>1, InitOInv, NextOInv, PTL DEF OutSpec

\* Messages past the queue leave the queue as it is: whatever is proved of
\* MsgQueue holds with them.
THEOREM QueueUnaffected == OutSpec => Spec
  <1>1. OutInit => Init
    BY DEF OutInit
  <1>2. [OutNext]_<<vars, outVars>> => [Next]_vars
    BY DEF OutNext, QueueStep, SendDirect
  <1> QED
    BY <1>1, <1>2, PTL DEF OutSpec, Spec
=============================================================================
