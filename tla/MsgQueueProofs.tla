--------------------------- MODULE MsgQueueProofs ---------------------------
(***************************************************************************)
(* The safety properties of MsgQueue, proved for every set of packet       *)
(* addresses, every header and payload length and every queue limit.       *)
(***************************************************************************)
EXTENDS MsgQueue, SequenceTheorems, TLAPS

-----------------------------------------------------------------------------
(* The inductive invariant.                                                *)

\* The bytes a queued packet holds are the ones accepted at its place.
Content ==
  \A i \in 1..Len(order) :
    /\ len[order[i]] > 0
    /\ at[order[i]] + len[order[i]] <= Len(accepted)
    /\ \A k \in 1..len[order[i]] :
         accepted[at[order[i]] + k] = [msg |-> data[order[i]], k |-> k]

\* The queued packets lie back to back in accepted; the first unsent byte of
\* the head packet is the first byte not on the wire, and the last packet
\* ends where accepted ends.
Positions ==
  ~Releasing =>
    /\ order = << >> => Len(wire) = Len(accepted)
    /\ order # << >> =>
         /\ at[order[1]] + offset[order[1]] = Len(wire)
         /\ offset[order[1]] < len[order[1]]
         /\ at[order[Len(order)]] + len[order[Len(order)]] = Len(accepted)
    /\ \A i \in 1..Len(order) :
         i > 1 => /\ offset[order[i]] = 0
                  /\ at[order[i]] = at[order[i - 1]] + len[order[i - 1]]

\* Inside a handler the registration is known, too.
Registration ==
  (~EpollCtlMayFail /\ ~closed) =>
    /\ pc = "loop" => (epollout_enabled <=> head # NULL)
    /\ pc = "bwrite" => ~epollout_enabled
    /\ pc = "ewrite" => epollout_enabled
    /\ pc = "arm" => (epollout_enabled => head # NULL)

IInv ==
  /\ TypeOK
  /\ ListShape
  /\ TailShape
  /\ Content
  /\ Positions
  /\ StreamIntact
  /\ Accounting
  /\ Registration

-----------------------------------------------------------------------------
(* Lemmas on the operators the model is built from.                        *)

\* What a part of a packet looks like on the wire: its length and its bytes.
LEMMA ChunkBytes ==
  ASSUME NEW n \in Nat, NEW from \in Nat, NEW to \in Nat, from <= to
  PROVE  /\ Chunk(n, from, to) \in Seq(Byte)
         /\ Len(Chunk(n, from, to)) = to - from
         /\ \A j \in 1..(to - from) :
              Chunk(n, from, to)[j] = [msg |-> n, k |-> from + j]
  <1> DEFINE c == Chunk(n, from, to)
  <1>1. c = [j \in 1..(to - from) |-> [msg |-> n, k |-> from + j]]
    BY DEF Chunk
  <1>2. to - from \in Nat
    OBVIOUS
  <1>3. \A j \in 1..(to - from) : [msg |-> n, k |-> from + j] \in Byte
    BY DEF Byte
  <1> HIDE DEF c
  <1>4. c \in [1..(to - from) -> Byte]
    BY <1>1, <1>3
  <1>5. c \in Seq(Byte) /\ Len(c) = to - from
    BY <1>2, <1>4
  <1> QED
    BY <1>1, <1>5 DEF c

\* The bytes of two concatenated byte sequences.
LEMMA ConcatBytes ==
  ASSUME NEW s \in Seq(Byte), NEW t \in Seq(Byte)
  PROVE  /\ s \o t \in Seq(Byte)
         /\ Len(s \o t) = Len(s) + Len(t)
         /\ \A i \in 1..Len(s) : (s \o t)[i] = s[i]
         /\ \A i \in 1..Len(t) : (s \o t)[Len(s) + i] = t[i]
  <1>1. \A i \in 1..Len(s) + Len(t) :
          (s \o t)[i] = IF i <= Len(s) THEN s[i] ELSE t[i - Len(s)]
    BY ConcatProperties
  <1> QED
    BY <1>1, ConcatProperties

\* The list of packets after an arrival and after the departure of the head.
LEMMA AppendPacket ==
  ASSUME NEW s \in Seq(Packets), NEW p \in Packets
  PROVE  /\ Append(s, p) \in Seq(Packets)
         /\ Len(Append(s, p)) = Len(s) + 1
         /\ \A i \in 1..Len(s) : Append(s, p)[i] = s[i]
         /\ Append(s, p)[Len(s) + 1] = p
         /\ Append(s, p) # << >>
  OBVIOUS

LEMMA TailPackets ==
  ASSUME NEW s \in Seq(Packets), s # << >>
  PROVE  /\ Tail(s) \in Seq(Packets)
         /\ Len(Tail(s)) = Len(s) - 1
         /\ Len(s) > 0
         /\ \A i \in 1..Len(Tail(s)) : Tail(s)[i] = s[i + 1]
         /\ Tail(s) = << >> <=> Len(s) = 1
  <1>1. Len(s) \in Nat \ {0}
    BY EmptySeq
  <1>2. /\ Tail(s) \in Seq(Packets)
        /\ Len(Tail(s)) = Len(s) - 1
    BY <1>1
  <1>3. \A i \in 1..Len(Tail(s)) : Tail(s)[i] = s[i + 1]
    BY <1>1, <1>2
  <1>4. Tail(s) = << >> <=> Len(s) = 1
    <2> DEFINE t == Tail(s)
    <2>1. t \in Seq(Packets)
      BY <1>2
    <2> HIDE DEF t
    <2>2. t = << >> <=> Len(t) = 0
      BY <2>1, EmptySeq
    <2> QED
      BY <1>1, <1>2, <2>2 DEF t
  <1> QED
    BY <1>1, <1>2, <1>3, <1>4

LEMMA InitIInv == Init => IInv
  <1> SUFFICES ASSUME Init PROVE IInv
    OBVIOUS
  <1> USE QueueAssumption DEF Init
  <1>1. TypeOK
    <2>1. /\ wire \in Seq(Byte) /\ accepted \in Seq(Byte)
          /\ order \in Seq(Packets)
      BY EmptySeq
    <2>2. epollout_enabled \in BOOLEAN /\ closed \in BOOLEAN
      OBVIOUS
    <2>3. /\ queued_bytes \in 0..MSG_SIZE_LIMIT /\ queued_count \in Nat
          /\ offered \in 0..MaxMsgs
      OBVIOUS
    <2> QED
      BY <2>1, <2>2, <2>3 DEF TypeOK, PCs
  <1>2. Len(order) = 0 /\ Len(wire) = 0 /\ Len(accepted) = 0
    OBVIOUS
  <1>3. ListShape /\ TailShape
    BY <1>2 DEF ListShape, TailShape
  <1>4. Content /\ Positions /\ StreamIntact /\ Accounting
    BY <1>2 DEF Content, Positions, StreamIntact, Accounting
  <1>5. Registration
    BY DEF Registration
  <1> QED
    BY <1>1, <1>3, <1>4, <1>5 DEF IInv

-----------------------------------------------------------------------------
(* Preservation, action by action.                                         *)

\* The steps that leave the list and the streams alone only have to keep the
\* registration right.
LEMMA FrameStep ==
  ASSUME IInv,
         UNCHANGED <<heapVars, queueVars, wire, ghostVars>>,
         pc' \in PCs, offered' \in 0..MaxMsgs,
         closed' \in BOOLEAN, epollout_enabled' \in BOOLEAN,
         Releasing => Releasing',
         Registration'
  PROVE  IInv'
  <1> USE DEF heapVars, queueVars, ghostVars
  <1>1. TypeOK'
    BY DEF IInv, TypeOK
  <1>2. ListShape' /\ TailShape'
    BY DEF IInv, ListShape, TailShape
  <1>3. Content' /\ StreamIntact'
    BY DEF IInv, Content, StreamIntact
  <1>4. Positions' /\ Accounting'
    BY DEF IInv, Positions, Accounting
  <1> QED
    BY <1>1, <1>2, <1>3, <1>4 DEF IInv

\* The server thread elsewhere: a lost message, the EPOLLOUT check of
\* broadcast, an event, the ends of the send loop, a disconnection, the
\* beginning and the end of the release.
LEMMA QuietSteps ==
  ASSUME IInv,
         \/ \E n \in PayloadLens : BroadcastDrop(n)
         \/ BroadcastNoMemory \/ BroadcastArm \/ EpolloutEvent
         \/ SendWouldBlock \/ SendFails \/ WriteDone
         \/ Disconnect \/ BeginRelease \/ ReleaseDone
  PROVE  IInv'
  <1> USE QueueAssumption
  <1>0. TypeOK /\ Registration
    BY DEF IInv
  <1>1. CASE \E n \in PayloadLens : BroadcastDrop(n)
    BY <1>0, <1>1, FrameStep
       DEF BroadcastDrop, TypeOK, Registration, Releasing, PCs, heapVars, queueVars
  <1>2. CASE BroadcastNoMemory
    BY <1>0, <1>2, FrameStep
       DEF BroadcastNoMemory, TypeOK, Registration, Releasing, PCs, queueVars
  <1>3. CASE BroadcastArm
    BY <1>0, <1>3, FrameStep
       DEF BroadcastArm, ArmIfQueued, enable_epollout_for_client,
           TypeOK, Registration, Releasing, PCs, queueVars
  <1>4. CASE EpolloutEvent
    BY <1>0, <1>4, FrameStep
       DEF EpolloutEvent, TypeOK, Registration, Releasing, PCs, queueVars
  <1>5. CASE SendWouldBlock
    BY <1>0, <1>5, FrameStep
       DEF SendWouldBlock, Writing, Return, TypeOK, Registration, Releasing,
           PCs, queueVars
  <1>6. CASE SendFails
    BY <1>0, <1>6, FrameStep
       DEF SendFails, Writing, Return, TypeOK, Registration, Releasing, PCs,
           queueVars
  <1>7. CASE WriteDone
    BY <1>0, <1>7, FrameStep
       DEF WriteDone, Writing, Return, disable_epollout_for_client,
           TypeOK, Registration, Releasing, PCs, queueVars
  <1>8. CASE Disconnect
    BY <1>0, <1>8, FrameStep
       DEF Disconnect, TypeOK, Registration, Releasing, PCs, queueVars
  <1>9. CASE BeginRelease
    BY <1>0, <1>9, FrameStep
       DEF BeginRelease, TypeOK, Registration, Releasing, PCs, queueVars
  <1>10. CASE ReleaseDone
    BY <1>0, <1>10, FrameStep
       DEF ReleaseDone, TypeOK, Registration, Releasing, PCs, queueVars
  <1> QED
    BY <1>1, <1>2, <1>3, <1>4, <1>5, <1>6, <1>7, <1>8, <1>9, <1>10

\* A packet is appended.
LEMMA EnqueueStep ==
  ASSUME IInv, NEW p \in Packets, NEW n \in PayloadLens, BroadcastEnqueue(p, n)
  PROVE  IInv'
  <1> DEFINE total == HeaderLen + n
             c == Chunk(offered + 1, 0, total)
             L == Len(order)
  <1>1. total \in Nat \ {0} /\ offered + 1 \in 1..MaxMsgs
    BY QueueAssumption DEF IInv, TypeOK, BroadcastEnqueue
  <1>2. /\ c \in Seq(Byte) /\ Len(c) = total
        /\ \A k \in 1..total : c[k] = [msg |-> offered + 1, k |-> k]
    <2> HIDE DEF total
    <2>1. /\ offered + 1 \in Nat /\ 0 \in Nat /\ total \in Nat
          /\ 0 <= total /\ total - 0 = total
          /\ \A k \in 1..total : 0 + k = k
      BY <1>1
    <2>2. /\ c \in Seq(Byte) /\ Len(c) = total - 0
          /\ \A k \in 1..(total - 0) : c[k] = [msg |-> offered + 1, k |-> 0 + k]
      BY <2>1, ChunkBytes
    <2> HIDE DEF c
    <2> QED
      BY <2>1, <2>2
  <1> HIDE DEF total, c
  <1>3. /\ allocated' = allocated \cup {p}
        /\ len' = [len EXCEPT ![p] = total]
        /\ offset' = [offset EXCEPT ![p] = 0]
        /\ data' = [data EXCEPT ![p] = offered + 1]
        /\ next' = LinkLast(p)
        /\ head' = IF tail = NULL THEN p ELSE head
        /\ tail' = p
        /\ queued_bytes' = queued_bytes + total
        /\ queued_count' = queued_count + 1
        /\ at' = [at EXCEPT ![p] = Len(accepted)]
        /\ offered' = offered + 1
        /\ UNCHANGED <<epollout_enabled, closed, wire>>
        /\ pc = "loop" /\ pc' \in {"bwrite", "arm"}
        /\ queued_bytes + total <= MSG_SIZE_LIMIT
        /\ p \notin allocated
    BY DEF BroadcastEnqueue, create_packet, client_enqueue_msg_packet, Fits,
           total, c
  <1>s. accepted' = accepted \o c /\ order' = Append(order, p)
    BY DEF BroadcastEnqueue, client_enqueue_msg_packet, total, c
  <1>4. TypeOK /\ ListShape /\ TailShape /\ Content /\ Positions /\ StreamIntact
        /\ Accounting /\ Registration
    BY DEF IInv
  <1>5. /\ accepted' \in Seq(Byte) /\ Len(accepted') = Len(accepted) + total
        /\ \A i \in 1..Len(accepted) : accepted'[i] = accepted[i]
        /\ \A i \in 1..total : accepted'[Len(accepted) + i] = c[i]
    <2> DEFINE a == accepted \o c
    <2>1. accepted \in Seq(Byte) /\ c \in Seq(Byte) /\ Len(c) = total
      BY <1>2, <1>4 DEF TypeOK
    <2>2. /\ a \in Seq(Byte) /\ Len(a) = Len(accepted) + Len(c)
          /\ \A i \in 1..Len(accepted) : a[i] = accepted[i]
          /\ \A i \in 1..Len(c) : a[Len(accepted) + i] = c[i]
      BY <2>1, ConcatBytes
    <2>3. accepted' = a
      BY <1>s
    <2> HIDE DEF a
    <2> QED
      BY <2>1, <2>2, <2>3
  <1>l. Len(accepted) \in Nat /\ Len(wire) \in Nat
    <2>1. accepted \in Seq(Byte) /\ wire \in Seq(Byte)
      BY <1>4 DEF TypeOK
    <2> QED
      BY <2>1
  <1>6. /\ order' \in Seq(Packets) /\ Len(order') = L + 1
        /\ \A i \in 1..L : order'[i] = order[i]
        /\ order'[L + 1] = p /\ order' # << >>
        /\ order \in Seq(Packets) /\ L \in Nat
        /\ \A i \in 1..L : order[i] \in Packets /\ order[i] # p
        /\ order = << >> <=> L = 0
    <2>1. order \in Seq(Packets) /\ L \in Nat
      BY <1>4 DEF TypeOK
    <2>2. \A i \in 1..L : order[i] \in Packets /\ order[i] # p
      BY <1>3, <1>4, <2>1 DEF ListShape
    <2>3. order = << >> <=> L = 0
      BY <2>1, EmptySeq
    <2> QED
      BY <1>s, <2>1, <2>2, <2>3, AppendPacket
  <1> HIDE DEF L
  <1>7. TypeOK'
    <2>1. allocated' \subseteq Packets /\ next' \in [Packets -> Packets \cup {NULL}]
      BY <1>3, <1>4 DEF TypeOK, LinkLast
    <2>5. /\ len' \in [Packets -> Nat]
          /\ offset' \in [Packets -> Nat]
          /\ data' \in [Packets -> Nat]
          /\ at' \in [Packets -> Nat]
      <3>1. /\ len \in [Packets -> Nat] /\ offset \in [Packets -> Nat]
            /\ data \in [Packets -> Nat] /\ at \in [Packets -> Nat]
        BY <1>4 DEF TypeOK
      <3> QED
        BY <1>1, <1>3, <1>l, <3>1, SMTT(30)
    <2>2. head' \in Packets \cup {NULL} /\ tail' \in Packets \cup {NULL}
      BY <1>3, <1>4 DEF TypeOK
    <2>3. /\ queued_bytes' \in 0..MSG_SIZE_LIMIT
          /\ queued_count' \in Nat /\ offered' \in 0..MaxMsgs
      BY <1>1, <1>3, <1>4, QueueAssumption DEF TypeOK
    <2>4. /\ epollout_enabled' \in BOOLEAN /\ closed' \in BOOLEAN
          /\ pc' \in PCs /\ wire' \in Seq(Byte)
      BY <1>3, <1>4 DEF TypeOK, PCs
    <2> QED
      BY <1>5, <1>6, <2>1, <2>2, <2>3, <2>4, <2>5 DEF TypeOK
  <1>8. tail = IF L = 0 THEN NULL ELSE order[L]
    BY <1>3, <1>4, <1>6 DEF TailShape, Releasing, L
  <1>9. ListShape'
    <2>1. head' = order'[1]
      BY <1>3, <1>4, <1>6, <1>8, QueueAssumption DEF ListShape
    <2>2. ASSUME NEW i \in 1..(L + 1)
          PROVE  next'[order'[i]] = IF i = L + 1 THEN NULL ELSE order'[i + 1]
      BY <1>3, <1>4, <1>6, <1>8, SMTT(30) DEF ListShape, LinkLast, L
    <2>3. \A i, j \in 1..(L + 1) : order'[i] = order'[j] => i = j
      BY <1>4, <1>6 DEF ListShape, L
    <2>4. allocated' = {order'[i] : i \in 1..(L + 1)}
      <3>1. allocated = {order[i] : i \in 1..L}
        BY <1>4 DEF ListShape, L
      <3>2. ASSUME NEW x \in allocated' PROVE \E i \in 1..(L + 1) : x = order'[i]
        BY <1>3, <1>6, <3>1
      <3>3. ASSUME NEW i \in 1..(L + 1) PROVE order'[i] \in allocated'
        BY <1>3, <1>6, <3>1
      <3> QED
        BY <3>2, <3>3
    <2> QED
      BY <1>6, <2>1, <2>2, <2>3, <2>4 DEF ListShape
  <1>10. TailShape'
    BY <1>3, <1>4, <1>6 DEF TailShape, Releasing, L
  <1>11. Content'
    <2>1. ASSUME NEW i \in 1..L
          PROVE  /\ len'[order'[i]] > 0
                 /\ at'[order'[i]] + len'[order'[i]] <= Len(accepted')
                 /\ \A k \in 1..len'[order'[i]] :
                      accepted'[at'[order'[i]] + k] = [msg |-> data'[order'[i]], k |-> k]
      <3>1. /\ order'[i] = order[i] /\ order[i] \in Packets
            /\ at'[order[i]] = at[order[i]] /\ len'[order[i]] = len[order[i]]
            /\ data'[order[i]] = data[order[i]]
            /\ at[order[i]] \in Nat /\ len[order[i]] \in Nat
        BY <1>3, <1>4, <1>6 DEF TypeOK
      <3>2. /\ len[order[i]] > 0
            /\ at[order[i]] + len[order[i]] <= Len(accepted)
            /\ \A k \in 1..len[order[i]] :
                 accepted[at[order[i]] + k] = [msg |-> data[order[i]], k |-> k]
        BY <1>4 DEF Content, L
      <3>3. \A k \in 1..len[order[i]] : at[order[i]] + k \in 1..Len(accepted)
        BY <1>l, <3>1, <3>2
      <3>4. \A k \in 1..len[order[i]] :
              accepted'[at[order[i]] + k] = [msg |-> data[order[i]], k |-> k]
        BY <1>5, <3>2, <3>3
      <3> QED
        BY <1>1, <1>5, <1>l, <3>1, <3>2, <3>4
    <2>2. /\ len'[p] > 0
          /\ at'[p] + len'[p] <= Len(accepted')
          /\ \A k \in 1..len'[p] :
               accepted'[at'[p] + k] = [msg |-> data'[p], k |-> k]
      <3>1. len'[p] = total /\ at'[p] = Len(accepted) /\ data'[p] = offered + 1
        BY <1>3, <1>4 DEF TypeOK
      <3> QED
        BY <1>1, <1>2, <1>5, <1>l, <3>1
    <2> QED
      BY <1>6, <2>1, <2>2 DEF Content
  <1>12. Positions'
    <2>1. ~Releasing
      BY <1>3 DEF Releasing
    <2>2. /\ len'[p] = total /\ at'[p] = Len(accepted) /\ offset'[p] = 0
          /\ \A q \in Packets : q # p => /\ len'[q] = len[q] /\ at'[q] = at[q]
                                       /\ offset'[q] = offset[q]
      BY <1>3, <1>4 DEF TypeOK
    <2>3. /\ at'[order'[1]] + offset'[order'[1]] = Len(wire')
          /\ offset'[order'[1]] < len'[order'[1]]
      <3>1. CASE L = 0
        BY <1>1, <1>3, <1>4, <1>6, <2>1, <2>2, <3>1 DEF Positions, TypeOK
      <3>2. CASE L > 0
        BY <1>3, <1>4, <1>6, <2>1, <2>2, <3>2 DEF Positions
      <3> QED
        BY <1>6, <3>1, <3>2
    <2>4. at'[order'[L + 1]] + len'[order'[L + 1]] = Len(accepted')
      BY <1>5, <1>6, <2>2
    <2>5. ASSUME NEW i \in 1..(L + 1), i > 1
          PROVE  /\ offset'[order'[i]] = 0
                 /\ at'[order'[i]] = at'[order'[i - 1]] + len'[order'[i - 1]]
      <3>1. CASE i = L + 1
        BY <1>4, <1>6, <2>1, <2>2, <2>5, <3>1 DEF Positions, L
      <3>2. CASE i \in 1..L
        <4>1. /\ order'[i] = order[i] /\ order'[i - 1] = order[i - 1]
              /\ order[i] \in Packets \ {p} /\ order[i - 1] \in Packets \ {p}
          BY <1>6, <2>5, <3>2
        <4>2. /\ offset[order[i]] = 0
              /\ at[order[i]] = at[order[i - 1]] + len[order[i - 1]]
          BY <1>4, <2>1, <2>5, <3>2 DEF Positions, L
        <4> QED
          BY <2>2, <4>1, <4>2
      <3> QED
        BY <1>6, <3>1, <3>2
    <2> QED
      BY <1>6, <2>3, <2>4, <2>5 DEF Positions
  <1>13. StreamIntact'
    BY <1>1, <1>3, <1>4, <1>5, <1>l DEF StreamIntact
  <1>14. Accounting'
    BY <1>1, <1>3, <1>4, <1>5, <1>l DEF Accounting, Releasing
  <1>15. Registration'
    <2>1. head' # NULL
      BY <1>3, <1>4, <1>6, <1>8, QueueAssumption DEF ListShape, L
    <2>2. pc' = IF ~epollout_enabled /\ head' = p THEN "bwrite" ELSE "arm"
      BY DEF BroadcastEnqueue
    <2> QED
      BY <1>3, <2>1, <2>2 DEF Registration
  <1> QED
    BY <1>7, <1>9, <1>10, <1>11, <1>12, <1>13, <1>14, <1>15 DEF IInv

\* Arithmetic of a send of m of the l - o bytes left of a packet that begins
\* after a accepted bytes, when w bytes are on the wire and q are queued.
LEMMA SendArithmetic ==
  ASSUME NEW a \in Nat, NEW o \in Nat, NEW l \in Nat, NEW m \in Nat \ {0},
         NEW w \in Nat, NEW acc \in Nat, NEW q \in Nat, NEW limit \in Nat,
         o + m <= l, a + o = w, a + l <= acc, q = acc - w, q <= limit
  PROVE  /\ \A j \in 1..m : o + j \in 1..l /\ a + (o + j) = w + j
         /\ q - m = acc - (w + m)
         /\ q - m \in 0..limit
         /\ a + (o + m) = w + m
  OBVIOUS

\* What send() does to the streams when it takes m bytes of the head packet.
LEMMA SentBytes ==
  ASSUME IInv, ~Releasing, head # NULL,
         NEW m \in 1..Remaining, Sent(m)
  PROVE  /\ order # << >> /\ Len(order) \in Nat \ {0}
         /\ head = order[1] /\ head \in Packets
         /\ offset[head] \in Nat /\ len[head] \in Nat
         /\ offset[head] + m <= len[head]
         /\ offset' = [offset EXCEPT ![head] = offset[head] + m]
         /\ Len(wire) \in Nat /\ Len(accepted) \in Nat
         /\ at[head] + offset[head] = Len(wire)
         /\ at[head] + len[head] <= Len(accepted)
         /\ wire' \in Seq(Byte) /\ Len(wire') = Len(wire) + m
         /\ \A i \in 1..Len(wire') : wire'[i] = accepted[i]
         /\ queued_bytes' = Len(accepted) - Len(wire')
         /\ queued_bytes' \in 0..MSG_SIZE_LIMIT
         /\ at[head] + (offset[head] + m) = Len(wire')
         /\ offset' \in [Packets -> Nat]
         /\ offset'[head] = offset[head] + m
         /\ \A i \in 1..Len(order) : i > 1 =>
              /\ order[i] \in Packets /\ order[i] # head
              /\ offset'[order[i]] = 0
  <1>1. TypeOK /\ ListShape /\ Content /\ Positions /\ StreamIntact /\ Accounting
    BY DEF IInv
  <1>2. /\ order # << >> /\ Len(order) \in Nat \ {0}
        /\ head = order[1] /\ head \in Packets
    <2>1. order # << >> /\ order \in Seq(Packets)
      BY <1>1 DEF ListShape, TypeOK
    <2>2. Len(order) \in Nat \ {0}
      BY <2>1, EmptySeq
    <2> QED
      BY <1>1, <2>1, <2>2 DEF ListShape, TypeOK
  <1>3. /\ offset[head] \in Nat /\ len[head] \in Nat /\ data[head] \in Nat
        /\ at[head] \in Nat
        /\ Len(wire) \in Nat /\ Len(accepted) \in Nat
    <2>1. /\ offset \in [Packets -> Nat] /\ len \in [Packets -> Nat]
          /\ data \in [Packets -> Nat] /\ at \in [Packets -> Nat]
          /\ wire \in Seq(Byte) /\ accepted \in Seq(Byte)
      BY <1>1 DEF TypeOK
    <2>2. head \in Packets
      BY <1>2
    <2> QED
      BY ONLY <2>1, <2>2
  <1>4. /\ m \in Nat \ {0} /\ offset[head] + m <= len[head]
        /\ offset[head] + m \in Nat
    BY <1>3 DEF Remaining
  <1>5. at[head] + offset[head] = Len(wire)
    BY <1>1, <1>2 DEF Positions
  <1>6. /\ at[head] + len[head] <= Len(accepted)
        /\ \A k \in 1..len[head] :
             accepted[at[head] + k] = [msg |-> data[head], k |-> k]
    BY <1>1, <1>2 DEF Content
  <1>7. /\ offset' = [offset EXCEPT ![head] = offset[head] + m]
        /\ queued_bytes' = queued_bytes - m
    BY DEF Sent
  <1> DEFINE o == offset[head]
             c == Chunk(data[head], o, o + m)
             w == wire \o c
  <1>8. /\ c \in Seq(Byte) /\ Len(c) = m
        /\ \A j \in 1..m : c[j] = [msg |-> data[head], k |-> o + j]
    <2>1. PICK n \in Nat : n = data[head]
      BY <1>3, <1>4
    <2>2. o \in Nat /\ m \in Nat
      BY <1>3, <1>4
    <2> HIDE DEF o
    <2>3. PICK to \in Nat : to = o + m
      BY <2>2
    <2>4. o <= to /\ to - o = m
      BY <2>2, <2>3
    <2>5. /\ Chunk(n, o, to) \in Seq(Byte) /\ Len(Chunk(n, o, to)) = to - o
          /\ \A j \in 1..(to - o) : Chunk(n, o, to)[j] = [msg |-> n, k |-> o + j]
      BY <2>2, <2>4, ChunkBytes, Zenon
    <2>6. c = Chunk(n, o, to)
      BY <2>1, <2>3
    <2> HIDE DEF c
    <2> QED
      BY <2>1, <2>4, <2>5, <2>6
  <1>9. wire' = w
    BY DEF Sent
  <1>10. wire \in Seq(Byte)
    BY <1>1 DEF TypeOK
  <1> HIDE DEF c
  <1>11. /\ w \in Seq(Byte) /\ Len(w) = Len(wire) + Len(c)
         /\ \A i \in 1..Len(wire) : w[i] = wire[i]
         /\ \A i \in 1..Len(c) : w[Len(wire) + i] = c[i]
    BY <1>8, <1>10, ConcatBytes
  <1> HIDE DEF w
  <1>12. wire' \in Seq(Byte) /\ Len(wire') = Len(wire) + m
    BY <1>8, <1>9, <1>11
  <1>14. queued_bytes = Len(accepted) - Len(wire) /\ queued_bytes \in 0..MSG_SIZE_LIMIT
    BY <1>1 DEF Accounting, TypeOK
  <1>ar. /\ \A j \in 1..m : o + j \in 1..len[head] /\ at[head] + (o + j) = Len(wire) + j
         /\ queued_bytes - m = Len(accepted) - (Len(wire) + m)
         /\ queued_bytes - m \in 0..MSG_SIZE_LIMIT
         /\ at[head] + (o + m) = Len(wire) + m
    <2>1. queued_bytes \in Nat /\ queued_bytes <= MSG_SIZE_LIMIT /\ MSG_SIZE_LIMIT \in Nat
      BY <1>14, QueueAssumption
    <2> DEFINE a == at[head]
               l == len[head]
               wl == Len(wire)
               al == Len(accepted)
    <2>2. /\ a \in Nat /\ o \in Nat /\ l \in Nat /\ m \in Nat \ {0}
          /\ wl \in Nat /\ al \in Nat
          /\ o + m <= l /\ a + o = wl /\ a + l <= al /\ queued_bytes = al - wl
      BY <1>3, <1>4, <1>5, <1>6, <1>14
    <2> HIDE DEF a, l, wl, al, o
    <2>3. /\ \A j \in 1..m : o + j \in 1..l /\ a + (o + j) = wl + j
          /\ queued_bytes - m = al - (wl + m)
          /\ queued_bytes - m \in 0..MSG_SIZE_LIMIT
          /\ a + (o + m) = wl + m
      BY <2>1, <2>2, SendArithmetic
    <2> QED
      BY <2>3 DEF a, l, wl, al
  <1>13. ASSUME NEW i \in 1..(Len(wire) + m) PROVE wire'[i] = accepted[i]
    <2>1. CASE i <= Len(wire)
      <3>1. i \in 1..Len(wire)
        BY <1>3, <1>4, <2>1
      <3>2. wire[i] = accepted[i]
        BY <1>1, <3>1 DEF StreamIntact
      <3>3. w[i] = wire[i]
        BY <1>11, <3>1, Zenon
      <3> QED
        BY <1>9, <3>2, <3>3
    <2>2. CASE i > Len(wire)
      <3>1. PICK j \in 1..m : i = Len(wire) + j
        <4>1. i - Len(wire) \in 1..m /\ i = Len(wire) + (i - Len(wire))
          BY <1>3, <1>4, <2>2
        <4> QED
          BY <4>1
      <3>2. wire'[i] = [msg |-> data[head], k |-> o + j]
        BY <1>8, <1>9, <1>11, <3>1
      <3>3. o + j \in 1..len[head] /\ at[head] + (o + j) = i
        BY <1>ar, <3>1
      <3> QED
        BY <1>6, <3>2, <3>3
    <2> QED
      BY <1>3, <1>4, <2>1, <2>2
  <1>15. /\ queued_bytes' = Len(accepted) - Len(wire')
         /\ queued_bytes' \in 0..MSG_SIZE_LIMIT
    BY <1>7, <1>12, <1>ar
  <1>16. at[head] + (offset[head] + m) = Len(wire')
    BY <1>12, <1>ar
  <1>17. /\ offset \in [Packets -> Nat] /\ offset' \in [Packets -> Nat]
         /\ offset'[head] = offset[head] + m
         /\ \A q \in Packets : q # head => offset'[q] = offset[q]
    <2>1. offset \in [Packets -> Nat]
      BY <1>1 DEF TypeOK
    <2> QED
      BY <1>2, <1>4, <1>7, <2>1
  <1>18. ASSUME NEW i \in 1..Len(order), i > 1
         PROVE  order[i] \in Packets /\ order[i] # head /\ offset'[order[i]] = 0
    <2>1. order[i] \in Packets
      BY <1>1 DEF TypeOK
    <2>2. order[i] # order[1]
      BY <1>1, <1>2, <1>18 DEF ListShape
    <2>3. offset[order[i]] = 0
      BY <1>1, <1>18 DEF Positions
    <2> QED
      BY <1>2, <1>17, <2>1, <2>2, <2>3
  <1> HIDE DEF o
  <1> QED
    BY <1>2, <1>3, <1>4, <1>5, <1>6, <1>7, <1>12, <1>13, <1>15, <1>16, <1>17, <1>18

\* send() takes a part of the head packet.
LEMMA SendPartStep ==
  ASSUME IInv, NEW m \in 1..MSG_SIZE_LIMIT, SendPart(m)
  PROVE  IInv'
  <1>1. TypeOK /\ ListShape /\ TailShape /\ Content /\ Positions /\ StreamIntact
        /\ Accounting /\ Registration
    BY DEF IInv
  <1>2. /\ ~Releasing /\ head # NULL /\ Sent(m) /\ m \in 1..(Remaining - 1)
        /\ UNCHANGED <<allocated, next, len, data, head, tail, queued_count,
                        epollout_enabled, closed, pc, offered, accepted, order, at>>
    BY DEF SendPart, Writing, Releasing, ghostVars
  <1>3. Remaining \in Int /\ m \in 1..Remaining
    <2>1. head \in Packets
      BY <1>1, <1>2 DEF TypeOK
    <2>2. Remaining \in Int
      BY <1>1, <2>1 DEF TypeOK, Remaining
    <2> QED
      BY <1>2, <2>2
  <1>4. /\ order # << >> /\ Len(order) \in Nat \ {0}
        /\ head = order[1] /\ head \in Packets
        /\ offset[head] \in Nat /\ len[head] \in Nat
        /\ Len(wire) \in Nat /\ Len(accepted) \in Nat
        /\ at[head] + offset[head] = Len(wire)
        /\ at[head] + len[head] <= Len(accepted)
        /\ wire' \in Seq(Byte) /\ Len(wire') = Len(wire) + m
        /\ \A i \in 1..Len(wire') : wire'[i] = accepted[i]
        /\ queued_bytes' = Len(accepted) - Len(wire')
        /\ queued_bytes' \in 0..MSG_SIZE_LIMIT
        /\ at[head] + (offset[head] + m) = Len(wire')
        /\ offset' \in [Packets -> Nat]
        /\ offset'[head] = offset[head] + m
        /\ \A i \in 1..Len(order) : i > 1 => offset'[order[i]] = 0
    BY <1>2, <1>3, SentBytes
  <1>5. offset[head] + m < len[head] /\ m \in Nat
    <2>1. offset[head] \in Nat /\ len[head] \in Nat
      BY <1>4
    <2>2. m \in Nat /\ m < len[head] - offset[head]
      <3>1. m \in 1..((len[head] - offset[head]) - 1)
        BY <1>2 DEF Remaining
      <3> QED
        BY <2>1, <3>1
    <2> QED
      BY <2>1, <2>2
  <1>6. TypeOK'
    BY <1>1, <1>2, <1>4 DEF TypeOK
  <1>7. ListShape' /\ TailShape'
    BY <1>1, <1>2 DEF ListShape, TailShape, Releasing
  <1>8. Content'
    BY <1>1, <1>2 DEF Content
  <1>9. Positions'
    BY <1>1, <1>2, <1>4, <1>5 DEF Positions, Releasing
  <1>10. StreamIntact' /\ Accounting'
    BY <1>2, <1>4, <1>5 DEF StreamIntact, Accounting, Releasing
  <1>11. Registration'
    BY <1>1, <1>2 DEF Registration
  <1> QED
    BY <1>6, <1>7, <1>8, <1>9, <1>10, <1>11 DEF IInv

\* Unlinking the head packet leaves a list of the others.
LEMMA PopHead ==
  ASSUME TypeOK, ListShape, head # NULL,
         next' = next, head' = next[head],
         allocated' = allocated \ {head}, order' = Tail(order)
  PROVE  /\ ListShape'
         /\ order # << >> /\ Len(order) \in Nat \ {0}
         /\ order' \in Seq(Packets) /\ Len(order') = Len(order) - 1
         /\ order' = << >> <=> Len(order) = 1
         /\ \A i \in 1..Len(order') : order'[i] = order[i + 1]
         /\ \A i \in 1..Len(order) : order[i] \in Packets
         /\ head = order[1]
         /\ head' \in Packets \cup {NULL}
         /\ head' = NULL <=> Len(order) = 1
  <1> DEFINE L == Len(order)
  <1>1. order # << >> /\ order \in Seq(Packets) /\ head = order[1]
    BY DEF ListShape, TypeOK
  <1>2. /\ order' \in Seq(Packets) /\ Len(order') = L - 1
        /\ L \in Nat \ {0}
        /\ \A i \in 1..(L - 1) : order'[i] = order[i + 1]
        /\ order' = << >> <=> L = 1
    BY <1>1, TailPackets
  <1>3. \A i \in 1..L : order[i] \in Packets
    BY <1>1
  <1>5. \A i \in 1..L : next[order[i]] = IF i = L THEN NULL ELSE order[i + 1]
    BY DEF ListShape
  <1>6. \A i, j \in 1..L : order[i] = order[j] => i = j
    BY DEF ListShape
  <1>7. allocated = {order[i] : i \in 1..L}
    BY DEF ListShape
  <1> HIDE DEF L
  <1>4. next[order[1]] = IF L = 1 THEN NULL ELSE order[2]
    <2>1. 1 \in 1..L /\ 1 + 1 = 2
      BY <1>2
    <2> QED
      BY <1>5, <2>1
  <1>8. head' = IF order' = << >> THEN NULL ELSE order'[1]
    BY <1>1, <1>2, <1>4
  <1>9. ASSUME NEW i \in 1..(L - 1)
        PROVE  next'[order'[i]] = IF i = L - 1 THEN NULL ELSE order'[i + 1]
    <2>1. i + 1 \in 1..L /\ order'[i] = order[i + 1] /\ (i = L - 1 <=> i + 1 = L)
      BY <1>2
    <2>2. i # L - 1 => order'[i + 1] = order[(i + 1) + 1]
      BY <1>2
    <2> QED
      BY <1>5, <2>1, <2>2
  <1>10. \A i, j \in 1..(L - 1) : order'[i] = order'[j] => i = j
    BY <1>2, <1>6
  <1>11. allocated' = {order'[i] : i \in 1..(L - 1)}
    <2>1. ASSUME NEW x \in allocated' PROVE \E i \in 1..(L - 1) : x = order'[i]
      <3>1. PICK i \in 1..L : x = order[i] /\ i # 1
        BY <1>1, <1>7
      <3>2. i - 1 \in 1..(L - 1) /\ (i - 1) + 1 = i
        BY <1>2, <3>1
      <3> QED
        BY <1>2, <3>1, <3>2
    <2>2. ASSUME NEW i \in 1..(L - 1) PROVE order'[i] \in allocated'
      <3>1. i + 1 \in 1..L /\ 1 \in 1..L /\ i + 1 # 1
        BY <1>2
      <3> QED
        BY <1>1, <1>2, <1>6, <1>7, <3>1
    <2>3. \A x : x \in allocated' <=> x \in {order'[i] : i \in 1..(L - 1)}
      BY <2>1, <2>2, Zenon
    <2> QED
      BY <2>3, Zenon
  <1>12. ListShape'
    <2>1. Len(order') = L - 1
      BY <1>2
    <2>2. /\ \A i \in 1..Len(order') :
              next'[order'[i]] = IF i = Len(order') THEN NULL ELSE order'[i + 1]
          /\ \A i, j \in 1..Len(order') : order'[i] = order'[j] => i = j
          /\ allocated' = {order'[i] : i \in 1..Len(order')}
      BY <1>9, <1>10, <1>11, <2>1, Zenon
    <2> QED
      BY <1>8, <2>2, Zenon DEF ListShape
  <1>13. head' \in Packets \cup {NULL} /\ (head' = NULL <=> L = 1)
    BY <1>1, <1>2, <1>3, <1>4, QueueAssumption
  <1> QED
    BY <1>1, <1>2, <1>3, <1>12, <1>13 DEF L

\* send() takes what is left of the head packet.
LEMMA SendLastStep ==
  ASSUME IInv, SendLast
  PROVE  IInv'
  <1> DEFINE L == Len(order)
             m == Remaining
  <1>1. TypeOK /\ ListShape /\ TailShape /\ Content /\ Positions /\ StreamIntact
        /\ Accounting /\ Registration
    BY DEF IInv
  <1>2. /\ ~Releasing /\ head # NULL /\ Sent(m) /\ m > 0
        /\ next' = next /\ head' = next[head]
        /\ allocated' = allocated \ {head} /\ order' = Tail(order)
        /\ tail' = TailAfterPop /\ queued_count' = queued_count - 1
        /\ UNCHANGED <<len, data, epollout_enabled, closed, pc, offered,
                        accepted, at>>
        /\ pc \in {"bwrite", "ewrite"}
    BY DEF SendLast, Writing, Releasing
  <1>3. m \in 1..Remaining
    <2>1. head \in Packets
      BY <1>1, <1>2 DEF TypeOK
    <2>2. m \in Int
      BY <1>1, <2>1 DEF TypeOK, Remaining
    <2> QED
      BY <1>2, <2>2
  <1>4. /\ head = order[1] /\ head \in Packets
        /\ offset[head] \in Nat /\ len[head] \in Nat
        /\ Len(wire) \in Nat /\ Len(accepted) \in Nat
        /\ at[head] + len[head] <= Len(accepted)
        /\ wire' \in Seq(Byte) /\ Len(wire') = Len(wire) + m
        /\ \A i \in 1..Len(wire') : wire'[i] = accepted[i]
        /\ queued_bytes' = Len(accepted) - Len(wire')
        /\ queued_bytes' \in 0..MSG_SIZE_LIMIT
        /\ at[head] + (offset[head] + m) = Len(wire')
        /\ offset' \in [Packets -> Nat]
        /\ \A i \in 1..Len(order) : i > 1 => offset'[order[i]] = 0
    BY <1>2, <1>3, SentBytes
  <1>5. /\ ListShape'
        /\ order # << >> /\ L \in Nat \ {0}
        /\ order' \in Seq(Packets) /\ Len(order') = L - 1
        /\ order' = << >> <=> L = 1
        /\ \A i \in 1..(L - 1) : order'[i] = order[i + 1]
        /\ \A i \in 1..L : order[i] \in Packets
        /\ head' \in Packets \cup {NULL}
        /\ head' = NULL <=> L = 1
    BY <1>1, <1>2, PopHead
  <1>6. at[head] + len[head] = Len(wire')
    BY <1>4 DEF Remaining
  <1>7. tail = order[L] /\ queued_count = L
    BY <1>1, <1>2, <1>5 DEF TailShape
  <1>8. tail' = IF L = 1 THEN NULL ELSE order[L]
    BY <1>2, <1>5, <1>7 DEF TailAfterPop
  <1> HIDE DEF m, L
  <1>9. TypeOK'
    <2>1. queued_count' \in Nat
      BY <1>2, <1>5, <1>7
    <2>2. tail' \in Packets \cup {NULL} /\ allocated' \subseteq Packets
      <3>1. L \in 1..L
        BY <1>5
      <3>2. order[L] \in Packets
        BY <1>5, <3>1
      <3> QED
        BY <1>1, <1>2, <1>8, <3>2 DEF TypeOK
    <2> QED
      BY <1>1, <1>2, <1>4, <1>5, <2>1, <2>2 DEF TypeOK
  <1>10. TailShape'
    <2>1. L # 1 => order'[L - 1] = order[L]
      BY <1>5
    <2> QED
      BY <1>2, <1>5, <1>7, <1>8, <2>1 DEF TailShape
  <1>11. ASSUME NEW i \in 1..(L - 1)
         PROVE  i + 1 \in 1..L /\ order'[i] = order[i + 1] /\ i + 1 > 1
    BY <1>5
  <1>12. Content'
    BY <1>1, <1>2, <1>5, <1>11 DEF Content, L
  <1>13. /\ at[order[L]] + len[order[L]] = Len(accepted)
         /\ \A i \in 1..L : i > 1 => at[order[i]] = at[order[i - 1]] + len[order[i - 1]]
    BY <1>1, <1>2, <1>5 DEF Positions, L
  <1>14. Positions'
    <2>1. order' = << >> => Len(wire') = Len(accepted)
      BY <1>4, <1>5, <1>6, <1>13
    <2>2. ASSUME order' # << >>
          PROVE  /\ at[order'[1]] + offset'[order'[1]] = Len(wire')
                 /\ offset'[order'[1]] < len[order'[1]]
                 /\ at[order'[L - 1]] + len[order'[L - 1]] = Len(accepted)
      <3>1. /\ 2 \in 1..L /\ order'[1] = order[2] /\ order'[L - 1] = order[L]
            /\ 2 > 1 /\ 2 - 1 = 1
        BY <1>5, <2>2
      <3>2. at[order[2]] = at[head] + len[head] /\ offset'[order[2]] = 0
        BY <1>4, <1>13, <3>1 DEF L
      <3>3. at[order[2]] \in Nat /\ len[order[2]] \in Nat
        BY <1>1, <1>5, <3>1 DEF TypeOK
      <3>4. len[order[2]] > 0
        BY <1>1, <3>1 DEF Content, L
      <3> QED
        BY <1>6, <1>13, <3>1, <3>2, <3>3, <3>4
    <2>3. ASSUME NEW i \in 1..(L - 1), i > 1
          PROVE  /\ offset'[order'[i]] = 0
                 /\ at[order'[i]] = at[order'[i - 1]] + len[order'[i - 1]]
      <3>1. /\ order'[i] = order[i + 1] /\ order'[i - 1] = order[i]
            /\ i + 1 \in 1..L /\ i + 1 > 1 /\ (i + 1) - 1 = i
        BY <1>5, <2>3
      <3> QED
        BY <1>4, <1>13, <3>1, SMTT(30) DEF L
    <2> QED
      BY <1>2, <1>5, <2>1, <2>2, <2>3 DEF Positions
  <1>15. StreamIntact' /\ Accounting'
    BY <1>2, <1>4, <1>6 DEF StreamIntact, Accounting
  <1>16. Registration'
    BY <1>1, <1>2 DEF Registration
  <1> QED
    BY <1>5, <1>9, <1>10, <1>12, <1>14, <1>15, <1>16 DEF IInv

\* One packet of a client that is going away is freed.
LEMMA ReleaseOneStep ==
  ASSUME IInv, ReleaseOne
  PROVE  IInv'
  <1>1. TypeOK /\ ListShape /\ Content /\ StreamIntact /\ Registration
    BY DEF IInv
  <1>2. /\ head # NULL /\ pc = "release"
        /\ next' = next /\ head' = next[head]
        /\ allocated' = allocated \ {head} /\ order' = Tail(order)
        /\ UNCHANGED <<len, offset, data, tail, queued_bytes, queued_count,
                        epollout_enabled, closed, pc, offered, wire, accepted, at>>
    BY DEF ReleaseOne
  <1>3. /\ ListShape' /\ Len(order) \in Nat \ {0}
        /\ order' \in Seq(Packets) /\ Len(order') = Len(order) - 1
        /\ \A i \in 1..Len(order') : order'[i] = order[i + 1]
        /\ head' \in Packets \cup {NULL}
    BY <1>1, <1>2, PopHead
  <1>4. TypeOK'
    BY <1>1, <1>2, <1>3 DEF TypeOK
  <1>5. TailShape' /\ Positions' /\ Accounting'
    BY <1>2 DEF TailShape, Positions, Accounting, Releasing
  <1>6. ASSUME NEW i \in 1..Len(order')
        PROVE  i + 1 \in 1..Len(order) /\ order'[i] = order[i + 1]
    BY <1>3
  <1>7. Content'
    BY <1>1, <1>2, <1>6 DEF Content
  <1>8. StreamIntact' /\ Registration'
    BY <1>1, <1>2 DEF StreamIntact, Registration
  <1> QED
    BY <1>3, <1>4, <1>5, <1>7, <1>8 DEF IInv

-----------------------------------------------------------------------------
(* The theorems.                                                           *)

LEMMA StutterStep ==
  ASSUME IInv, UNCHANGED vars
  PROVE  IInv'
  <1>1. /\ UNCHANGED <<heapVars, queueVars, wire, ghostVars>>
        /\ UNCHANGED <<epollout_enabled, closed, pc, offered, head>>
    BY DEF vars, queueVars
  <1>2. Registration' /\ (Releasing => Releasing')
    BY <1>1 DEF IInv, Registration, Releasing
  <1> QED
    BY <1>1, <1>2, FrameStep DEF IInv, TypeOK

LEMMA NextIInv == IInv /\ [Next]_vars => IInv'
  <1> SUFFICES ASSUME IInv, [Next]_vars PROVE IInv'
    OBVIOUS
  <1>1. CASE \E p \in Packets, n \in PayloadLens : BroadcastEnqueue(p, n)
    BY <1>1, EnqueueStep
  <1>2. CASE Send
    BY <1>2, SendPartStep, SendLastStep DEF Send
  <1>3. CASE ReleaseOne
    BY <1>3, ReleaseOneStep
  <1>4. CASE \/ \E n \in PayloadLens : BroadcastDrop(n)
             \/ BroadcastNoMemory \/ BroadcastArm \/ EpolloutEvent
             \/ SendWouldBlock \/ SendFails \/ WriteDone
             \/ Disconnect \/ BeginRelease \/ ReleaseDone
    BY <1>4, QuietSteps
  <1>5. CASE UNCHANGED vars
    BY <1>5, StutterStep
  <1> QED
    BY <1>1, <1>2, <1>3, <1>4, <1>5 DEF Next

LEMMA AlwaysIInv == Spec => []IInv
  BY InitIInv, NextIInv, PTL DEF Spec

\* The queue's state stays well typed: in particular queued_bytes, from which
\* client_try_write subtracts what send() took, never wraps below zero and
\* never exceeds MSG_SIZE_LIMIT.
THEOREM TypeCorrect == Spec => []TypeOK
  <1>1. IInv => TypeOK
    BY DEF IInv
  <1> QED
    BY AlwaysIInv, <1>1, PTL

\* client_enqueue_msg_packet, client_try_write and the freeing loops keep the
\* linked list sound: no dangling tail, no lost, doubly linked or leaked
\* packet.
THEOREM QueueSound == Spec => []QueueIntact
  <1>1. IInv => QueueIntact
    BY DEF IInv, QueueIntact
  <1> QED
    BY AlwaysIInv, <1>1, PTL

\* However send() splits the packets, the bytes it takes are the accepted
\* packets in order.
THEOREM StreamSound == Spec => []StreamIntact
  <1>1. IInv => StreamIntact
    BY DEF IInv
  <1> QED
    BY AlwaysIInv, <1>1, PTL

\* queued_bytes, which client_enqueue_msg_packet tests against MSG_SIZE_LIMIT, is
\* exactly what was accepted and is still to be sent.
THEOREM AccountingSound == Spec => []Accounting
  <1>1. IInv => Accounting
    BY DEF IInv
  <1> QED
    BY AlwaysIInv, <1>1, PTL

\* If EPOLL_CTL_MOD succeeds, an open client with queued packets is always
\* registered for EPOLLOUT between handlers, and one with none never is.
THEOREM WakeupSound == Spec => []WakeupArmed
  <1>1. IInv => WakeupArmed
    BY DEF IInv, Registration, WakeupArmed
  <1> QED
    BY AlwaysIInv, <1>1, PTL

\* A stream that agrees with accepted is the prefix ByteStream speaks of.
LEMMA WireIsPrefix ==
  ASSUME NEW a \in Seq(Byte), NEW w \in Seq(Byte), Len(w) <= Len(a),
         \A i \in 1..Len(w) : w[i] = a[i]
  PROVE  w = SubSeq(a, 1, Len(w))
  <1> DEFINE t == SubSeq(a, 1, Len(w))
  <1>1. Len(w) \in Nat /\ Len(a) \in Nat
    OBVIOUS
  <1>2. t \in Seq(Byte) /\ Len(t) = Len(w) /\ \A i \in 1..Len(w) : t[i] = a[i]
    BY <1>1
  <1> HIDE DEF t
  <1>3. w = t
    BY <1>1, <1>2, SeqEqual
  <1> QED
    BY <1>3 DEF t

\* Every step of the queue is a step of the byte stream or leaves it alone.
LEMMA StepSimulation ==
  ASSUME IInv, IInv', [Next]_vars
  PROVE  [Stream!Next]_(Stream!vars)
  <1> DEFINE still == /\ UNCHANGED <<offered, accepted, wire>>
                      /\ Releasing' <=> Releasing
  <1>0. SUFFICES Stream!Next \/ still
    BY DEF Stream!vars, Releasing
  <1>1. CASE \E p \in Packets, n \in PayloadLens : BroadcastEnqueue(p, n)
    <2>1. PICK p \in Packets, n \in PayloadLens : BroadcastEnqueue(p, n)
      BY <1>1
    <2>2. /\ ~Releasing /\ ~Releasing' /\ offered < MaxMsgs
          /\ offered' = offered + 1 /\ wire' = wire
          /\ accepted' = accepted \o Chunk(offered + 1, 0, HeaderLen + n)
      BY <2>1 DEF BroadcastEnqueue, client_enqueue_msg_packet, Releasing
    <2>3. Stream!Accept(n)
      BY <2>2 DEF Stream!Accept, Stream!Chunk, Chunk
    <2> QED
      BY <2>3 DEF Stream!Next
  <1>2. CASE (\E n \in PayloadLens : BroadcastDrop(n)) \/ BroadcastNoMemory
    <2>1. /\ ~Releasing /\ ~Releasing' /\ offered < MaxMsgs
          /\ offered' = offered + 1 /\ wire' = wire /\ accepted' = accepted
      BY <1>2 DEF BroadcastDrop, BroadcastNoMemory, Releasing, ghostVars
    <2>2. Stream!Refuse
      BY <2>1 DEF Stream!Refuse
    <2> QED
      BY <2>2 DEF Stream!Next
  <1>3. CASE Send
    <2>1. PICK m \in 1..Remaining : Sent(m)
      <3>1. head # NULL /\ head \in Packets
        BY <1>3 DEF Send, SendLast, SendPart, IInv, TypeOK
      <3>2. Remaining \in Int
        <4>1. len[head] \in Nat /\ offset[head] \in Nat
          BY <3>1 DEF IInv, TypeOK
        <4> QED
          BY <4>1 DEF Remaining
      <3>3. CASE SendLast
        BY <3>2, <3>3 DEF SendLast
      <3>4. CASE \E m \in 1..MSG_SIZE_LIMIT : SendPart(m)
        BY <3>2, <3>4 DEF SendPart
      <3> QED
        BY <1>3, <3>3, <3>4 DEF Send
    <2>2. /\ ~Releasing /\ ~Releasing' /\ head # NULL
          /\ offered' = offered /\ accepted' = accepted
      BY <1>3 DEF Send, SendLast, SendPart, Writing, Releasing, ghostVars
    <2>3. /\ Len(wire) \in Nat /\ Len(wire') = Len(wire) + m
          /\ m \in Nat \ {0}
      BY <2>1, <2>2, SentBytes
    <2>4. wire' = SubSeq(accepted', 1, Len(wire')) /\ Len(wire') <= Len(accepted')
      <3>1. TypeOK' /\ StreamIntact'
        BY DEF IInv
      <3>2. Len(wire') <= Len(accepted')
        BY <3>1 DEF StreamIntact
      <3>3. wire' = SubSeq(accepted', 1, Len(wire'))
        <4>1. /\ accepted' \in Seq(Byte) /\ wire' \in Seq(Byte)
              /\ \A i \in 1..Len(wire') : wire'[i] = accepted'[i]
          BY <3>1 DEF TypeOK, StreamIntact
        <4> QED
          BY <3>2, <4>1, WireIsPrefix
      <3> QED
        BY <3>2, <3>3
    <2>5. Len(accepted) \in Nat
      BY DEF IInv, TypeOK
    <2> DEFINE k == Len(wire')
    <2>6. k \in 1..Len(accepted) /\ k > Len(wire) /\ wire' = SubSeq(accepted, 1, k)
      BY <2>2, <2>3, <2>4, <2>5
    <2> HIDE DEF k
    <2>7. Stream!Transmit(k)
      BY <2>2, <2>6 DEF Stream!Transmit
    <2> QED
      BY <2>6, <2>7 DEF Stream!Next
  <1>4. CASE BeginRelease
    <2>1. /\ ~Releasing /\ Releasing'
          /\ offered' = offered /\ accepted' = accepted /\ wire' = wire
      BY <1>4 DEF BeginRelease, Releasing, ghostVars
    <2>2. Stream!Shut
      BY <2>1 DEF Stream!Shut
    <2> QED
      BY <2>2 DEF Stream!Next
  <1>5. CASE \/ BroadcastArm \/ EpolloutEvent
             \/ SendWouldBlock \/ SendFails \/ WriteDone \/ Disconnect
    <2>1. /\ ~Releasing /\ ~Releasing'
          /\ offered' = offered /\ accepted' = accepted /\ wire' = wire
      BY <1>5 DEF BroadcastArm, EpolloutEvent, SendWouldBlock, SendFails,
                  WriteDone, Disconnect, Writing, Return, Releasing, ghostVars
    <2> QED
      BY <2>1
  <1>6. CASE ReleaseOne \/ ReleaseDone
    <2>1. /\ Releasing /\ Releasing'
          /\ offered' = offered /\ accepted' = accepted /\ wire' = wire
      BY <1>6 DEF ReleaseOne, ReleaseDone, Releasing, ghostVars
    <2> QED
      BY <2>1
  <1>7. CASE UNCHANGED vars
    BY <1>7 DEF vars, ghostVars, Releasing
  <1> QED
    BY <1>1, <1>2, <1>3, <1>4, <1>5, <1>6, <1>7 DEF Next

\* The queue, its send loop and its registration implement the byte stream of
\* module ByteStream: accepted packets arrive whole, in order, once.
THEOREM StreamRefinement == Spec => ImplementsStream
  <1>1. Init => Stream!Init
    BY DEF Init, Stream!Init, Releasing
  <1> QED
    BY <1>1, AlwaysIInv, StepSimulation, PTL DEF Spec, ImplementsStream, Stream!Spec
=============================================================================
