-------------------------- MODULE ServerLoopProofs --------------------------
(***************************************************************************)
(* Memory safety of the event loop, proved for any number of clients, any  *)
(* MAX_CLIENTS and MAX_EVENTS and any behaviour of the peers.              *)
(***************************************************************************)
EXTENDS ServerLoop, SequenceTheorems, TLAPS

-----------------------------------------------------------------------------
(* The inductive invariant.                                                *)

\* A connection is known to the kernel from its arrival to its close: it
\* waits in the backlog or is listed, never both.
Connections ==
  ~Ending => /\ \A c \in Listed : peer[c] # "none"
             /\ \A c \in backlog : peer[c] # "none" /\ c \notin Listed /\ c \notin leaked

\* The batch holds listed clients only, and is empty where clients are freed.
BatchSound ==
  /\ ~Ending => DOMAIN batch \ {LISTENER} \subseteq Listed
  /\ pc \notin {"batch", "accept", "read", "write"} => DOMAIN batch = {}

\* Where the indices of the loops point.
IndexSound ==
  /\ pc = "reap" => i > 0
  /\ pc = "remove_all" => i <= Len(client_list)

IInv ==
  /\ TypeOK
  /\ ListSound
  /\ NoDangling
  /\ Connections
  /\ BatchSound
  /\ IndexSound

-----------------------------------------------------------------------------
(* Lemmas.                                                                 *)

LEMMA SwapRemoveList ==
  ASSUME TypeOK, NEW n \in 1..Len(client_list)
  PROVE  /\ SwapRemove(n) \in Seq(Clients)
         /\ Len(client_list) \in Nat \ {0}
         /\ Len(SwapRemove(n)) = Len(client_list) - 1
         /\ \A k \in 1..(Len(client_list) - 1) :
              SwapRemove(n)[k] = IF k = n THEN client_list[Len(client_list)]
                                 ELSE client_list[k]
  <1> DEFINE L == Len(client_list)
             s == SwapRemove(n)
  <1>1. L \in Nat \ {0} /\ \A k \in 1..L : client_list[k] \in Clients
    BY DEF TypeOK
  <1>2. s = [k \in 1..(L - 1) |-> IF k = n THEN client_list[L] ELSE client_list[k]]
    BY DEF SwapRemove
  <1> HIDE DEF L, s
  <1>3. s \in [1..(L - 1) -> Clients]
    BY <1>1, <1>2 DEF L
  <1>4. s \in Seq(Clients) /\ Len(s) = L - 1
    BY <1>1, <1>3
  <1> QED
    BY <1>1, <1>2, <1>4 DEF L, s

\* The steps of the peers keep the types.
LEMMA PeersType ==
  ASSUME TypeOK, Peers
  PROVE  TypeOK'
  <1> USE DEF listVars, infoVars, loopVars, serverVars
  <1>1. ASSUME NEW c \in Clients, PeerConnect(c) PROVE TypeOK'
    BY <1>1, ServerAssumption DEF TypeOK, PeerConnect
  <1>2. ASSUME NEW c \in Clients, PeerFin(c) PROVE TypeOK'
    BY <1>2 DEF TypeOK, PeerFin
  <1>3. ASSUME NEW c \in Clients, PeerReset(c) PROVE TypeOK'
    BY <1>3 DEF TypeOK, PeerReset
  <1>4. ASSUME NEW c \in Clients, NEW item \in Sendable, PeerSend(c, item)
        PROVE  TypeOK'
    <2>1. item \in Items
      BY ServerAssumption
    <2>2. inq' \in [Clients -> Seq(Items)]
      BY <1>4, <2>1 DEF TypeOK, PeerSend
    <2>3. mid' \in [Clients -> BOOLEAN]
      BY <1>4 DEF TypeOK, PeerSend
    <2>4. sends' \in 0..MaxSends
      BY <1>4, ServerAssumption DEF TypeOK, PeerSend
    <2> QED
      BY <1>4, <2>2, <2>3, <2>4 DEF TypeOK, PeerSend
  <1> QED
    BY <1>1, <1>2, <1>3, <1>4 DEF Peers

\* broadcast and CloseSocket keep the types of what they change.
LEMMA BroadcastType ==
  ASSUME TypeOK, NEW sender, broadcast(sender)
  PROVE  /\ closed' \in [Clients -> BOOLEAN]
         /\ queued' \in [Clients -> BOOLEAN]
         /\ epollout_enabled' \in [Clients -> BOOLEAN]
         /\ interest' \in [Clients -> SUBSET Flags]
  <1>1. closed' \in [Clients -> BOOLEAN]
    BY DEF broadcast
  <1>2. queued' \in [Clients -> BOOLEAN]
    BY DEF broadcast
  <1>3. PICK A : /\ epollout_enabled' = [c \in Clients |-> epollout_enabled[c] \/ c \in A]
                 /\ interest' = [c \in Clients |->
                                  IF c \in A THEN {"IN", "OUT"} ELSE interest[c]]
    BY DEF broadcast
  <1>4. epollout_enabled' \in [Clients -> BOOLEAN]
    BY <1>3
  <1>5. interest' \in [Clients -> SUBSET Flags]
    BY <1>3 DEF TypeOK, Flags
  <1> QED
    BY <1>1, <1>2, <1>4, <1>5

LEMMA CloseSocketType ==
  ASSUME TypeOK, NEW c \in Clients, CloseSocket(c)
  PROVE  /\ interest' \in [Clients -> SUBSET Flags]
         /\ peer' \in [Clients -> {"none", "open", "fin", "reset"}]
         /\ inq' \in [Clients -> Seq(Items)]
         /\ mid' \in [Clients -> BOOLEAN]
  BY DEF TypeOK, CloseSocket

\* The steps of the reading client keep the types.
LEMMA ReadType ==
  ASSUME TypeOK, cur \in Clients, handle_client_read
  PROVE  TypeOK'
  <1> USE DEF listVars, infoVars, netVars, loopVars, serverVars
  <1>1. inq[cur] # << >> => [inq EXCEPT ![cur] = Tail(@)] \in [Clients -> Seq(Items)]
    BY DEF TypeOK
  <1>2. CASE ReadHeader
    BY <1>1, <1>2 DEF ReadHeader, Take, SetState, TypeOK
  <1>3. CASE ReadBadHeader
    BY <1>1, <1>3 DEF ReadBadHeader, Take, CloseCur, TypeOK, PCs
  <1>4. CASE ReadEnds
    BY <1>4 DEF ReadEnds, CloseCur, TypeOK, PCs
  <1>5. CASE ReadReturns
    BY <1>5 DEF ReadReturns, AfterRead, TypeOK, PCs
  <1>6. CASE ReadQuiet
    <2>1. has_name' \in [Clients -> BOOLEAN]
      BY <1>6 DEF ReadQuiet, TypeOK
    <2> QED
      BY <1>1, <1>6, <2>1 DEF ReadQuiet, Take, SetState, TypeOK
  <1>7. CASE ReadText
    <2>1. /\ closed' \in [Clients -> BOOLEAN]
          /\ queued' \in [Clients -> BOOLEAN]
          /\ epollout_enabled' \in [Clients -> BOOLEAN]
          /\ interest' \in [Clients -> SUBSET Flags]
      BY <1>7, BroadcastType DEF ReadText
    <2> QED
      BY <1>1, <1>7, <2>1 DEF ReadText, Take, SetState, TypeOK
  <1>8. CASE ReadWhisperFails
    BY <1>1, <1>8 DEF ReadWhisperFails, Take, CloseCur, TypeOK, PCs
  <1>9. CASE ReadShutdown
    BY <1>1, <1>9 DEF ReadShutdown, Take, CloseCur, TypeOK, PCs
  <1> QED
    BY <1>2, <1>3, <1>4, <1>5, <1>6, <1>7, <1>8, <1>9 DEF handle_client_read

\* The steps of the writing client keep the types.
LEMMA WriteType ==
  ASSUME TypeOK, cur \in Clients, client_try_write
  PROVE  TypeOK'
  <1> USE DEF listVars, infoVars, netVars, loopVars, serverVars
  <1>1. CASE WriteAll
    <2>1. PICK A : /\ epollout_enabled' = [c \in Clients |-> epollout_enabled[c] /\ c \notin A]
                   /\ interest' = [c \in Clients |-> IF c \in A THEN {"IN"} ELSE interest[c]]
      BY <1>1 DEF WriteAll
    <2>2. epollout_enabled' \in [Clients -> BOOLEAN]
      BY <2>1
    <2>3. interest' \in [Clients -> SUBSET Flags]
      BY <2>1 DEF TypeOK, Flags
    <2>4. queued' \in [Clients -> BOOLEAN]
      BY <1>1 DEF WriteAll, TypeOK
    <2> QED
      BY <1>1, <2>2, <2>3, <2>4 DEF WriteAll, TypeOK, PCs
  <1>2. CASE WriteSome
    BY <1>2 DEF WriteSome, TypeOK, PCs
  <1>3. CASE WriteFails
    BY <1>3 DEF WriteFails, CloseCur, TypeOK, PCs
  <1> QED
    BY <1>1, <1>2, <1>3 DEF client_try_write

\* The remaining steps of the server keep the types.
LEMMA LoopType ==
  ASSUME IInv,
         \/ Reap \/ ReapEnd \/ EpollWait \/ EpollWaitFails
         \/ \E e \in Clients \cup {LISTENER} : Dispatch(e)
         \/ BatchEnd \/ accept_new_clients
         \/ Notify \/ CloseListener \/ RemoveNext \/ RemoveEnd
         \/ server_state_destroy
  PROVE  TypeOK'
  <1> USE DEF listVars, infoVars, netVars, loopVars, serverVars
  <1>0. TypeOK /\ IndexSound
    BY DEF IInv
  <1>l. Len(client_list) \in Nat /\ \A k \in 1..Len(client_list) : client_list[k] \in Clients
    BY <1>0 DEF TypeOK
  <1>1. CASE Reap
    <2>1. i \in 1..Len(client_list) /\ i + 1 \in Nat
      BY <1>0, <1>1 DEF Reap, TypeOK, IndexSound
    <2>2. CASE closed[client_list[i]]
      <3> DEFINE c == client_list[i]
      <3>1. c \in Clients
        BY <1>l, <2>1
      <3>2. PICK ok \in CloseResults : cleanup_client(c, ok)
        BY <1>1, <2>2 DEF Reap
      <3>3. client_list' = SwapRemove(i) /\ queued' = [queued EXCEPT ![c] = FALSE]
        BY <1>1, <2>2 DEF Reap
      <3>4. client_list' \in Seq(Clients) /\ Len(client_list') <= MAX_CLIENTS
        <4>1. SwapRemove(i) \in Seq(Clients) /\ Len(SwapRemove(i)) = Len(client_list) - 1
          BY <1>0, <2>1, SwapRemoveList
        <4>2. Len(client_list) <= MAX_CLIENTS
          BY <1>0 DEF TypeOK
        <4> QED
          BY <1>l, <3>3, <4>1, <4>2, ServerAssumption
      <3>5. /\ interest' \in [Clients -> SUBSET Flags]
            /\ peer' \in [Clients -> {"none", "open", "fin", "reset"}]
            /\ inq' \in [Clients -> Seq(Items)]
            /\ mid' \in [Clients -> BOOLEAN]
        BY <1>0, <3>1, <3>2, CloseSocketType DEF cleanup_client
      <3>6. allocated' \subseteq Clients /\ leaked' \subseteq Clients
        BY <1>0, <3>1, <3>2 DEF cleanup_client, TypeOK
      <3>7. queued' \in [Clients -> BOOLEAN]
        BY <1>0, <3>1, <3>3 DEF TypeOK
      <3> QED
        BY <1>0, <1>1, <2>1, <3>4, <3>5, <3>6, <3>7 DEF Reap, TypeOK
    <2>3. CASE ~closed[client_list[i]]
      BY <1>0, <1>1, <2>1, <2>3 DEF Reap, TypeOK
    <2> QED
      BY <2>2, <2>3
  <1>2. CASE ReapEnd
    BY <1>0, <1>2 DEF ReapEnd, TypeOK, PCs
  <1>3. CASE EpollWait
    <2>1. PICK W : \E S \in SUBSET Ready(W) :
            batch' = [e \in S |-> IF e = LISTENER THEN {"IN"} ELSE Events(e, W)]
      BY <1>3 DEF EpollWait
    <2>2. PICK S \in SUBSET Ready(W) :
            batch' = [e \in S |-> IF e = LISTENER THEN {"IN"} ELSE Events(e, W)]
      BY <2>1
    <2>3. S \subseteq Clients \cup {LISTENER}
      BY DEF Ready, Registered
    <2>4. /\ DOMAIN batch' \subseteq Clients \cup {LISTENER}
          /\ \A e \in DOMAIN batch' : batch'[e] \subseteq {"HUP", "IN", "OUT"}
      BY <2>2, <2>3 DEF Events
    <2> QED
      BY <1>0, <1>3, <2>4 DEF EpollWait, TypeOK, PCs
  <1>4. CASE EpollWaitFails
    BY <1>0, <1>4 DEF EpollWaitFails, TypeOK, PCs
  <1>5. CASE \E e \in Clients \cup {LISTENER} : Dispatch(e)
    <2>1. PICK e \in Clients \cup {LISTENER} : Dispatch(e)
      BY <1>5
    <2>2. /\ DOMAIN batch' \subseteq Clients \cup {LISTENER}
          /\ \A x \in DOMAIN batch' : batch'[x] \subseteq {"HUP", "IN", "OUT"}
      BY <1>0, <2>1 DEF Dispatch, Without, TypeOK
    <2>3. closed' \in [Clients -> BOOLEAN]
      BY <1>0, <2>1 DEF Dispatch, TypeOK
    <2>4. pc' \in PCs
      BY <1>0, <2>1 DEF Dispatch, TypeOK, PCs
    <2>5. cur' \in Clients \cup {NOBODY}
      BY <1>0, <2>1 DEF Dispatch, TypeOK
    <2>6. pending_out' \in BOOLEAN
      <3>1. pending_out' = pending_out \/ pending_out' = ("OUT" \in batch[e])
        BY <2>1 DEF Dispatch
      <3>2. pending_out \in BOOLEAN
        BY <1>0 DEF TypeOK
      <3>3. ("OUT" \in batch[e]) \in BOOLEAN
        <4>1. CASE "OUT" \in batch[e]
          BY <4>1
        <4>2. CASE "OUT" \notin batch[e]
          BY <4>2
        <4> QED
          BY <4>1, <4>2
      <3> QED
        BY <3>1, <3>2, <3>3, Zenon
    <2> QED
      BY <1>0, <2>1, <2>2, <2>3, <2>4, <2>5, <2>6 DEF Dispatch, TypeOK
  <1>6. CASE BatchEnd
    BY <1>0, <1>6 DEF BatchEnd, TypeOK, PCs
  <1>7. CASE accept_new_clients
    <2>1. CASE AcceptEnd
      BY <1>0, <2>1 DEF AcceptEnd, TypeOK, PCs
    <2>2. ASSUME NEW c \in Clients, AcceptLeaks(c) PROVE TypeOK'
      BY <1>0, <2>2 DEF AcceptLeaks, TypeOK, PCs
    <2>3. ASSUME NEW c \in Clients, AcceptFull(c) PROVE TypeOK'
      <3>1. /\ interest' \in [Clients -> SUBSET Flags]
            /\ peer' \in [Clients -> {"none", "open", "fin", "reset"}]
            /\ inq' \in [Clients -> Seq(Items)]
            /\ mid' \in [Clients -> BOOLEAN]
        BY <1>0, <2>3, CloseSocketType DEF AcceptFull
      <3> QED
        BY <1>0, <2>3, <3>1 DEF AcceptFull, TypeOK, PCs
    <2>4. ASSUME NEW c \in Clients, Accept(c) PROVE TypeOK'
      <3>1. client_list' \in Seq(Clients) /\ Len(client_list') <= MAX_CLIENTS
        BY <1>0, <1>l, <2>4, ServerAssumption DEF Accept, HasRoom, TypeOK
      <3>2. interest' \in [Clients -> SUBSET Flags]
        BY <1>0, <2>4 DEF Accept, TypeOK, Flags
      <3>3. /\ closed' \in [Clients -> BOOLEAN] /\ has_name' \in [Clients -> BOOLEAN]
            /\ epollout_enabled' \in [Clients -> BOOLEAN]
            /\ queued' \in [Clients -> BOOLEAN]
            /\ state' \in [Clients -> {"READ_HEADER", "READ_PAYLOAD"}]
        BY <1>0, <2>4 DEF Accept, TypeOK
      <3> QED
        BY <1>0, <2>4, <3>1, <3>2, <3>3 DEF Accept, TypeOK
    <2> QED
      BY <1>7, <2>1, <2>2, <2>3, <2>4 DEF accept_new_clients
  <1>8. CASE Notify
    <2>1. /\ closed' \in [Clients -> BOOLEAN]
          /\ queued' \in [Clients -> BOOLEAN]
          /\ epollout_enabled' \in [Clients -> BOOLEAN]
          /\ interest' \in [Clients -> SUBSET Flags]
      BY <1>0, <1>8, BroadcastType DEF Notify
    <2> QED
      BY <1>0, <1>8, <2>1 DEF Notify, TypeOK, PCs
  <1>9. CASE CloseListener
    <2>1. /\ peer' \in [Clients -> {"none", "open", "fin", "reset"}]
          /\ queued' \in [Clients -> BOOLEAN]
      BY <1>0, <1>9 DEF CloseListener, TypeOK
    <2>2. inq' \in [Clients -> Seq(Items)]
      BY <1>0, <1>9 DEF CloseListener, TypeOK
    <2>3. mid' \in [Clients -> BOOLEAN]
      BY <1>9 DEF CloseListener
    <2> QED
      BY <1>0, <1>9, <1>l, <2>1, <2>2, <2>3 DEF CloseListener, TypeOK, PCs
  <1>10. CASE RemoveNext
    <2>1. i \in 1..Len(client_list)
      BY <1>0, <1>10 DEF RemoveNext, TypeOK, IndexSound
    <2>2. PICK ok \in CloseResults :
            /\ cleanup_client(client_list[i], ok)
            /\ i' = IF ok THEN i - 1 ELSE i
            /\ pc' = IF ok THEN pc ELSE "destroy"
            /\ mutex_locked' = ~ok
      BY <1>10 DEF RemoveNext
    <2>3. client_list[i] \in Clients
      BY <1>l, <2>1
    <2>4. /\ interest' \in [Clients -> SUBSET Flags]
          /\ peer' \in [Clients -> {"none", "open", "fin", "reset"}]
          /\ inq' \in [Clients -> Seq(Items)]
          /\ mid' \in [Clients -> BOOLEAN]
      BY <1>0, <2>2, <2>3, CloseSocketType DEF cleanup_client
    <2>5. allocated' \subseteq Clients /\ leaked' \subseteq Clients
      BY <1>0, <2>2, <2>3 DEF cleanup_client, TypeOK
    <2>6. i' \in Nat /\ pc' \in PCs
      BY <1>0, <1>l, <2>1, <2>2 DEF TypeOK, PCs
    <2>7. mutex_locked' \in BOOLEAN
      BY <2>2
    <2> QED
      BY <1>0, <1>10, <2>4, <2>5, <2>6, <2>7 DEF RemoveNext, TypeOK
  <1>11. CASE RemoveEnd
    BY <1>0, <1>11 DEF RemoveEnd, TypeOK, PCs
  <1>12. CASE server_state_destroy
    BY <1>0, <1>12 DEF server_state_destroy, TypeOK, PCs
  <1> QED
    BY <1>1, <1>2, <1>3, <1>4, <1>5, <1>6, <1>7, <1>8, <1>9, <1>10, <1>11, <1>12

-----------------------------------------------------------------------------
(* Preservation.                                                           *)

LEMMA InitIInv == Init => IInv
  <1> SUFFICES ASSUME Init PROVE IInv
    OBVIOUS
  <1> USE ServerAssumption DEF Init
  <1>1. Len(client_list) = 0 /\ DOMAIN batch = {}
    OBVIOUS
  <1>2. Registered = {} /\ Listed = {}
    BY <1>1 DEF Registered, Listed
  <1>3. TypeOK
    <2>1. client_list \in Seq(Clients) /\ inq \in [Clients -> Seq(Items)]
      BY EmptySeq
    <2>2. interest \in [Clients -> SUBSET Flags]
      BY DEF Flags
    <2>3. /\ pending_out \in BOOLEAN /\ server_shutdown \in BOOLEAN
          /\ server_open \in BOOLEAN /\ mutex_locked \in BOOLEAN
      OBVIOUS
    <2>4. i \in Nat /\ connects \in 0..MaxConnects /\ sends \in 0..MaxSends
      OBVIOUS
    <2>5. /\ Len(client_list) <= MAX_CLIENTS
          /\ DOMAIN batch \subseteq Clients \cup {LISTENER}
          /\ \A e \in DOMAIN batch : batch[e] \subseteq {"HUP", "IN", "OUT"}
      BY <1>1
    <2>6. /\ closed \in [Clients -> BOOLEAN] /\ has_name \in [Clients -> BOOLEAN]
          /\ epollout_enabled \in [Clients -> BOOLEAN]
          /\ queued \in [Clients -> BOOLEAN] /\ mid \in [Clients -> BOOLEAN]
      OBVIOUS
    <2>7. /\ state \in [Clients -> {"READ_HEADER", "READ_PAYLOAD"}]
          /\ peer \in [Clients -> {"none", "open", "fin", "reset"}]
      OBVIOUS
    <2> QED
      BY <2>1, <2>2, <2>3, <2>4, <2>5, <2>6, <2>7 DEF TypeOK, PCs
  <1>4. ListSound /\ NoDangling /\ IndexSound
    BY <1>1, <1>2 DEF ListSound, NoDangling, IndexSound
  <1>5. Connections /\ BatchSound
    BY <1>1, <1>2 DEF Connections, BatchSound
  <1> QED
    BY <1>3, <1>4, <1>5 DEF IInv

\* The steps that neither free nor register a client nor change the list only
\* have to keep to the listed clients.
LEMMA FrameStep ==
  ASSUME IInv, TypeOK',
         UNCHANGED <<allocated, leaked, client_list, backlog>>,
         Registered' = Registered,
         \A c \in Clients : peer[c] # "none" => peer'[c] # "none",
         Ending => Ending',
         ~Ending' => DOMAIN batch' \ {LISTENER} \subseteq Listed,
         pc' \notin {"batch", "accept", "read", "write"} => DOMAIN batch' = {},
         pc' \in {"read", "write"} => cur' \in Listed /\ ~closed'[cur'],
         IndexSound'
  PROVE  IInv'
  <1>1. ListSound /\ NoDangling /\ Connections /\ TypeOK
    BY DEF IInv
  <1>2. Listed' = Listed
    BY DEF Listed
  <1>3. ListSound'
    BY <1>1, <1>2 DEF ListSound
  <1>4. NoDangling'
    <2>1. ~Ending => Listed \subseteq allocated
      BY <1>1 DEF ListSound
    <2>2. pc' \in {"read", "write"} => ~Ending'
      BY DEF Ending
    <2> QED
      BY <1>1, <1>2, <2>1, <2>2 DEF NoDangling
  <1>5. Connections'
    <2>1. Listed \subseteq Clients /\ backlog \subseteq Clients
      BY <1>1, SMTT(30) DEF TypeOK, Listed
    <2> QED
      BY <1>1, <1>2, <2>1 DEF Connections
  <1>6. BatchSound'
    BY <1>2 DEF BatchSound
  <1> QED
    BY <1>3, <1>4, <1>5, <1>6 DEF IInv

\* A broadcast changes registrations, but registers and unregisters nobody,
\* and does not close its sender.
LEMMA BroadcastFrame ==
  ASSUME IInv, ~Ending, NEW sender, broadcast(sender)
  PROVE  /\ Registered' = Registered
         /\ sender \in Clients => closed'[sender] = closed[sender]
  <1>1. PICK A : /\ A \subseteq Targets(sender)
                 /\ interest' = [c \in Clients |->
                                  IF c \in A THEN {"IN", "OUT"} ELSE interest[c]]
    BY DEF broadcast, Modified
  <1>2. Targets(sender) \subseteq Listed
    BY DEF Targets, Listed
  <1>3. Listed = Registered
    BY DEF IInv, ListSound
  <1>4. \A c \in Clients : interest'[c] # {} <=> interest[c] # {}
    <2>1. \A c \in A : interest[c] # {}
      BY <1>1, <1>2, <1>3 DEF Registered
    <2> QED
      BY <1>1, <2>1
  <1>5. sender \in Clients => closed'[sender] = closed[sender]
    <2>1. sender \notin Targets(sender)
      BY DEF Targets
    <2>2. sender \in Clients => closed[sender] \in BOOLEAN
      BY DEF IInv, TypeOK
    <2> QED
      BY <2>1, <2>2 DEF broadcast
  <1> QED
    BY <1>4, <1>5 DEF Registered

\* The peers' steps, but for a new connection.
LEMMA PeersStep ==
  ASSUME IInv, NEW c \in Clients,
         PeerFin(c) \/ PeerReset(c) \/ \E item \in Sendable : PeerSend(c, item)
  PROVE  IInv'
  <1>1. TypeOK'
    BY PeersType DEF Peers, IInv
  <1>2. /\ UNCHANGED <<listVars, infoVars, backlog, loopVars>>
        /\ \A x \in Clients : peer[x] # "none" => peer'[x] # "none"
    BY DEF PeerFin, PeerReset, PeerSend, IInv, TypeOK
  <1>3. UNCHANGED <<allocated, leaked, client_list, interest, closed, pc, i, batch, cur>>
    BY <1>2 DEF listVars, infoVars, loopVars
  <1>4. Registered' = Registered /\ (Ending <=> Ending')
    BY <1>3 DEF Registered, Ending
  <1>5. NoDangling /\ BatchSound /\ IndexSound
    BY DEF IInv
  <1>6. IndexSound'
    BY <1>3, <1>5 DEF IndexSound
  <1> QED
    BY <1>1, <1>2, <1>3, <1>4, <1>5, <1>6, FrameStep DEF NoDangling, BatchSound

LEMMA PeerConnectStep ==
  ASSUME IInv, NEW c \in Clients, PeerConnect(c)
  PROVE  IInv'
  <1>1. TypeOK'
    BY PeersType DEF Peers, IInv
  <1>2. /\ UNCHANGED <<allocated, leaked, client_list, interest, closed, pc, i, batch, cur>>
        /\ peer[c] = "none" /\ c \notin leaked
        /\ peer' = [peer EXCEPT ![c] = "open"] /\ backlog' = backlog \cup {c}
    BY DEF PeerConnect, listVars, infoVars, loopVars
  <1>3. Registered' = Registered /\ (Ending' <=> Ending) /\ Listed' = Listed
    BY <1>2 DEF Registered, Ending, Listed
  <1>4. TypeOK /\ ListSound /\ NoDangling /\ Connections /\ BatchSound /\ IndexSound
    BY DEF IInv
  <1>5. ListSound' /\ NoDangling'
    BY <1>2, <1>3, <1>4 DEF ListSound, NoDangling
  <1>6. Connections'
    <2>1. Listed \subseteq Clients /\ backlog \subseteq Clients
      BY <1>4 DEF TypeOK, Listed
    <2>2. \A x \in Clients : peer'[x] = IF x = c THEN "open" ELSE peer[x]
      BY <1>2, <1>4 DEF TypeOK
    <2> QED
      BY <1>2, <1>3, <1>4, <2>1, <2>2 DEF Connections
  <1>7. BatchSound' /\ IndexSound'
    BY <1>2, <1>3, <1>4 DEF BatchSound, IndexSound
  <1> QED
    BY <1>1, <1>5, <1>6, <1>7 DEF IInv

\* The reading client: it stays listed and open until it is done.
LEMMA ReadStep ==
  ASSUME IInv, handle_client_read
  PROVE  IInv'
  <1>0. /\ pc = "read" /\ ~Ending /\ cur \in Listed /\ cur \in Clients
        /\ ~closed[cur]
        /\ DOMAIN batch \ {LISTENER} \subseteq Listed
    <2>1. pc = "read"
      BY DEF handle_client_read, ReadHeader, ReadBadHeader, ReadEnds, ReadReturns,
             ReadQuiet, ReadText, ReadWhisperFails, ReadShutdown, Reading
    <2> QED
      BY <2>1 DEF IInv, NoDangling, BatchSound, Ending, TypeOK
  <1>1. TypeOK'
    BY <1>0, ReadType DEF IInv
  <1> USE DEF listVars, infoVars, netVars, loopVars, serverVars
  <1>2. UNCHANGED <<allocated, leaked, client_list, backlog, peer, batch, cur>>
    BY DEF handle_client_read, ReadHeader, ReadBadHeader, ReadEnds, ReadReturns,
           ReadQuiet, ReadText, ReadWhisperFails, ReadShutdown
  <1>3. /\ pc' \in {"read", "write", "batch"}
        /\ pc' \in {"read", "write"} => closed'[cur] = closed[cur]
    <2>1. CASE ReadText
      BY <1>0, <2>1, BroadcastFrame DEF ReadText
    <2>2. CASE ReadHeader \/ ReadReturns \/ ReadQuiet
      BY <1>0, <2>2 DEF ReadHeader, ReadReturns, ReadQuiet, AfterRead
    <2>3. CASE ReadBadHeader \/ ReadEnds \/ ReadWhisperFails \/ ReadShutdown
      BY <2>3 DEF ReadBadHeader, ReadEnds, ReadWhisperFails, ReadShutdown, CloseCur
    <2> QED
      BY <2>1, <2>2, <2>3 DEF handle_client_read
  <1>4. Registered' = Registered
    <2>1. CASE ReadText
      BY <1>0, <2>1, BroadcastFrame DEF ReadText
    <2>2. CASE ~ReadText
      <3>1. interest' = interest
        BY <2>2 DEF handle_client_read, ReadHeader, ReadBadHeader, ReadEnds,
                    ReadReturns, ReadQuiet, ReadWhisperFails, ReadShutdown
      <3> QED
        BY <3>1 DEF Registered
    <2> QED
      BY <2>1, <2>2
  <1>5. IndexSound'
    BY <1>3 DEF IndexSound
  <1> QED
    BY <1>0, <1>1, <1>2, <1>3, <1>4, <1>5, FrameStep DEF Ending

\* The writing client.
LEMMA WriteStep ==
  ASSUME IInv, client_try_write
  PROVE  IInv'
  <1>0. /\ pc = "write" /\ ~Ending /\ cur \in Listed /\ cur \in Clients
        /\ DOMAIN batch \ {LISTENER} \subseteq Listed
    <2>1. pc = "write"
      BY DEF client_try_write, WriteAll, WriteSome, WriteFails
    <2> QED
      BY <2>1 DEF IInv, NoDangling, BatchSound, Ending, TypeOK
  <1>1. TypeOK'
    BY <1>0, WriteType DEF IInv
  <1> USE DEF listVars, infoVars, netVars, loopVars, serverVars
  <1>2. /\ UNCHANGED <<allocated, leaked, client_list, backlog, peer, batch>>
        /\ pc' = "batch"
    BY DEF client_try_write, WriteAll, WriteSome, WriteFails, CloseCur
  <1>3. Registered' = Registered
    <2>1. CASE WriteAll
      <3>1. PICK A : /\ A \subseteq {cur}
                     /\ interest' = [c \in Clients |-> IF c \in A THEN {"IN"} ELSE interest[c]]
        BY <2>1 DEF WriteAll, Modified
      <3>2. interest[cur] # {}
        BY <1>0 DEF IInv, ListSound, Registered
      <3> QED
        BY <3>1, <3>2 DEF Registered
    <2>2. CASE WriteSome \/ WriteFails
      BY <2>2 DEF WriteSome, WriteFails, Registered
    <2> QED
      BY <2>1, <2>2 DEF client_try_write
  <1>4. IndexSound' /\ ~Ending'
    BY <1>2 DEF IndexSound, Ending
  <1> QED
    BY <1>0, <1>1, <1>2, <1>3, <1>4, FrameStep

\* The steps of the loop that only move on: they change no client but for its
\* closed flag, and take clients into the batch only if they are registered.
LEMMA LoopStep ==
  ASSUME IInv,
         \/ ReapEnd \/ EpollWait \/ EpollWaitFails
         \/ \E e \in Clients \cup {LISTENER} : Dispatch(e)
         \/ BatchEnd \/ AcceptEnd \/ Notify \/ RemoveEnd \/ server_state_destroy
  PROVE  IInv'
  <1>0. TypeOK /\ ListSound /\ NoDangling /\ BatchSound /\ IndexSound
    BY DEF IInv
  <1>1. TypeOK'
    BY LoopType DEF accept_new_clients
  <1> USE DEF listVars, infoVars, netVars, loopVars, serverVars
  <1>2. UNCHANGED <<allocated, leaked, client_list, backlog, peer>>
    BY DEF ReapEnd, EpollWait, EpollWaitFails, Dispatch, BatchEnd, AcceptEnd,
           Notify, RemoveEnd, server_state_destroy
  <1>3. Registered' = Registered
    <2>1. CASE Notify
      BY <2>1, BroadcastFrame DEF Notify, Ending
    <2>2. CASE ~Notify
      <3>1. interest' = interest
        BY <2>2 DEF ReapEnd, EpollWait, EpollWaitFails, Dispatch, BatchEnd,
                    AcceptEnd, RemoveEnd, server_state_destroy
      <3> QED
        BY <3>1 DEF Registered
    <2> QED
      BY <2>1, <2>2
  <1>4. Ending => Ending'
    BY DEF ReapEnd, EpollWait, EpollWaitFails, Dispatch, BatchEnd, AcceptEnd,
           Notify, RemoveEnd, server_state_destroy, Ending
  <1>5. /\ ~Ending' => DOMAIN batch' \ {LISTENER} \subseteq Listed
        /\ pc' \notin {"batch", "accept", "read", "write"} => DOMAIN batch' = {}
    <2>1. CASE EpollWait
      <3>1. PICK W : \E S \in SUBSET Ready(W) :
              batch' = [e \in S |-> IF e = LISTENER THEN {"IN"} ELSE Events(e, W)]
        BY <2>1 DEF EpollWait
      <3>2. DOMAIN batch' \subseteq Ready(W)
        BY <3>1
      <3>3. DOMAIN batch' \ {LISTENER} \subseteq Registered
        BY <3>2 DEF Ready
      <3>4. pc = "wait" /\ pc' = "batch"
        BY <2>1 DEF EpollWait
      <3> QED
        BY <1>0, <3>3, <3>4 DEF ListSound, Ending
    <2>2. ASSUME NEW e \in Clients \cup {LISTENER}, Dispatch(e)
          PROVE  /\ DOMAIN batch' \ {LISTENER} \subseteq Listed
                 /\ pc' \in {"batch", "accept", "read", "write"}
      <3>1. DOMAIN batch' \subseteq DOMAIN batch
        BY <2>2 DEF Dispatch, Without
      <3> QED
        BY <1>0, <2>2, <3>1 DEF Dispatch, BatchSound, Ending
    <2>3. CASE BatchEnd
      BY <2>3 DEF BatchEnd
    <2>4. CASE ReapEnd \/ EpollWaitFails \/ AcceptEnd \/ Notify \/ RemoveEnd
                 \/ server_state_destroy
      BY <1>0, <1>4, <2>4 DEF ReapEnd, EpollWaitFails, AcceptEnd, Notify, RemoveEnd,
                        server_state_destroy, BatchSound, Ending
    <2> QED
      BY <2>1, <2>2, <2>3, <2>4
  <1>6. pc' \in {"read", "write"} => cur' \in Listed /\ ~closed'[cur']
    <2>1. ASSUME NEW e \in Clients \cup {LISTENER}, Dispatch(e)
          PROVE  pc' \in {"read", "write"} => cur' \in Listed /\ ~closed'[cur']
      <3>1. pc = "batch" /\ e \in DOMAIN batch /\ ~Ending
        BY <2>1 DEF Dispatch, Ending
      <3>2. e # LISTENER => e \in Listed
        BY <1>0, <3>1 DEF BatchSound
      <3> QED
        BY <2>1, <3>1, <3>2 DEF Dispatch
    <2>2. CASE ~\E e \in Clients \cup {LISTENER} : Dispatch(e)
      <3>1. pc' \notin {"read", "write"}
        BY <2>2 DEF ReapEnd, EpollWait, EpollWaitFails, BatchEnd, AcceptEnd,
                    Notify, RemoveEnd, server_state_destroy
      <3> QED
        BY <3>1
    <2> QED
      BY <2>1, <2>2
  <1>7. IndexSound'
    <2>1. CASE \E e \in Clients \cup {LISTENER} : Dispatch(e)
      <3>1. pc' \in {"batch", "accept", "read", "write"}
        BY <2>1 DEF Dispatch
      <3> QED
        BY <3>1 DEF IndexSound
    <2>2. CASE ~\E e \in Clients \cup {LISTENER} : Dispatch(e)
      BY <2>2 DEF ReapEnd, EpollWait, EpollWaitFails, BatchEnd, AcceptEnd, Notify,
                  RemoveEnd, server_state_destroy, IndexSound
    <2> QED
      BY <2>1, <2>2
  <1> QED
    BY <1>1, <1>2, <1>3, <1>4, <1>5, <1>6, <1>7, FrameStep

\* A connection in the backlog is unknown to the server, so giving it up on an
\* error or for want of room touches no listed client ...
LEMMA AcceptErrorStep ==
  ASSUME IInv, NEW c \in Clients, AcceptLeaks(c) \/ AcceptFull(c)
  PROVE  IInv'
  <1>0. TypeOK /\ ListSound /\ NoDangling /\ Connections /\ BatchSound /\ IndexSound
    BY DEF IInv
  <1>1. TypeOK'
    BY LoopType DEF accept_new_clients
  <1> USE DEF listVars, infoVars, netVars, loopVars, serverVars
  <1>2. /\ pc = "accept" /\ pc' = "batch" /\ ~Ending /\ ~Ending'
        /\ c \in backlog /\ backlog' = backlog \ {c}
        /\ UNCHANGED <<client_list, closed, batch, cur>>
    BY DEF AcceptLeaks, AcceptFull, Ending
  <1>3. Listed' = Listed /\ Listed \subseteq Clients /\ backlog \subseteq Clients
    BY <1>0, <1>2 DEF Listed, TypeOK
  <1>4. c \notin Listed /\ c \notin leaked /\ c \notin Registered
    BY <1>0, <1>2 DEF Connections, ListSound
  <1>5. \A x \in Clients \ {c} : peer'[x] = peer[x] /\ interest'[x] = interest[x]
    BY <1>0 DEF AcceptLeaks, AcceptFull, CloseSocket, TypeOK
  <1>6. c \notin Registered'
    BY <1>0, <1>4 DEF AcceptLeaks, AcceptFull, CloseSocket, Registered, TypeOK
  <1>7. Registered' = Registered
    BY <1>4, <1>5, <1>6 DEF Registered
  <1>8. /\ leaked' \in {leaked, leaked \cup {c}}
        /\ allocated \subseteq allocated'
        /\ allocated' \subseteq allocated \cup (leaked' \cap {c})
    BY DEF AcceptLeaks, AcceptFull
  <1>9. ListSound'
    BY <1>0, <1>2, <1>3, <1>4, <1>7, <1>8 DEF ListSound
  <1>10. NoDangling'
    BY <1>0, <1>2, <1>7, <1>8 DEF NoDangling
  <1>11. Connections'
    BY <1>0, <1>2, <1>3, <1>4, <1>5, <1>8 DEF Connections
  <1>12. BatchSound' /\ IndexSound'
    BY <1>0, <1>2, <1>3 DEF BatchSound, IndexSound
  <1> QED
    BY <1>1, <1>9, <1>10, <1>11, <1>12 DEF IInv

\* ... and accepting it lists, allocates and registers it together.
LEMMA AcceptStep ==
  ASSUME IInv, NEW c \in Clients, Accept(c)
  PROVE  IInv'
  <1>0. TypeOK /\ ListSound /\ NoDangling /\ Connections /\ BatchSound /\ IndexSound
    BY DEF IInv
  <1>1. TypeOK'
    BY LoopType DEF accept_new_clients
  <1> USE DEF listVars, infoVars, netVars, loopVars, serverVars
  <1>2. /\ pc = "accept" /\ pc' = pc /\ ~Ending /\ ~Ending'
        /\ c \in backlog /\ backlog' = backlog \ {c}
        /\ allocated' = allocated \cup {c}
        /\ UNCHANGED <<leaked, peer, batch, cur, i>>
    BY DEF Accept, Ending
  <1>3. /\ client_list \in Seq(Clients) /\ Len(client_list) \in Nat
        /\ client_list' = Append(client_list, c)
    BY <1>0 DEF Accept, TypeOK
  <1>4. /\ Len(client_list') = Len(client_list) + 1
        /\ \A k \in 1..Len(client_list) : client_list'[k] = client_list[k]
        /\ client_list'[Len(client_list) + 1] = c
    BY <1>3
  <1>5. Listed' = Listed \cup {c}
    BY <1>3, <1>4 DEF Listed
  <1>6. c \notin Listed /\ c \notin leaked
    BY <1>0, <1>2 DEF Connections
  <1>7. Registered' = Registered \cup {c}
    <2>1. interest \in [Clients -> SUBSET Flags]
      BY <1>0 DEF TypeOK
    <2>2. interest' = [interest EXCEPT ![c] = {"IN", "RDHUP"}]
      BY DEF Accept
    <2>3. \A d \in Clients : interest'[d] # {} <=> (interest[d] # {} \/ d = c)
      BY <2>1, <2>2
    <2> QED
      BY <2>3 DEF Registered
  <1>8. ListSound'
    <2>1. ASSUME NEW j \in 1..Len(client_list'), NEW k \in 1..Len(client_list'),
                 client_list'[j] = client_list'[k]
          PROVE  j = k
      <3>1. \A m \in 1..Len(client_list) : client_list[m] # c
        BY <1>6 DEF Listed
      <3>2. j \in 1..Len(client_list) \/ j = Len(client_list) + 1
        BY <1>3, <1>4
      <3>3. k \in 1..Len(client_list) \/ k = Len(client_list) + 1
        BY <1>3, <1>4
      <3> QED
        BY <1>0, <1>4, <2>1, <3>1, <3>2, <3>3 DEF ListSound
    <2> QED
      BY <1>0, <1>2, <1>5, <1>6, <1>7, <2>1 DEF ListSound
  <1>9. NoDangling'
    BY <1>0, <1>2, <1>7 DEF NoDangling
  <1>10. Connections'
    BY <1>0, <1>2, <1>5 DEF Connections
  <1>11. BatchSound' /\ IndexSound'
    BY <1>0, <1>2, <1>5 DEF BatchSound, IndexSound
  <1> QED
    BY <1>1, <1>8, <1>9, <1>10, <1>11 DEF IInv

\* Closing the listening socket ends the waiting connections; the batch is
\* empty by then.
LEMMA CloseListenerStep ==
  ASSUME IInv, CloseListener
  PROVE  IInv'
  <1>0. TypeOK /\ ListSound /\ NoDangling /\ BatchSound
    BY DEF IInv
  <1>1. TypeOK'
    BY LoopType
  <1>2. /\ pc = "close" /\ pc' = "remove_all" /\ i' = Len(client_list)
        /\ UNCHANGED <<allocated, leaked, client_list, interest, batch>>
    BY DEF CloseListener, listVars
  <1>3. Ending' /\ Registered' = Registered /\ Len(client_list) \in Nat
    BY <1>0, <1>2 DEF Ending, Registered, TypeOK
  <1>4. ListSound' /\ NoDangling' /\ Connections'
    BY <1>0, <1>2, <1>3 DEF ListSound, NoDangling, Connections
  <1>5. BatchSound' /\ IndexSound'
    BY <1>0, <1>2, <1>3 DEF BatchSound, IndexSound
  <1> QED
    BY <1>1, <1>4, <1>5 DEF IInv

\* remove_all_clients closes a descriptor, and with it the registration,
\* before it frees the struct.
LEMMA RemoveNextStep ==
  ASSUME IInv, RemoveNext
  PROVE  IInv'
  <1>0. TypeOK /\ ListSound /\ NoDangling /\ BatchSound /\ IndexSound
    BY DEF IInv
  <1>1. TypeOK'
    BY LoopType
  <1>2. /\ pc = "remove_all" /\ i > 0 /\ Ending
        /\ UNCHANGED <<client_list, batch>>
    BY DEF RemoveNext, Ending
  <1>3. PICK ok \in CloseResults :
          /\ cleanup_client(client_list[i], ok)
          /\ i' = IF ok THEN i - 1 ELSE i
          /\ pc' = IF ok THEN pc ELSE "destroy"
    BY DEF RemoveNext
  <1>4. i \in 1..Len(client_list) /\ Len(client_list) \in Nat
    BY <1>0, <1>2 DEF TypeOK, IndexSound
  <1>5. client_list[i] \in Clients
    BY <1>0, <1>4 DEF TypeOK
  <1>6. Ending' /\ pc' \in {"remove_all", "destroy"}
    BY <1>2, <1>3 DEF Ending
  <1>7. Registered' \subseteq Registered \ {client_list[i]}
    BY <1>0, <1>3, <1>5 DEF cleanup_client, CloseSocket, Registered, TypeOK
  <1>8. allocated \ {client_list[i]} \subseteq allocated'
    BY <1>3 DEF cleanup_client
  <1>9. ListSound' /\ Connections'
    BY <1>0, <1>2, <1>6 DEF ListSound, Connections
  <1>10. NoDangling'
    BY <1>0, <1>6, <1>7, <1>8 DEF NoDangling
  <1>11. BatchSound' /\ IndexSound'
    <2>1. BatchSound'
      BY <1>0, <1>2, <1>6 DEF BatchSound
    <2>2. IndexSound'
      BY <1>2, <1>3, <1>4, <1>6 DEF IndexSound
    <2> QED
      BY <2>1, <2>2
  <1> QED
    BY <1>1, <1>9, <1>10, <1>11 DEF IInv

\* SwapRemove takes exactly the reaped client out of the list.
LEMMA ReapRemoves ==
  ASSUME IInv, Reap, closed[client_list[i]]
  PROVE  /\ i \in 1..Len(client_list)
         /\ client_list[i] \in Listed
         /\ Listed' = Listed \ {client_list[i]}
         /\ \A j, k \in 1..Len(client_list') :
              client_list'[j] = client_list'[k] => j = k
  <1> DEFINE c == client_list[i]
             L == Len(client_list)
  <1>0. TypeOK /\ ListSound /\ IndexSound
    BY DEF IInv
  <1>1. L \in Nat /\ i \in 1..L
    BY <1>0 DEF Reap, TypeOK, IndexSound
  <1>2. c \in Listed
    BY <1>1 DEF Listed
  <1>3. client_list' = SwapRemove(i)
    BY DEF Reap
  <1>4. /\ Len(client_list') = L - 1
        /\ \A k \in 1..(L - 1) :
             client_list'[k] = IF k = i THEN client_list[L] ELSE client_list[k]
    BY <1>0, <1>1, <1>3, SwapRemoveList
  <1>5. \A j, k \in 1..L : client_list[j] = client_list[k] => j = k
    BY <1>0 DEF ListSound
  <1> HIDE DEF c
  <1>6. ASSUME NEW x \in Listed' PROVE x \in Listed \ {c}
    <2>1. PICK k \in 1..(L - 1) : x = client_list'[k]
      BY <1>4 DEF Listed
    <2>2. PICK m \in 1..L : x = client_list[m] /\ m # i
      BY <1>1, <1>4, <2>1
    <2> QED
      BY <1>1, <1>5, <2>2 DEF Listed, c
  <1>7. ASSUME NEW x \in Listed, x # c PROVE x \in Listed'
    <2>1. PICK m \in 1..L : x = client_list[m] /\ m # i
      BY <1>7 DEF Listed, c
    <2>2. \E k \in 1..(L - 1) : client_list'[k] = x
      <3>1. CASE m = L
        BY <1>1, <1>4, <2>1, <3>1
      <3>2. CASE m # L
        BY <1>1, <1>4, <2>1, <3>2
      <3> QED
        BY <3>1, <3>2
    <2> QED
      BY <1>4, <2>2 DEF Listed
  <1>8. ASSUME NEW j \in 1..(L - 1), NEW k \in 1..(L - 1),
               client_list'[j] = client_list'[k]
        PROVE  j = k
    BY <1>1, <1>4, <1>5, <1>8
  <1>9. Listed' = Listed \ {c}
    BY <1>6, <1>7
  <1> QED
    BY <1>1, <1>2, <1>4, <1>8, <1>9 DEF c

\* A reaped client leaves the list, the registrations and, unless close()
\* failed, the allocated clients together; nothing refers to it because the
\* batch is empty while the loop reaps.
LEMMA ReapStep ==
  ASSUME IInv, Reap
  PROVE  IInv'
  <1>0. TypeOK /\ ListSound /\ NoDangling /\ Connections /\ BatchSound /\ IndexSound
    BY DEF IInv
  <1>1. TypeOK'
    BY LoopType
  <1> USE DEF listVars, infoVars, netVars, loopVars, serverVars
  <1>2. /\ pc = "reap" /\ pc' = "reap" /\ ~Ending /\ ~Ending'
        /\ UNCHANGED <<closed, backlog, batch, cur>>
        /\ i' = i + 1
    BY DEF Reap, Ending
  <1>3. i \in 1..Len(client_list) /\ Len(client_list) \in Nat
    BY <1>0, <1>2 DEF Reap, TypeOK, IndexSound
  <1>4. IndexSound' /\ DOMAIN batch = {} /\ DOMAIN batch' = {}
    BY <1>0, <1>2, <1>3 DEF IndexSound, BatchSound
  <1>5. CASE ~closed[client_list[i]]
    <2>1. UNCHANGED <<allocated, leaked, client_list, interest, peer>>
      BY <1>5 DEF Reap
    <2>2. Registered' = Registered
      BY <2>1 DEF Registered
    <2> QED
      BY <1>1, <1>2, <1>4, <2>1, <2>2, FrameStep
  <1>6. CASE closed[client_list[i]]
    <2> DEFINE c == client_list[i]
               L == Len(client_list)
    <2>1. /\ c \in Clients /\ c \in Listed
          /\ L \in Nat /\ i \in 1..L
      BY <1>0, <1>3 DEF TypeOK, Listed
    <2>2. PICK ok \in CloseResults : cleanup_client(c, ok)
      BY <1>6 DEF Reap
    <2>3. /\ Listed' = Listed \ {c}
          /\ \A j, k \in 1..Len(client_list') :
               client_list'[j] = client_list'[k] => j = k
      BY <1>6, ReapRemoves
    <2> HIDE DEF c
    <2>4. Registered' = Registered \ {c}
      BY <1>0, <2>1, <2>2 DEF cleanup_client, CloseSocket, Registered, TypeOK
    <2>5. /\ allocated \ {c} \subseteq allocated' /\ leaked' \subseteq leaked \cup {c}
          /\ allocated' \subseteq (allocated \ {c}) \cup leaked'
          /\ leaked \subseteq leaked'
      BY <2>2 DEF cleanup_client
    <2>6. ListSound'
      BY <1>0, <1>2, <2>3, <2>4, <2>5 DEF ListSound
    <2>7. NoDangling'
      BY <1>0, <1>2, <1>4, <2>4, <2>5 DEF NoDangling
    <2>8. Connections'
      <3>1. \A x \in Clients \ {c} : peer'[x] = peer[x]
        BY <1>0, <2>2 DEF cleanup_client, CloseSocket, TypeOK
      <3>2. c \notin backlog /\ Listed \subseteq Clients /\ backlog \subseteq Clients
        BY <1>0, <1>2, <2>1 DEF Connections, Listed, TypeOK
      <3> QED
        BY <1>0, <1>2, <2>3, <2>5, <3>1, <3>2 DEF Connections
    <2>9. BatchSound'
      BY <1>4 DEF BatchSound
    <2> QED
      BY <1>1, <1>4, <2>6, <2>7, <2>8, <2>9 DEF IInv
  <1> QED
    BY <1>5, <1>6

LEMMA StutterStep ==
  ASSUME IInv, UNCHANGED vars
  PROVE  IInv'
  <1> USE DEF vars, listVars, infoVars, netVars, loopVars, serverVars
  <1>1. Registered' = Registered /\ Listed' = Listed /\ (Ending' <=> Ending)
    BY DEF Registered, Listed, Ending
  <1>2. TypeOK'
    BY DEF IInv, TypeOK
  <1>3. ListSound' /\ NoDangling'
    BY <1>1 DEF IInv, ListSound, NoDangling
  <1>4. Connections' /\ BatchSound' /\ IndexSound'
    BY <1>1 DEF IInv, Connections, BatchSound, IndexSound
  <1> QED
    BY <1>2, <1>3, <1>4 DEF IInv

LEMMA NextIInv == IInv /\ [Next]_vars => IInv'
  <1> SUFFICES ASSUME IInv, [Next]_vars PROVE IInv'
    OBVIOUS
  <1>1. CASE Peers
    BY <1>1, PeersStep, PeerConnectStep DEF Peers
  <1>2. CASE handle_client_read \/ client_try_write
    BY <1>2, ReadStep, WriteStep
  <1>3. CASE accept_new_clients
    BY <1>3, LoopStep, AcceptErrorStep, AcceptStep DEF accept_new_clients
  <1>4. CASE Reap \/ CloseListener \/ RemoveNext
    BY <1>4, ReapStep, CloseListenerStep, RemoveNextStep
  <1>5. CASE \/ ReapEnd \/ EpollWait \/ EpollWaitFails
             \/ \E e \in Clients \cup {LISTENER} : Dispatch(e)
             \/ BatchEnd \/ Notify \/ RemoveEnd \/ server_state_destroy
    BY <1>5, LoopStep
  <1>6. CASE UNCHANGED vars
    BY <1>6, StutterStep
  <1> QED
    BY <1>1, <1>2, <1>3, <1>4, <1>5, <1>6 DEF Next, Server

LEMMA AlwaysIInv == Spec => []IInv
  BY InitIInv, NextIInv, PTL DEF Spec

-----------------------------------------------------------------------------
(* EPOLLOUT registrations.                                                 *)

\* QueueArmed at one client.
Armed(c) ==
  /\ epollout_enabled[c] <=> "OUT" \in interest[c]
  /\ queued[c] <=> epollout_enabled[c]

\* Without failing system calls remove_all_clients always unlocks the mutex,
\* and the listed clients are armed until their queues are freed.
ArmInv ==
  ~SyscallMayFail =>
    /\ ~mutex_locked /\ pc # "aborted"
    /\ pc \notin {"close", "remove_all", "destroy", "exited"} =>
         \A c \in Listed : Armed(c)

\* A broadcast arms the clients for which something is queued.
LEMMA BroadcastArms ==
  ASSUME TypeOK, ~SyscallMayFail, NEW sender, broadcast(sender),
         NEW c \in Clients, Armed(c)
  PROVE  Armed(c)'
  <1> DEFINE T == Targets(sender)
  <1>1. PICK outcome \in [T -> {"dropped", "sent", "kept", "failed"}] :
          /\ \A x \in T : outcome[x] \in Outcomes(x)
          /\ queued' = [x \in Clients |->
                    queued[x] \/ (x \in T /\ outcome[x] \in {"kept", "failed"})]
          /\ \E A \in Modified({x \in T : queued'[x] /\ ~epollout_enabled[x]}) :
               /\ epollout_enabled' =
                    [x \in Clients |-> epollout_enabled[x] \/ x \in A]
               /\ interest' =
                    [x \in Clients |-> IF x \in A THEN {"IN", "OUT"} ELSE interest[x]]
    BY DEF broadcast
  <1> DEFINE A == {x \in T : queued'[x] /\ ~epollout_enabled[x]}
  <1>2. /\ epollout_enabled' = [x \in Clients |-> epollout_enabled[x] \/ x \in A]
        /\ interest' = [x \in Clients |-> IF x \in A THEN {"IN", "OUT"} ELSE interest[x]]
    BY <1>1 DEF Modified
  <1>3. queued'[c] <=> queued[c] \/ (c \in T /\ outcome[c] \in {"kept", "failed"})
    BY <1>1
  <1>4. epollout_enabled'[c] <=> epollout_enabled[c] \/ c \in A
    BY <1>2
  <1>5. interest'[c] = IF c \in A THEN {"IN", "OUT"} ELSE interest[c]
    BY <1>2
  <1>6. c \in A <=> c \in T /\ queued'[c] /\ ~epollout_enabled[c]
    OBVIOUS
  <1> HIDE DEF A, T
  <1>7. epollout_enabled'[c] <=> "OUT" \in interest'[c]
    BY <1>4, <1>5 DEF Armed
  <1>8. queued'[c] <=> epollout_enabled'[c]
    BY <1>3, <1>4, <1>6 DEF Armed
  <1> QED
    BY <1>7, <1>8 DEF Armed

LEMMA NextArmInv == IInv /\ ArmInv /\ [Next]_vars => ArmInv'
  <1> SUFFICES ASSUME IInv, ArmInv, [Next]_vars, ~SyscallMayFail PROVE ArmInv'
    BY DEF ArmInv
  <1> USE DEF listVars, infoVars, netVars, loopVars, serverVars
  <1>0. /\ TypeOK /\ ~mutex_locked /\ pc # "aborted"
        /\ pc \notin {"close", "remove_all", "destroy", "exited"} =>
             \A c \in Listed : Armed(c)
        /\ Listed \subseteq Clients
    BY DEF ArmInv, IInv, TypeOK, Listed
  \* The steps that leave the registrations and the list alone.
  <1>1. ASSUME UNCHANGED <<client_list, epollout_enabled, queued, interest, mutex_locked>>,
               pc' # "aborted",
               pc \in {"close", "remove_all", "destroy", "exited"} =>
                 pc' \in {"close", "remove_all", "destroy", "exited"}
        PROVE  ArmInv'
    <2>1. Listed' = Listed /\ \A c \in Clients : Armed(c)' <=> Armed(c)
      BY <1>1 DEF Listed, Armed
    <2> QED
      BY <1>0, <1>1, <2>1 DEF ArmInv
  <1>2. CASE Peers
    <2>1. PICK c \in Clients : \/ PeerConnect(c) \/ PeerFin(c) \/ PeerReset(c)
                               \/ \E item \in Sendable : PeerSend(c, item)
      BY <1>2 DEF Peers
    <2>2. UNCHANGED <<listVars, infoVars, loopVars, serverVars>>
      BY <2>1 DEF PeerConnect, PeerFin, PeerReset, PeerSend
    <2> QED
      BY <1>0, <1>1, <2>2
  <1>3. CASE ReapEnd \/ EpollWait \/ BatchEnd \/ AcceptEnd \/ RemoveEnd
             \/ server_state_destroy \/ WriteSome \/ WriteFails
    BY <1>0, <1>1, <1>3 DEF ReapEnd, EpollWait, BatchEnd, AcceptEnd, RemoveEnd,
       server_state_destroy, WriteSome, WriteFails, CloseCur
  <1>4. ASSUME NEW e \in Clients \cup {LISTENER}, Dispatch(e) PROVE ArmInv'
    BY <1>0, <1>1, <1>4 DEF Dispatch
  <1>5. CASE ReadHeader \/ ReadBadHeader \/ ReadEnds \/ ReadReturns \/ ReadQuiet
             \/ ReadWhisperFails \/ ReadShutdown
    BY <1>0, <1>1, <1>5 DEF ReadHeader, ReadBadHeader, ReadEnds, ReadReturns,
       ReadQuiet, ReadWhisperFails, ReadShutdown, CloseCur, AfterRead, Reading
  <1>6. CASE ReadText
    <2>1. Listed' = Listed /\ pc = "read" /\ UNCHANGED <<pc, mutex_locked>>
      BY <1>6 DEF ReadText, Reading, Listed
    <2>2. \A c \in Listed : Armed(c)'
      BY <1>0, <1>6, <2>1, BroadcastArms DEF ReadText
    <2> QED
      BY <1>0, <2>1, <2>2 DEF ArmInv
  <1>7. CASE Notify
    BY <1>0, <1>7 DEF Notify, ArmInv
  <1>8. CASE CloseListener
    BY <1>0, <1>8 DEF CloseListener, ArmInv
  <1>9. CASE RemoveNext
    BY <1>0, <1>9 DEF RemoveNext, CloseResults, ArmInv
  <1>10. CASE WriteAll
    <2>1. Listed' = Listed /\ pc = "write" /\ pc' = "batch" /\ UNCHANGED mutex_locked
      BY <1>10 DEF WriteAll, Listed
    <2>2. ASSUME NEW c \in Listed PROVE Armed(c)'
      <3> DEFINE A == {x \in {cur} : epollout_enabled[x]}
      <3>1. /\ queued' = [queued EXCEPT ![cur] = FALSE]
            /\ epollout_enabled' = [x \in Clients |-> epollout_enabled[x] /\ x \notin A]
            /\ interest' = [x \in Clients |-> IF x \in A THEN {"IN"} ELSE interest[x]]
        BY <1>10 DEF WriteAll, Modified
      <3>2. c \in Clients /\ Armed(c)
        BY <1>0, <2>1, <2>2
      <3>3. c \in A <=> c = cur /\ epollout_enabled[c]
        OBVIOUS
      <3>4. queued'[c] <=> (c # cur /\ queued[c])
        BY <1>0, <3>1, <3>2 DEF TypeOK
      <3>5. epollout_enabled'[c] <=> epollout_enabled[c] /\ c \notin A
        BY <3>1, <3>2
      <3>6. interest'[c] = IF c \in A THEN {"IN"} ELSE interest[c]
        BY <3>1, <3>2
      <3> HIDE DEF A
      <3>7. epollout_enabled'[c] <=> "OUT" \in interest'[c]
        BY <3>2, <3>5, <3>6 DEF Armed
      <3>8. queued'[c] <=> epollout_enabled'[c]
        BY <3>2, <3>3, <3>4, <3>5 DEF Armed
      <3> QED
        BY <3>7, <3>8 DEF Armed
    <2> QED
      BY <1>0, <2>1, <2>2 DEF ArmInv
  <1>11. CASE Reap
    <2>1. /\ pc = "reap" /\ UNCHANGED <<pc, mutex_locked, epollout_enabled>>
          /\ i \in 1..Len(client_list)
      BY <1>11 DEF Reap, IInv, IndexSound, TypeOK
    <2>2. CASE ~closed[client_list[i]]
      BY <1>0, <1>1, <1>11, <2>1, <2>2 DEF Reap
    <2>3. CASE closed[client_list[i]]
      <3> DEFINE d == client_list[i]
      <3>1. /\ queued' = [queued EXCEPT ![d] = FALSE]
            /\ interest' = [interest EXCEPT ![d] = {}]
        BY <1>11, <2>3 DEF Reap, cleanup_client, CloseSocket
      <3>2. \A c \in Listed' : c \in Listed /\ c # d
        BY <1>11, <2>3, ReapRemoves
      <3>3. \A c \in Listed' : Armed(c)'
        <4> SUFFICES ASSUME NEW c \in Listed' PROVE Armed(c)'
          OBVIOUS
        <4>1. c \in Clients /\ c # d /\ Armed(c)
          BY <1>0, <2>1, <3>2
        <4>2. queued'[c] = queued[c] /\ interest'[c] = interest[c]
          BY <1>0, <3>1, <4>1 DEF TypeOK
        <4> QED
          BY <2>1, <4>1, <4>2 DEF Armed
      <3> QED
        BY <1>0, <2>1, <3>3 DEF ArmInv
    <2> QED
      BY <2>2, <2>3
  <1>12. CASE EpollWaitFails
    BY <1>12 DEF EpollWaitFails
  <1>13. ASSUME NEW c \in Clients, AcceptLeaks(c) PROVE ArmInv'
    BY <1>13 DEF AcceptLeaks
  <1>14. ASSUME NEW d \in Clients, AcceptFull(d) PROVE ArmInv'
    <2>1. /\ Listed' = Listed /\ pc = "accept" /\ pc' = "batch" /\ d \in backlog
          /\ UNCHANGED <<queued, epollout_enabled, mutex_locked>>
          /\ interest' = [interest EXCEPT ![d] = {}]
      BY <1>14 DEF AcceptFull, CloseSocket, Listed
    <2>2. d \notin Listed
      BY <2>1 DEF IInv, Connections, Ending
    <2>3. \A c \in Listed : Armed(c)'
      <3> SUFFICES ASSUME NEW c \in Listed PROVE Armed(c)'
        OBVIOUS
      <3>1. c \in Clients /\ c # d /\ Armed(c)
        BY <1>0, <2>1, <2>2
      <3>2. interest'[c] = interest[c]
        BY <1>0, <2>1, <3>1 DEF TypeOK
      <3> QED
        BY <2>1, <3>1, <3>2 DEF Armed
    <2> QED
      BY <1>0, <2>1, <2>3 DEF ArmInv
  <1>15. ASSUME NEW d \in Clients, Accept(d) PROVE ArmInv'
    <2>1. /\ pc = "accept" /\ UNCHANGED <<pc, mutex_locked>>
          /\ client_list' = Append(client_list, d)
          /\ epollout_enabled' = [epollout_enabled EXCEPT ![d] = FALSE]
          /\ queued' = [queued EXCEPT ![d] = FALSE]
          /\ interest' = [interest EXCEPT ![d] = {"IN", "RDHUP"}]
      BY <1>15 DEF Accept
    <2>2. Listed' \subseteq Listed \cup {d}
      BY <1>0, <2>1 DEF TypeOK, Listed
    <2>3. Armed(d)'
      <3>1. /\ epollout_enabled'[d] = FALSE /\ queued'[d] = FALSE
            /\ interest'[d] = {"IN", "RDHUP"}
        BY <1>0, <2>1 DEF TypeOK
      <3> QED
        BY <3>1 DEF Armed
    <2>4. ASSUME NEW c \in Listed, c # d PROVE Armed(c)'
      <3>1. c \in Clients /\ Armed(c)
        BY <1>0, <2>1
      <3>2. /\ epollout_enabled'[c] = epollout_enabled[c] /\ queued'[c] = queued[c]
            /\ interest'[c] = interest[c]
        BY <1>0, <2>1, <2>4, <3>1 DEF TypeOK
      <3> QED
        BY <3>1, <3>2 DEF Armed
    <2> QED
      BY <1>0, <2>1, <2>2, <2>3, <2>4 DEF ArmInv
  <1>16. CASE UNCHANGED vars
    BY <1>0, <1>1, <1>16 DEF vars
  <1> QED
    BY <1>2, <1>3, <1>4, <1>5, <1>6, <1>7, <1>8, <1>9, <1>10, <1>11, <1>12,
       <1>13, <1>14, <1>15, <1>16
    DEF Next, Server, accept_new_clients, handle_client_read, client_try_write

-----------------------------------------------------------------------------
(* Closed clients.                                                         *)

\* ClosedIsFinal for one client and one step.
StaysClosed(c) ==
  (closed[c] /\ c \in allocated /\ c \in allocated') =>
    /\ closed'[c]
    /\ state'[c] = state[c] /\ has_name'[c] = has_name[c]
    /\ ~queued[c] => ~queued'[c]
    /\ (peer'[c] # "none") => Len(inq'[c]) >= Len(inq[c])

\* A broadcast neither opens a closed client nor queues anything for it.
LEMMA BroadcastSkipsClosed ==
  ASSUME TypeOK, NEW sender, broadcast(sender), NEW c \in Clients, closed[c]
  PROVE  closed'[c] /\ (~queued[c] => ~queued'[c])
  <1>1. c \notin Targets(sender)
    BY DEF Targets
  <1> QED
    BY <1>1 DEF broadcast

LEMMA NextStaysClosed ==
  ASSUME IInv, [Next]_vars, NEW c \in Clients
  PROVE  StaysClosed(c)
  <1> SUFFICES ASSUME closed[c], c \in allocated, c \in allocated'
               PROVE  StaysClosed(c)
    BY DEF StaysClosed
  <1> USE DEF listVars, infoVars, netVars, loopVars, serverVars
  <1>0. /\ TypeOK
        /\ Len(inq[c]) \in Nat
        /\ pc \in {"read", "write"} => cur \in Clients /\ cur # c
    <2>1. pc \in {"read", "write"} => cur \in Listed /\ cur # c
      BY DEF IInv, NoDangling
    <2>2. Listed \subseteq Clients
      BY DEF IInv, TypeOK, Listed
    <2>3. inq[c] \in Seq(Items)
      BY DEF IInv, TypeOK
    <2> QED
      BY <2>1, <2>2, <2>3 DEF IInv
  <1>b. c \in backlog => Ending
    BY DEF IInv, Connections, ListSound
  \* The steps that change nothing of c, or close its socket.
  <1>1. ASSUME /\ closed'[c] /\ state'[c] = state[c] /\ has_name'[c] = has_name[c]
               /\ queued'[c] = queued[c] \/ queued'[c] = FALSE
               /\ inq'[c] = inq[c] \/ peer'[c] = "none"
        PROVE  StaysClosed(c)
    BY <1>0, <1>1 DEF StaysClosed
  \* A client's socket is closed.
  <1>2. ASSUME NEW d \in Clients, CloseSocket(d)
        PROVE  inq'[c] = inq[c] \/ peer'[c] = "none"
    BY <1>0, <1>2 DEF CloseSocket, TypeOK
  <1>3. CASE Peers
    <2>1. PICK d \in Clients : \/ PeerConnect(d) \/ PeerFin(d) \/ PeerReset(d)
                               \/ \E item \in Sendable : PeerSend(d, item)
      BY <1>3 DEF Peers
    <2>2. CASE PeerConnect(d) \/ PeerFin(d) \/ PeerReset(d)
      BY <1>1, <2>2 DEF PeerConnect, PeerFin, PeerReset
    <2>3. ASSUME NEW item \in Sendable, PeerSend(d, item) PROVE StaysClosed(c)
      <3>1. inq' = [inq EXCEPT ![d] = Append(@, item)] /\ UNCHANGED infoVars
        BY <2>3 DEF PeerSend
      <3>2. inq[c] \in Seq(Items) /\ inq[d] \in Seq(Items) /\ item \in Items
        BY <1>0, ServerAssumption DEF TypeOK
      <3>3. Len(inq'[c]) >= Len(inq[c])
        <4>1. CASE c = d
          <5>1. inq'[c] = Append(inq[c], item)
            BY <1>0, <3>1, <4>1 DEF TypeOK
          <5>2. Len(Append(inq[c], item)) = Len(inq[c]) + 1
            BY <3>2
          <5> QED
            BY <1>0, <5>1, <5>2
        <4>2. CASE c # d
          BY <1>0, <3>1, <4>2 DEF TypeOK
        <4> QED
          BY <4>1, <4>2
      <3> QED
        BY <3>1, <3>3 DEF StaysClosed
    <2> QED
      BY <2>1, <2>2, <2>3
  <1>4. CASE \/ ReapEnd \/ EpollWait \/ EpollWaitFails \/ BatchEnd \/ AcceptEnd
             \/ RemoveEnd \/ server_state_destroy \/ WriteSome
    BY <1>1, <1>4 DEF ReapEnd, EpollWait, EpollWaitFails, BatchEnd, AcceptEnd,
       RemoveEnd, server_state_destroy, WriteSome
  <1>5. ASSUME NEW e \in Clients \cup {LISTENER}, Dispatch(e) PROVE StaysClosed(c)
    <2>1. closed'[c]
      BY <1>0, <1>5 DEF Dispatch, TypeOK
    <2> QED
      BY <1>1, <1>5, <2>1 DEF Dispatch
  <1>6. CASE handle_client_read \/ client_try_write
    <2>1. cur \in Clients /\ cur # c
      BY <1>0, <1>6 DEF handle_client_read, client_try_write, ReadHeader, ReadBadHeader,
         ReadEnds, ReadReturns, ReadQuiet, ReadText, ReadWhisperFails, ReadShutdown,
         Reading, WriteAll, WriteSome, WriteFails
    <2>2. CASE ReadText
      <3>1. closed'[c] /\ (~queued[c] => ~queued'[c])
        BY <1>0, <2>2, BroadcastSkipsClosed DEF ReadText
      <3>2. inq'[c] = inq[c] /\ state'[c] = state[c] /\ has_name'[c] = has_name[c]
        BY <1>0, <2>1, <2>2 DEF ReadText, Take, SetState, TypeOK
      <3> QED
        BY <1>0, <3>1, <3>2 DEF StaysClosed
    <2>3. CASE ReadHeader \/ ReadQuiet \/ ReadReturns
      BY <1>0, <1>1, <2>1, <2>3 DEF ReadHeader, ReadQuiet, ReadReturns, Take, SetState,
         TypeOK
    <2>4. CASE ReadBadHeader \/ ReadWhisperFails \/ ReadShutdown \/ ReadEnds \/ WriteFails
      BY <1>0, <1>1, <2>1, <2>4 DEF ReadBadHeader, ReadWhisperFails, ReadShutdown,
         ReadEnds, WriteFails, Take, CloseCur, TypeOK
    <2>5. CASE WriteAll
      BY <1>0, <1>1, <2>1, <2>5 DEF WriteAll, TypeOK
    <2>6. CASE WriteSome
      BY <1>4, <2>6
    <2> QED
      BY <1>6, <2>2, <2>3, <2>4, <2>5, <2>6 DEF handle_client_read, client_try_write
  <1>7. CASE Notify
    <2>1. closed'[c] /\ (~queued[c] => ~queued'[c])
      BY <1>0, <1>7, BroadcastSkipsClosed DEF Notify
    <2> QED
      BY <1>0, <1>7, <2>1 DEF Notify, StaysClosed
  <1>8. CASE CloseListener
    <2>1. queued'[c] = FALSE /\ (inq'[c] = inq[c] \/ peer'[c] = "none")
      BY <1>8 DEF CloseListener
    <2> QED
      BY <1>1, <1>8, <2>1 DEF CloseListener
  <1>9. CASE RemoveNext
    <2>1. client_list[i] \in Clients
      BY <1>0, <1>9 DEF RemoveNext, IInv, IndexSound, TypeOK
    <2>2. inq'[c] = inq[c] \/ peer'[c] = "none"
      BY <1>2, <1>9, <2>1 DEF RemoveNext, cleanup_client
    <2> QED
      BY <1>1, <1>9, <2>2 DEF RemoveNext
  <1>10. CASE Reap
    <2>1. client_list[i] \in Clients
      BY <1>0, <1>10 DEF Reap, IInv, IndexSound, TypeOK
    <2>2. inq'[c] = inq[c] \/ peer'[c] = "none"
      BY <1>2, <1>10, <2>1 DEF Reap, cleanup_client
    <2>3. queued'[c] = queued[c] \/ queued'[c] = FALSE
      BY <1>0, <1>10, <2>1 DEF Reap, TypeOK
    <2> QED
      BY <1>1, <1>10, <2>2, <2>3 DEF Reap
  <1>11. ASSUME NEW d \in Clients, AcceptLeaks(d) PROVE StaysClosed(c)
    BY <1>1, <1>11 DEF AcceptLeaks
  <1>12. ASSUME NEW d \in Clients, AcceptFull(d) PROVE StaysClosed(c)
    BY <1>1, <1>2, <1>12 DEF AcceptFull
  \* client_info_init only writes to a struct that was not allocated.
  <1>13. ASSUME NEW d \in Clients, Accept(d) PROVE StaysClosed(c)
    <2>1. c # d
      BY <1>b, <1>13 DEF Accept, Ending
    <2> QED
      BY <1>0, <1>1, <1>13, <2>1 DEF Accept, TypeOK
  <1>14. CASE UNCHANGED vars
    BY <1>1, <1>14 DEF vars
  <1> QED
    BY <1>3, <1>4, <1>5, <1>6, <1>7, <1>8, <1>9, <1>10, <1>11, <1>12, <1>13, <1>14
    DEF Next, Server, accept_new_clients

-----------------------------------------------------------------------------
(* Clients that leave, and the shutdown.                                   *)

\* OnlyClosedLeave for one step.
LeaveClosed ==
  /\ \A c \in Listed : c \notin Listed' => closed[c]
  /\ \A c \in allocated \ allocated' :
       pc = "remove_all" \/ (closed[c] /\ c \in Listed /\ c \notin Listed')

LEMMA NextLeaveClosed ==
  ASSUME IInv, [Next]_vars
  PROVE  LeaveClosed
  <1> USE DEF listVars, infoVars, netVars, loopVars, serverVars
  <1>0. TypeOK
    BY DEF IInv
  <1>1. ASSUME Listed \subseteq Listed', allocated \subseteq allocated'
        PROVE  LeaveClosed
    BY <1>1 DEF LeaveClosed
  <1>2. ASSUME UNCHANGED listVars PROVE LeaveClosed
    BY <1>1, <1>2 DEF Listed
  <1>3. CASE Peers
    BY <1>2, <1>3 DEF Peers, PeerConnect, PeerSend, PeerFin, PeerReset
  <1>4. CASE \/ ReapEnd \/ EpollWait \/ EpollWaitFails
             \/ \E e \in Clients \cup {LISTENER} : Dispatch(e)
             \/ BatchEnd \/ AcceptEnd \/ Notify \/ CloseListener \/ RemoveEnd
             \/ server_state_destroy
    BY <1>2, <1>4 DEF ReapEnd, EpollWait, EpollWaitFails, Dispatch, BatchEnd,
       AcceptEnd, Notify, CloseListener, RemoveEnd, server_state_destroy
  <1>5. CASE handle_client_read \/ client_try_write
    BY <1>2, <1>5 DEF handle_client_read, client_try_write, ReadHeader, ReadBadHeader,
       ReadEnds, ReadReturns, ReadQuiet, ReadText, ReadWhisperFails, ReadShutdown,
       WriteAll, WriteSome, WriteFails
  <1>6. CASE Reap
    <2>1. CASE ~closed[client_list[i]]
      BY <1>2, <1>6, <2>1 DEF Reap
    <2>2. CASE closed[client_list[i]]
      <3> DEFINE c == client_list[i]
      <3>1. c \in Listed /\ Listed' = Listed \ {c}
        BY <1>6, <2>2, ReapRemoves
      <3>2. allocated \ {c} \subseteq allocated'
        BY <1>6, <2>2 DEF Reap, cleanup_client
      <3> QED
        BY <2>2, <3>1, <3>2 DEF LeaveClosed
    <2> QED
      BY <2>1, <2>2
  <1>7. CASE RemoveNext
    BY <1>7 DEF RemoveNext, LeaveClosed, Listed
  <1>8. ASSUME NEW c \in Clients, AcceptLeaks(c) PROVE LeaveClosed
    BY <1>1, <1>8 DEF AcceptLeaks, Listed
  <1>9. ASSUME NEW c \in Clients, AcceptFull(c) PROVE LeaveClosed
    BY <1>2, <1>9 DEF AcceptFull
  <1>10. ASSUME NEW c \in Clients, Accept(c) PROVE LeaveClosed
    <2>1. Listed \subseteq Listed'
      BY <1>0, <1>10 DEF Accept, TypeOK, Listed
    <2> QED
      BY <1>1, <1>10, <2>1 DEF Accept
  <1>11. CASE UNCHANGED vars
    BY <1>2, <1>11 DEF vars
  <1> QED
    BY <1>3, <1>4, <1>5, <1>6, <1>7, <1>8, <1>9, <1>10, <1>11
    DEF Next, Server, accept_new_clients

\* PassedOverMovesUp for one step.
MovesUp ==
  \A j \in 1..Len(client_list), k \in 1..Len(client_list') :
    client_list[j] = client_list'[k] =>
      /\ k <= j
      /\ (pc = "reap" /\ i <= j /\ k < i' /\ closed[client_list[j]]) => k < j

LEMMA NextMovesUp ==
  ASSUME IInv, [Next]_vars
  PROVE  MovesUp
  <1> USE DEF listVars, infoVars, netVars, loopVars, serverVars
  <1>0. /\ TypeOK /\ IndexSound
        /\ Len(client_list) \in Nat
        /\ \A j, k \in 1..Len(client_list) : client_list[j] = client_list[k] => j = k
    BY DEF IInv, TypeOK, ListSound
  \* The steps that leave the list alone, most of them and the index too.
  <1>1. ASSUME client_list' = client_list, pc = "reap" => i' = i PROVE MovesUp
    <2> SUFFICES ASSUME NEW j \in 1..Len(client_list), NEW k \in 1..Len(client_list),
                        client_list[j] = client_list[k]
                 PROVE  k <= j /\ ~(pc = "reap" /\ i <= j /\ k < i')
      BY <1>1 DEF MovesUp
    <2>1. j = k
      BY <1>0
    <2> QED
      BY <1>0, <1>1, <2>1 DEF TypeOK
  <1>2. CASE Peers \/ UNCHANGED vars
    BY <1>1, <1>2 DEF Peers, PeerConnect, PeerSend, PeerFin, PeerReset, vars
  <1>3. CASE \/ ReapEnd \/ EpollWait \/ EpollWaitFails
             \/ \E e \in Clients \cup {LISTENER} : Dispatch(e)
             \/ BatchEnd \/ AcceptEnd \/ Notify \/ CloseListener \/ RemoveNext
             \/ RemoveEnd \/ server_state_destroy
    BY <1>1, <1>3 DEF ReapEnd, EpollWait, EpollWaitFails, Dispatch, BatchEnd,
       AcceptEnd, Notify, CloseListener, RemoveNext, RemoveEnd, server_state_destroy
  <1>4. CASE handle_client_read \/ client_try_write
    BY <1>1, <1>4 DEF handle_client_read, client_try_write, ReadHeader, ReadBadHeader,
       ReadEnds, ReadReturns, ReadQuiet, ReadText, ReadWhisperFails, ReadShutdown,
       WriteAll, WriteSome, WriteFails
  <1>5. ASSUME NEW c \in Clients, AcceptLeaks(c) \/ AcceptFull(c) PROVE MovesUp
    BY <1>1, <1>5 DEF AcceptLeaks, AcceptFull
  <1>6. ASSUME NEW c \in Clients, Accept(c) PROVE MovesUp
    <2>1. /\ pc = "accept" /\ client_list' = Append(client_list, c)
          /\ client_list \in Seq(Clients)
      BY <1>0, <1>6 DEF Accept, TypeOK
    <2>2. ASSUME NEW j \in 1..Len(client_list), NEW k \in 1..Len(client_list'),
                 client_list[j] = client_list'[k]
          PROVE  k <= j
      <3>1. CASE k <= Len(client_list)
        BY <1>0, <2>1, <2>2, <3>1
      <3>2. CASE k = Len(client_list) + 1
        <4>1. client_list[j] = c
          BY <2>1, <2>2, <3>2
        <4>2. c \in Listed
          BY <4>1 DEF Listed
        <4>3. c \notin Listed
          BY <1>6, <2>1 DEF Accept, IInv, Connections, Ending
        <4> QED
          BY <4>2, <4>3
      <3> QED
        BY <1>0, <2>1, <3>1, <3>2
    <2> QED
      BY <2>1, <2>2 DEF MovesUp
  \* The last client, if another is removed, is the one that moves.
  <1>7. CASE Reap
    <2> DEFINE L == Len(client_list)
    <2>1. pc = "reap" /\ i \in 1..L /\ i' = i + 1
      BY <1>0, <1>7 DEF Reap, TypeOK, IndexSound
    <2>2. CASE closed[client_list[i]]
      <3>1. client_list' = SwapRemove(i)
        BY <1>7, <2>2 DEF Reap
      <3>2. /\ Len(client_list') = L - 1
            /\ \A k \in 1..(L - 1) :
                 client_list'[k] = IF k = i THEN client_list[L] ELSE client_list[k]
        BY <1>0, <2>1, <3>1, SwapRemoveList
      <3>3. ASSUME NEW j \in 1..L, NEW k \in 1..(L - 1), client_list[j] = client_list'[k]
            PROVE  k <= j /\ (i <= j /\ k < i + 1 => k < j)
        <4>1. L \in 1..L /\ k \in 1..L /\ k # L
          BY <1>0, <2>1
        <4>2. CASE k = i
          <5>1. client_list[j] = client_list[L]
            BY <3>2, <3>3, <4>2
          <5>2. j = L
            BY <1>0, <4>1, <5>1
          <5> QED
            BY <1>0, <4>1, <4>2, <5>2
        <4>3. CASE k # i
          <5>1. client_list[j] = client_list[k]
            BY <3>2, <3>3, <4>3
          <5>2. j = k
            BY <1>0, <4>1, <5>1
          <5> QED
            BY <1>0, <2>1, <4>3, <5>2
        <4> QED
          BY <4>2, <4>3
      <3> QED
        BY <2>1, <3>2, <3>3 DEF MovesUp
    <2>3. CASE ~closed[client_list[i]]
      <3> SUFFICES ASSUME NEW j \in 1..L, NEW k \in 1..L,
                          client_list[j] = client_list[k]
                   PROVE  k <= j /\ ~(i <= j /\ k < i + 1 /\ closed[client_list[j]])
        BY <1>7, <2>1, <2>3 DEF Reap, MovesUp
      <3>1. j = k
        BY <1>0
      <3> QED
        BY <1>0, <2>1, <2>3, <3>1
    <2> QED
      BY <2>2, <2>3
  <1> QED
    BY <1>2, <1>3, <1>4, <1>5, <1>6, <1>7 DEF Next, Server, accept_new_clients

\* The listening socket is only closed on the way to remove_all_clients; so a
\* server_loop that ended because epoll_wait failed still has it open.
ReleaseInv ==
  /\ ~server_open => Ending
  /\ ShutdownReleases

LEMMA NextReleaseInv ==
  ASSUME IInv, ReleaseInv, [Next]_vars
  PROVE  ReleaseInv'
  <1> USE DEF listVars, infoVars, netVars, loopVars, serverVars
  <1>0. TypeOK /\ ListSound /\ IndexSound
    BY DEF IInv
  \* The steps before the shutdown, and those that only concern the network.
  <1>1. ASSUME ~Ending, ~Ending', server_open' = server_open PROVE ReleaseInv'
    BY <1>1 DEF ReleaseInv, ShutdownReleases, Ending
  <1>2. ASSUME UNCHANGED <<listVars, pc, i, server_open, mutex_locked>>
        PROVE  ReleaseInv'
    BY <1>2 DEF ReleaseInv, ShutdownReleases, Ending
  <1>3. CASE Peers \/ UNCHANGED vars
    BY <1>2, <1>3 DEF Peers, PeerConnect, PeerSend, PeerFin, PeerReset, vars
  <1>4. CASE \/ Reap \/ ReapEnd \/ EpollWait \/ BatchEnd \/ AcceptEnd \/ Notify
    BY <1>1, <1>4 DEF Reap, ReapEnd, EpollWait, BatchEnd, AcceptEnd, Notify, Ending
  <1>5. ASSUME NEW e \in Clients \cup {LISTENER}, Dispatch(e) PROVE ReleaseInv'
    BY <1>1, <1>5 DEF Dispatch, Ending
  <1>6. ASSUME NEW c \in Clients, AcceptLeaks(c) \/ AcceptFull(c) \/ Accept(c)
        PROVE  ReleaseInv'
    BY <1>1, <1>6 DEF AcceptLeaks, AcceptFull, Accept, Ending
  <1>7. CASE handle_client_read \/ client_try_write
    BY <1>1, <1>7 DEF handle_client_read, client_try_write, ReadHeader, ReadBadHeader,
       ReadEnds, ReadReturns, ReadQuiet, ReadText, ReadWhisperFails, ReadShutdown,
       Reading, AfterRead, CloseCur, WriteAll, WriteSome, WriteFails, Ending
  <1>8. CASE EpollWaitFails
    <2>1. server_open /\ server_open' = server_open
      BY <1>0, <1>8 DEF EpollWaitFails, ReleaseInv, Ending, TypeOK
    <2> QED
      BY <1>8, <2>1 DEF EpollWaitFails, ReleaseInv, ShutdownReleases
  <1>9. CASE CloseListener
    <2>1. /\ pc = "close" /\ pc' = "remove_all" /\ i' = Len(client_list)
          /\ UNCHANGED <<allocated, leaked, client_list>>
      BY <1>9 DEF CloseListener
    <2>2. allocated \ leaked = Listed
      BY <1>0, <2>1 DEF ListSound, Ending
    <2> QED
      BY <2>1, <2>2 DEF ReleaseInv, ShutdownReleases, Ending, Listed
  <1>10. CASE RemoveNext
    <2> DEFINE c == client_list[i]
               Kept(n) == {client_list[k] : k \in 1..n}
    <2>1. /\ pc = "remove_all" /\ client_list' = client_list
          /\ i \in 1..Len(client_list) /\ Len(client_list) \in Nat
      BY <1>0, <1>10 DEF RemoveNext, TypeOK, IndexSound
    <2>2. PICK ok \in CloseResults :
            /\ cleanup_client(c, ok)
            /\ i' = IF ok THEN i - 1 ELSE i
            /\ pc' = IF ok THEN pc ELSE "destroy"
            /\ mutex_locked' = ~ok
      BY <1>10 DEF RemoveNext
    <2>3. CASE ok
      <3>1. Kept(i) \ {c} = Kept(i - 1)
        BY <1>0, <2>1 DEF ListSound
      <3>2. allocated' = allocated \ {c} /\ leaked' = leaked
        BY <2>2, <2>3 DEF cleanup_client
      <3>3. allocated \ leaked = Kept(i)
        BY <2>1 DEF ReleaseInv, ShutdownReleases
      <3>4. allocated' \ leaked' = Kept(i - 1)
        BY <3>1, <3>2, <3>3
      <3> QED
        BY <2>1, <2>2, <2>3, <3>4 DEF ReleaseInv, ShutdownReleases, Ending
    <2>4. CASE ~ok
      BY <2>2, <2>4 DEF ReleaseInv, ShutdownReleases, Ending
    <2> QED
      BY <2>3, <2>4
  <1>11. CASE RemoveEnd
    <2>1. pc = "remove_all" /\ i = 0 /\ pc' = "destroy" /\ UNCHANGED listVars
      BY <1>11 DEF RemoveEnd
    <2>2. allocated \ leaked = {}
      BY <2>1 DEF ReleaseInv, ShutdownReleases
    <2> QED
      BY <2>1, <2>2 DEF ReleaseInv, ShutdownReleases, Ending
  <1>12. CASE server_state_destroy
    BY <1>12 DEF server_state_destroy, ReleaseInv, ShutdownReleases, Ending
  <1> QED
    BY <1>3, <1>4, <1>5, <1>6, <1>7, <1>8, <1>9, <1>10, <1>11, <1>12
    DEF Next, Server, accept_new_clients

-----------------------------------------------------------------------------
(* Theorems.                                                               *)

\* Every variable of the event loop keeps its type, whatever the peers do and
\* whichever system calls fail; the list of clients stays within the array
\* client_list of MAX_CLIENTS entries.
THEOREM TypeCorrect == Spec => []TypeOK
  <1>1. IInv => TypeOK
    BY DEF IInv
  <1> QED
    BY <1>1, AlwaysIInv, PTL

\* The swap of remove_client_from_list keeps every client once in the list,
\* and until the shutdown the listed clients are the ones registered with
\* epoll and, but for those a failed system call leaked, the allocated ones.
THEOREM ListIsSound == Spec => []ListSound
  <1>1. IInv => ListSound
    BY DEF IInv
  <1> QED
    BY <1>1, AlwaysIInv, PTL

\* No pointer of an epoll event or registration outlives its client_info:
\* clients are only freed between batches, after their descriptor is closed.
THEOREM NoUseAfterFree == Spec => []NoDangling
  <1>1. IInv => NoDangling
    BY DEF IInv
  <1> QED
    BY <1>1, AlwaysIInv, PTL

\* If EPOLL_CTL_MOD succeeds, no broadcast, EPOLLOUT event, accept or removal
\* loses a wakeup: each listed client is registered for EPOLLOUT exactly while
\* something is queued for it.
THEOREM NoLostWakeup == Spec => []QueueArmed
  <1>1. Init => ArmInv
    <2> SUFFICES ASSUME Init PROVE ArmInv
      OBVIOUS
    <2>1. Listed = {}
      BY DEF Init, Listed
    <2> QED
      BY <2>1 DEF Init, ArmInv
  <1>2. ArmInv => QueueArmed
    BY DEF ArmInv, QueueArmed, Armed
  <1> QED
    BY <1>1, <1>2, NextArmInv, AlwaysIInv, PTL DEF Spec

\* A client that handle_client_read, client_try_write or a hangup marked closed
\* stays so until it is freed: no event left in the batch, no broadcast and no
\* accept reads its input, queues for it or opens it again.
THEOREM ClosedStaysClosed == Spec => ClosedIsFinal
  <1>1. IInv /\ [Next]_vars => [\A c \in Clients : StaysClosed(c)]_vars
    BY NextStaysClosed
  <1>2. [\A c \in Clients : StaysClosed(c)]_vars =>
          [\A c \in Clients :
             (closed[c] /\ c \in allocated /\ c \in allocated') =>
               /\ closed'[c]
               /\ state'[c] = state[c] /\ has_name'[c] = has_name[c]
               /\ ~queued[c] => ~queued'[c]
               /\ (peer'[c] # "none") => Len(inq'[c]) >= Len(inq[c])]_vars
    BY DEF StaysClosed
  <1> QED
    BY <1>1, <1>2, AlwaysIInv, PTL DEF Spec, ClosedIsFinal

\* The server gives nobody up: only clients marked closed are taken out of
\* the list, and those and no others are freed before the shutdown, in the
\* step that removes them.
THEOREM NobodyGivenUp == Spec => OnlyClosedLeave
  <1>1. IInv /\ [Next]_vars => [LeaveClosed]_vars
    BY NextLeaveClosed
  <1>2. [LeaveClosed]_vars =>
          [/\ \A c \in Listed : c \notin Listed' => closed[c]
           /\ \A c \in allocated \ allocated' :
                pc = "remove_all" \/ (closed[c] /\ c \in Listed /\ c \notin Listed')]_vars
    BY DEF LeaveClosed
  <1> QED
    BY <1>1, <1>2, AlwaysIInv, PTL DEF Spec, OnlyClosedLeave

\* The skip of the reaping loop is bounded: a closed client it passes over has
\* moved towards the front of the list, and none ever moves back.
THEOREM SkipIsBounded == Spec => PassedOverMovesUp
  <1>1. IInv /\ [Next]_vars => [MovesUp]_vars
    BY NextMovesUp
  <1>2. [MovesUp]_vars =>
          [\A j \in 1..Len(client_list), k \in 1..Len(client_list') :
             client_list[j] = client_list'[k] =>
               /\ k <= j
               /\ (pc = "reap" /\ i <= j /\ k < i' /\ closed[client_list[j]]) => k < j]_vars
    BY DEF MovesUp
  <1> QED
    BY <1>1, <1>2, AlwaysIInv, PTL DEF Spec, PassedOverMovesUp

\* A shutdown whose close() calls succeed frees every client once, whatever
\* order the swaps left the list in: remove_all_clients has freed those above
\* its index and no others.
THEOREM ShutdownFreesAll == Spec => []ShutdownReleases
  <1>1. Init => ReleaseInv
    BY DEF Init, ReleaseInv, ShutdownReleases
  <1>2. ReleaseInv => ShutdownReleases
    BY DEF ReleaseInv
  <1> QED
    BY <1>1, <1>2, NextReleaseInv, AlwaysIInv, PTL DEF Spec
=============================================================================
