-------------------------- MODULE ChatClientProofs --------------------------
(***************************************************************************)
(* The two threads of the chat client and the object info they share,      *)
(* proved for any number of lines and messages.                            *)
(***************************************************************************)
EXTENDS ChatClient, SequenceTheorems, TLAPS

-----------------------------------------------------------------------------
(* The inductive invariant.                                                *)

\* A thread that is past read_header has a message before it.
MessageThere == listener \in {"length", "payload"} => toClient # << >>

\* The main thread gets to free(info) only by a command, after which it does
\* not come back to the loop.
FreesByCommand ==
  /\ main = "free" => disconnecting
  /\ disconnecting => main \in {"write", "free", "join"}

\* As long as the user stays, the listening thread is the owner of info: it
\* frees it in the step in which it ends.
ListenerOwns == ~disconnecting => (info = "freed" => listener = "done")

IInv ==
  /\ TypeOK
  /\ MessageThere
  /\ FreesByCommand
  /\ ListenerOwns
  /\ AbortOnlyWhenLeaving

-----------------------------------------------------------------------------
LEMMA InitIInv == Init => IInv
  <1> SUFFICES ASSUME Init PROVE IInv
    OBVIOUS
  <1>1. toClient \in Seq(Messages)
    BY EmptySeq DEF Init
  <1>2. TypeOK
    <2>1. typed \in 0..MaxLines /\ sent \in 0..MaxMsgs
      BY ClientAssumption DEF Init
    <2>2. /\ disconnecting \in BOOLEAN /\ client_shutdown \in BOOLEAN
          /\ has_name \in BOOLEAN /\ asked \in BOOLEAN
      BY DEF Init
    <2> QED
      BY <1>1, <2>1, <2>2 DEF Init, TypeOK, Lines
  <1> QED
    BY <1>2 DEF Init, IInv, MessageThere, FreesByCommand, ListenerOwns,
                AbortOnlyWhenLeaving

\* The main thread leaves the listening thread and its messages alone.
LEMMA MainStep ==
  ASSUME IInv, User \/ Main
  PROVE  IInv'
  <1> USE DEF mainVars, sharedVars, serverVars, requestVars, IInv, Running
  <1>1. CASE MainStops \/ MainSelects \/ MainReadsNewline \/ MainReadsEnd
    <2>1. TypeOK'
      BY <1>1, ClientAssumption DEF MainStops, MainSelects, MainReadsNewline,
         MainReadsEnd, TypeOK
    <2> QED
      BY <1>1, <2>1 DEF MainStops, MainSelects, MainReadsNewline, MainReadsEnd,
         MessageThere, FreesByCommand, ListenerOwns, AbortOnlyWhenLeaving, TypeOK
  <1>2. ASSUME NEW l \in Lines, MainReads(l) PROVE IInv'
    <2>1. disconnecting' \in BOOLEAN
      BY <1>2 DEF MainReads
    <2>2. TypeOK'
      BY <1>2, <2>1, ClientAssumption DEF MainReads, handle_quit, TypeOK
    <2>3. ~disconnecting
      BY <1>2 DEF MainReads, FreesByCommand
    <2> QED
      BY <1>2, <2>2, <2>3 DEF MainReads, MessageThere, FreesByCommand, ListenerOwns,
         AbortOnlyWhenLeaving
  <1>3. CASE MainWrites \/ MainWritesInVain \/ MainWriteFails
    <2>1. TypeOK'
      <3>1. asked' \in BOOLEAN /\ has_name' \in BOOLEAN
        BY <1>3 DEF MainWrites, MainWritesInVain, MainWriteFails, TypeOK
      <3> QED
        BY <1>3, <3>1 DEF MainWrites, MainWritesInVain, MainWriteFails, AfterWrite, TypeOK
    <2> QED
      BY <1>3, <2>1 DEF MainWrites, MainWritesInVain, MainWriteFails, AfterWrite,
         MessageThere, FreesByCommand, ListenerOwns, AbortOnlyWhenLeaving
  <1>4. CASE MainFrees
    <2>1. TypeOK'
      BY <1>4 DEF MainFrees, Frees, TypeOK
    <2> QED
      BY <1>4, <2>1 DEF MainFrees, Frees, MessageThere, FreesByCommand, ListenerOwns,
         AbortOnlyWhenLeaving
  <1>5. CASE MainReturns
    <2>1. TypeOK'
      BY <1>5 DEF MainReturns, TypeOK
    <2> QED
      BY <1>5, <2>1 DEF MainReturns, MessageThere, FreesByCommand, ListenerOwns,
         AbortOnlyWhenLeaving
  <1> QED
    BY <1>1, <1>2, <1>3, <1>4, <1>5 DEF User, Main

\* The listening thread uses info only before it frees it.
LEMMA ListenerStep ==
  ASSUME IInv, Listener
  PROVE  IInv'
  <1> USE DEF mainVars, sharedVars, serverVars, requestVars, IInv, Running
  <1>0. toClient # << >> => Tail(toClient) \in Seq(Messages)
    BY DEF TypeOK
  <1>1. CASE ListenLoop \/ ListenLength
    <2>1. TypeOK'
      BY <1>1 DEF ListenLoop, ListenLength, Uses, TypeOK
    <2>2. MessageThere'
      BY <1>1 DEF ListenLoop, ListenLength, Uses, MessageThere
    <2> QED
      BY <1>1, <2>1, <2>2 DEF ListenLoop, ListenLength, Uses, FreesByCommand,
         ListenerOwns, AbortOnlyWhenLeaving, TypeOK
  <1>2. CASE ListenHeader \/ ListenEnds
    <2>1. TypeOK'
      BY <1>2 DEF ListenHeader, ListenEnds, TypeOK
    <2> QED
      BY <1>2, <2>1 DEF ListenHeader, ListenEnds, MessageThere, FreesByCommand,
         ListenerOwns, AbortOnlyWhenLeaving
  <1>3. CASE ListenNoPayload \/ ListenNotice \/ ListenCannotPrint
    <2>1. toClient' \in Seq(Messages)
      BY <1>0, <1>3 DEF ListenNoPayload, ListenNotice, ListenCannotPrint, MessageThere,
         TypeOK
    <2>2. TypeOK'
      BY <1>3, <2>1 DEF ListenNoPayload, ListenNotice, ListenCannotPrint, Frees, TypeOK
    <2> QED
      BY <1>3, <2>2 DEF ListenNoPayload, ListenNotice, ListenCannotPrint, Frees,
         MessageThere, FreesByCommand, ListenerOwns, AbortOnlyWhenLeaving, TypeOK
  <1>4. CASE ListenPrints
    <2>1. TypeOK'
      BY <1>0, <1>4 DEF ListenPrints, MessageThere, TypeOK
    <2> QED
      BY <1>4, <2>1 DEF ListenPrints, MessageThere, FreesByCommand, ListenerOwns,
         AbortOnlyWhenLeaving
  <1> QED
    BY <1>1, <1>2, <1>3, <1>4 DEF Listener

\* The server only adds messages, and closes.
LEMMA ServerStep ==
  ASSUME IInv, Server
  PROVE  IInv'
  <1> USE DEF mainVars, sharedVars, serverVars, requestVars, IInv, Running
  <1>1. ASSUME NEW m \in {"text", "empty", "notice"}, ServerSends(m) PROVE IInv'
    <2>1. toClient' \in Seq(Messages) /\ toClient' # << >>
      BY <1>1 DEF ServerSends, TypeOK, Messages
    <2>2. TypeOK'
      BY <1>1, <2>1, ClientAssumption DEF ServerSends, TypeOK
    <2> QED
      BY <1>1, <2>1, <2>2 DEF ServerSends, MessageThere, FreesByCommand, ListenerOwns,
         AbortOnlyWhenLeaving
  <1>2. ASSUME NEW last \in {<< >>, <<"notice">>, <<"part">>, <<"broken">>},
               ServerCloses(last)
        PROVE  IInv'
    <2>1. last \in Seq(Messages) /\ toClient \in Seq(Messages)
      <3>1. << >> \in Seq(Messages)
        BY EmptySeq
      <3>2. /\ <<"notice">> \in Seq(Messages) /\ <<"part">> \in Seq(Messages)
            /\ <<"broken">> \in Seq(Messages)
        BY DEF Messages
      <3> QED
        BY <3>1, <3>2 DEF TypeOK
    <2>2. toClient' \in Seq(Messages) /\ (toClient # << >> => toClient' # << >>)
      BY <1>2, <2>1, ConcatProperties, ConcatEqualIffEmpty DEF ServerCloses
    <2>3. TypeOK'
      BY <1>2, <2>2 DEF ServerCloses, TypeOK
    <2> QED
      BY <1>2, <2>2, <2>3 DEF ServerCloses, MessageThere, FreesByCommand, ListenerOwns,
         AbortOnlyWhenLeaving
  <1> QED
    BY <1>1, <1>2 DEF Server

LEMMA NextIInv == IInv /\ [Next]_vars => IInv'
  <1>1. IInv /\ UNCHANGED vars => IInv'
    BY DEF vars, mainVars, sharedVars, serverVars, requestVars, IInv, TypeOK,
       MessageThere, FreesByCommand, ListenerOwns, AbortOnlyWhenLeaving
  <1> QED
    BY <1>1, MainStep, ListenerStep, ServerStep DEF Next

LEMMA AlwaysIInv == Spec => []IInv
  BY InitIInv, NextIInv, PTL DEF Spec

-----------------------------------------------------------------------------
(* Theorems.                                                               *)

\* The client's threads keep to the states of client.c and client_listen.c: in
\* particular a thread past read_header always has a message to read on.
THEOREM TypeCorrect == Spec => []TypeOK
  <1>1. IInv => TypeOK
    BY DEF IInv
  <1> QED
    BY <1>1, AlwaysIInv, PTL

\* However the threads interleave and whatever the server sends, info is
\* neither used after free nor freed twice as long as nobody types /quit or
\* /shutdown.
THEOREM InfoSafeWhileStaying == Spec => []AbortOnlyWhenLeaving
  <1>1. IInv => AbortOnlyWhenLeaving
    BY DEF IInv
  <1> QED
    BY <1>1, AlwaysIInv, PTL
=============================================================================
