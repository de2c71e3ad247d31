----------------------------- MODULE ByteStream -----------------------------
(***************************************************************************)
(* What the outgoing side of one client promises: each broadcast message   *)
(* is either accepted whole or refused whole when it is offered, and the   *)
(* peer receives the accepted packets back to back, in the order of their  *)
(* acceptance, no byte lost, repeated or inserted, up to the moment the    *)
(* stream is shut.                                                         *)
(***************************************************************************)
EXTENDS Wire

CONSTANTS HeaderLen, PayloadLens, MaxMsgs

VARIABLES offered, accepted, wire, open

vars == <<offered, accepted, wire, open>>

Init ==
  /\ offered = 0
  /\ accepted = << >>
  /\ wire = << >>
  /\ open = TRUE

\* The next message is taken: its whole packet will follow the earlier ones.
Accept(n) ==
  /\ open /\ offered < MaxMsgs
  /\ offered' = offered + 1
  /\ accepted' = accepted \o Chunk(offered + 1, 0, HeaderLen + n)
  /\ UNCHANGED <<wire, open>>

\* The next message is not taken: none of its bytes will be sent.
Refuse ==
  /\ open /\ offered < MaxMsgs
  /\ offered' = offered + 1
  /\ UNCHANGED <<accepted, wire, open>>

\* The peer's stream grows to the first k accepted bytes.
Transmit(k) ==
  /\ open
  /\ k > Len(wire)
  /\ wire' = SubSeq(accepted, 1, k)
  /\ UNCHANGED <<offered, accepted, open>>

Shut ==
  /\ open
  /\ open' = FALSE
  /\ UNCHANGED <<offered, accepted, wire>>

Next ==
  \/ \E n \in PayloadLens : Accept(n)
  \/ Refuse
  \/ \E k \in 1..Len(accepted) : Transmit(k)
  \/ Shut

Spec == Init /\ [][Next]_vars
=============================================================================
