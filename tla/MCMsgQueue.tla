----------------------------- MODULE MCMsgQueue -----------------------------
(***************************************************************************)
(* Model values for checking MsgQueue.                                     *)
(***************************************************************************)
EXTENDS MsgQueue, TLC

\* Packet addresses are interchangeable.
PacketSymmetry == Permutations(Packets)
=============================================================================
