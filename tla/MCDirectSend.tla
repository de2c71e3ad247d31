---------------------------- MODULE MCDirectSend ----------------------------
(* Model values for checking MsgQueue together with DirectSend.            *)
EXTENDS DirectSend, TLC

\* Packet addresses are interchangeable.
PacketSymmetry == Permutations(Packets)
=============================================================================
