-------------------------------- MODULE Wire --------------------------------
(***************************************************************************)
(* The bytes of a packet on a TCP connection.  A packet is a msg_header    *)
(* followed by its payload (struct msg_packet's packet_data); what matters *)
(* about a byte is which message it belongs to and its place in it.        *)
(***************************************************************************)
EXTENDS Integers, Sequences

\* Byte number k (from 1) of the packet that carries message number msg.
Byte == [msg : Nat, k : Nat]

\* Bytes from+1 .. to of the packet that carries message n.
Chunk(n, from, to) == [j \in 1..(to - from) |-> [msg |-> n, k |-> from + j]]
=============================================================================
