---------------------------- MODULE MCClientRead ----------------------------
(* An instance of ClientRead for model checking: its cfg gives the bounds. *)
EXTENDS ClientRead
=============================================================================
