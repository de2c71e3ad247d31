--------------------------- MODULE MCClientInput ----------------------------
(* An instance of ClientInput for model checking: its cfg gives the bounds. *)
EXTENDS ClientInput
=============================================================================
