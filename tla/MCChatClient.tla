---------------------------- MODULE MCChatClient ----------------------------
(* An instance of ChatClient for model checking: its cfg gives the bounds. *)
EXTENDS ChatClient
=============================================================================
