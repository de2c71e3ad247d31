---------------------------- MODULE MCServerLoop ----------------------------
(***************************************************************************)
(* Model values for checking ServerLoop.                                   *)
(***************************************************************************)
EXTENDS ServerLoop, TLC

\* Addresses of client_info objects are interchangeable.
ClientSymmetry == Permutations(Clients)

\* The count of connections begins anew, so that MaxConnects bounds no
\* behaviour: peers may connect and hang up for ever.
Renew ==
  /\ connects > 0
  /\ connects' = 0
  /\ UNCHANGED <<listVars, infoVars, peer, inq, mid, backlog, sends, loopVars,
                 serverVars>>

\* The server as in FairSpec; Renew and the peers need not do anything.
RenewSpec == Init /\ [][Next \/ Renew]_vars /\ WF_vars(Server)
=============================================================================
