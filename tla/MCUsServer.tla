----------------------------- MODULE MCUsServer -----------------------------
(* Model of UsServer checked by TLC: two registry slots and two client     *)
(* slots, so that a third connection is rejected and slots are reused;    *)
(* one remote id, so that every two sessions claim the same one.          *)
EXTENDS UsServer, TLC

MCMaxDevices == 2
MCMaxClients == 2
MCMaxSessions == 3
MCMaxDeviceIds == 2
MCMaxSubmits == 2
MCRemoteIds == {1}

\* Host threads are interchangeable model values.
HostSymmetry == Permutations(Hosts)
=============================================================================
