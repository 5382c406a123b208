----------------------------- MODULE MCKServer -----------------------------
(* Model of KServer checked by TLC: two driver slots (and two entries per  *)
(* session), two client slots and four sessions, so that the registry      *)
(* fills, ids are reused and sessions come and go.                         *)
EXTENDS KServer

MCMaxDevices == 2
MCMaxClients == 2
MCMaxSessions == 4
=============================================================================
