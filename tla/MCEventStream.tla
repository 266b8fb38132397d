---- MODULE MCEventStream ----
(***************************************************************************)
(* The event stream for TLC, with every fault.                             *)
(*                                                                         *)
(* The process does not stop once an append has failed: after a restart    *)
(* the id of an event the store has not kept is given to another event,    *)
(* which a client that has seen the first takes for an old one.            *)
(***************************************************************************)
EXTENDS EventStream

KeptAll == history = DOMAIN issued

MCNext == Record \/ Publish \/ (KeptAll /\ Crash) \/ \E c \in Clients : Handler(c)

MCSpec == Init /\ [][MCNext]_vars /\ Fairness

====
