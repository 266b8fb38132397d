---- MODULE MCDurable ----
(***************************************************************************)
(* The fleets of MCController with a store that fails and a process that   *)
(* stops.                                                                  *)
(***************************************************************************)
EXTENDS Durable, MCController

====
