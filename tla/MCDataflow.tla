----------------------------- MODULE MCDataflow ----------------------------
(***************************************************************************)
(* A small instance of Dataflow: the two machine tasks that two calls of   *)
(* Initialize add under one ID, and configurations with and without it.    *)
(* (A network task differs only in its ID.)                                *)
(***************************************************************************)
EXTENDS Dataflow

CONSTANTS m1, m2

MCTask == {m1, m2}
MCTaskID == {"machine", "net_collect"}
MCID == [t \in Task |-> "machine"]
MCConfigs == {{}, {"machine"}}

=============================================================================
