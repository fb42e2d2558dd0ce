---------------------------- MODULE MCRpcLookup ----------------------------
(***************************************************************************)
(* Small instances of RpcLookup: two services, the client's own group "1", *)
(* a second group, a second spelling of node 1 and a group that is not a   *)
(* number.                                                                 *)
(***************************************************************************)
EXTENDS RpcLookup, TLC

CONSTANTS c1, c2, c3

MCName == {"a", "b"}
MCGroup == {"", "1", "2", "01", "web"}
MCNode == {1, 2}
MCNodeOf == [g \in Group |-> CASE g \in {"1", "01"} -> 1 [] g = "2" -> 2 [] OTHER -> None]
MCGroupOf == [n \in MCNode |-> IF n = 1 THEN "1" ELSE "2"]

\* No services at all; and two services in one ack.
MCPushAcks == {<<>>, <<[name |-> "b", group |-> "2"], [name |-> "a", group |-> "2"]>>}

MCEmptyAck == {<<>>}

=============================================================================
