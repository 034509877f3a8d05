------------------------------ MODULE MCKafkaRpc ------------------------------
(* Constants for the runs of KafkaRpc. *)
EXTENDS KafkaRpc

CONSTANTS k1, e1, c1, c2
MCCallers == {k1}
MCOneOther == {e1}
MCConsumers == {c1, c2}
MCActions == {"delete", "crash"}
=============================================================================
