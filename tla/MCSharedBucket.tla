----------------------------- MODULE MCSharedBucket -----------------------------
(* Values for the function-valued constant of SharedBucket.                  *)
EXTENDS SharedBucket

MCReplicas == 1..2
InStep == [r \in MCReplicas |-> 0]
=============================================================================
