--------------------------- MODULE MCComplianceSync ---------------------------
(***************************************************************************)
(* Instances of ComplianceSync for TLC.                                    *)
(***************************************************************************)
EXTENDS ComplianceSync

CONSTANTS c1, c2

\* The first two events are about the same conversation.
Together == [e \in Event |-> IF e <= 2 THEN c1 ELSE c2]

LastEvent == {NumEvents}

=============================================================================
