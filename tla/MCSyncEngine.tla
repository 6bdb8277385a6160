---------------------------- MODULE MCSyncEngine ----------------------------
(***************************************************************************)
(* The batches and callers of the runs.  live and manual (a live capture    *)
(* and "archive this conversation") enqueue the same batch k1.             *)
(***************************************************************************)
EXTENDS SyncEngine, TLC

CONSTANTS live, manual, later, k1, k2, m1, m2, m3

MCKeyOf      == [c \in Call |-> IF c = later THEN k2 ELSE k1]
MCMessagesOf == (k1 :> {m1, m2}) @@ (k2 :> {m3})
MCByteSize   == (k1 :> 2) @@ (k2 :> 1)

MCSymmetry   == Permutations(Flusher)

=============================================================================
