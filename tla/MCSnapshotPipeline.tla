-------------------------- MODULE MCSnapshotPipeline --------------------------
EXTENDS SnapshotPipeline, TLC

MCSymmetry == Permutations(Request) \cup Permutations(Worker)

=============================================================================
