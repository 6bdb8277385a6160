----------------------------- MODULE MCGovernance -----------------------------
(***************************************************************************)
(* Two conversations in different splits, a message in the first, and a    *)
(* hold that takes both.                                                   *)
(***************************************************************************)
EXTENDS Governance, TLC

CONSTANTS c1, c2, m1, matter

MCConvOf  == m1 :> c1
MCScopeOf == matter :> {c1, c2}
MCSplits  == <<"test", "train">>
MCSplitOf == c1 :> "test" @@ c2 :> "train"

=============================================================================
