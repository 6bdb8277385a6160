------------------------------- MODULE MCIngest -------------------------------
(***************************************************************************)
(* The requests of the runs.  tab has the text x of turn s first as a      *)
(* fragment and then complete, at another position and without a source    *)
(* id; before that, one that does not match its checksum.  api does not    *)
(* know whether its text u of that turn is complete and has a fragment y   *)
(* of it.  Both have the text z of another turn, at two positions.  upsert *)
(* reports how complete the capture is.                                    *)
(***************************************************************************)
EXTENDS IngestArchive

CONSTANTS api, tab, upsert, s, u, x, y, z, none,
          k1, k2, k3, k4, k5, kU, Claimed

Message(k, src, slot, c, st) ==
    [key |-> k, source |-> src, slot |-> slot, content |-> c, status |-> st,
     intact |-> TRUE, rank |-> LiveOnly]

Damaged(p) == [p EXCEPT !.intact = FALSE]

Report(k, rank) == [Message(k, none, 1, x, "complete") EXCEPT !.rank = rank]

MCBatchOf ==
    [r \in Request |->
        CASE r = api    -> <<Message(k5, s, 1, u, "unknown"), Message(k2, s, 1, y, "partial"),
                             Message(k4, none, 1, z, "complete")>>
          [] r = tab    -> <<Message(k1, s, 1, x, "partial"),
                             Damaged(Message(k3, none, 2, x, "complete")),
                             Message(k4, none, 2, z, "complete"),
                             Message(k3, none, 2, x, "complete")>>
          [] r = upsert -> <<Report(kU, Claimed)>>]

=============================================================================
