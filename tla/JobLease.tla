------------------------------- MODULE JobLease -------------------------------
(***************************************************************************)
(* What the job queue promises its handlers, without rows, tokens or       *)
(* transactions: a submitted job is leased to one worker at a time, only   *)
(* the lessee decides what becomes of it, a lease is taken back only from  *)
(* a worker that has abandoned it, and a settled job stays settled.        *)
(***************************************************************************)
CONSTANTS Job, Worker, NoWorker

VARIABLES phase,   \* where each job stands
          lessee   \* the worker that runs a leased job, if it still does

vars == <<phase, lessee>>

TypeOK ==
    /\ phase \in [Job -> {"absent", "queued", "leased", "settled"}]
    /\ lessee \in [Job -> Worker \cup {NoWorker}]

Init ==
    /\ phase = [j \in Job |-> "absent"]
    /\ lessee = [j \in Job |-> NoWorker]

\* The jobs in S go to phase p and lessee w; the others keep theirs.
Move(S, p, w) ==
    /\ phase' = [j \in Job |-> IF j \in S THEN p ELSE phase[j]]
    /\ lessee' = [j \in Job |-> IF j \in S THEN w ELSE lessee[j]]

LeasedTo(w) == {j \in Job : phase[j] = "leased" /\ lessee[j] = w}

Submit(S) ==
    /\ \A j \in S : phase[j] = "absent"
    /\ Move(S, "queued", NoWorker)

Lease(w, S) ==
    /\ \A j \in S : phase[j] = "queued"
    /\ Move(S, "leased", w)

Settle(w, j) ==
    /\ j \in LeasedTo(w)
    /\ Move({j}, "settled", NoWorker)

GiveBack(w, j) ==
    /\ j \in LeasedTo(w)
    /\ Move({j}, "queued", NoWorker)

\* A worker dies or loses its session: its leases have no lessee any more.
Abandon(w) == Move(LeasedTo(w), "leased", NoWorker)

Reclaim(S) ==
    /\ S \subseteq LeasedTo(NoWorker)
    /\ Move(S, "queued", NoWorker)

Next ==
    \/ \E S \in SUBSET Job : Submit(S) \/ Reclaim(S)
    \/ \E w \in Worker :
          \/ Abandon(w)
          \/ \E S \in SUBSET Job : Lease(w, S)
          \/ \E j \in Job : Settle(w, j) \/ GiveBack(w, j)

Spec == Init /\ [][Next]_vars

=============================================================================
