-------------------------- MODULE MCBackgroundJobs --------------------------
(* Small instances of BackgroundJobs for TLC. *)
EXTENDS BackgroundJobs, TLC

CONSTANTS sysKey, oneKey

\* Every loop has a worker_id of its own (embedded-<random> per start).
OwnIds == [w \in Workers |-> w]
\* Every external worker process has the same one (scripts/run_worker.py:17).
SharedId == [w \in Workers |-> CHOOSE i \in WorkerIds : TRUE]

\* Requests enqueue the unscheduled job with a higher priority, as the
\* start_scryfall_* functions do.
Priorities == [k \in Keys |-> IF k = sysKey THEN 0 ELSE 5]
EqualPriorities == [k \in Keys |-> 0]

Symmetry == Permutations(JobIds) \cup Permutations(Workers)
=============================================================================
