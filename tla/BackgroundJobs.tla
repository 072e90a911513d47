--------------------------- MODULE BackgroundJobs ---------------------------
(***************************************************************************)
(* The durable background job queue of binderbridge/job_runner.py: one     *)
(* SQLite table of jobs, shared by worker loops (a thread of the web       *)
(* process or separate processes), by the request threads that enqueue and *)
(* expedite jobs, and by administrators who retry and cancel them.         *)
(*                                                                         *)
(* One action is one SQLite transaction.  Python's sqlite3 opens the       *)
(* transaction at the first INSERT/UPDATE/DELETE, so a SELECT that comes   *)
(* before it is a separate, earlier step whose result may be stale when    *)
(* the write runs: claims, retries and cancels are two steps each.         *)
(*                                                                         *)
(* Time is abstract: a pending row is due or not (available_at), a lease   *)
(* is live or expired (leased_until).                                      *)
(***************************************************************************)
EXTENDS Naturals

CONSTANTS
    JobIds,        \* row ids
    Keys,          \* unique_key values
    SystemKeys,    \* keys seeded at every worker start; their handlers repeat
    Priority,      \* priority a request gives the jobs of each key
    MaxAttempts,   \* max_attempts of every job
    Workers,       \* worker loops
    WorkerIds,     \* lease_owner values
    WorkerId,      \* the worker_id each loop was started with
    Admins,        \* administrator requests
    NoOne,         \* the empty lease_owner or key, and "no job"
    MaxCrashes,    \* bound: worker crashes in a behaviour
    MaxExpiries    \* bound: leases that expire under a running handler

ASSUME KeysAssumption == SystemKeys \subseteq Keys /\ NoOne \notin Keys
ASSUME PriorityAssumption == Priority \in [Keys -> Nat]
ASSUME AttemptsAssumption == MaxAttempts \in Nat \ {0}
ASSUME WorkerIdAssumption == WorkerId \in [Workers -> WorkerIds]
ASSUME NoOneAssumption == NoOne \notin JobIds /\ NoOne \notin WorkerIds
ASSUME BoundsAssumption == MaxCrashes \in Nat /\ MaxExpiries \in Nat

VARIABLES
    jobs,          \* the background_jobs table
    toExpedite,    \* keys some request has enqueued and not yet expedited
    pc,            \* where each worker loop is
    todo,          \* schedule keys a starting worker has still to enqueue
    cands,         \* candidate ids a claim has read
    handling,      \* id of the claimed row a worker holds in memory
    tries,         \* attempts column of that row, as claimed
    adm,           \* each administrator request: what it read and will write
    interrupted,   \* history: the queue took the job away from this worker
    crashes, expiries   \* history: counted so that they can be bounded

workerVars == <<pc, todo, cands, handling, tries>>
vars == <<jobs, toExpedite, workerVars, adm, interrupted, crashes, expiries>>

ActiveStatus   == {"pending", "running"}
TerminalStatus == {"succeeded", "failed", "cancelled"}
RowStatus == ActiveStatus \cup TerminalStatus \cup {"absent"}

Row == [status   : RowStatus,
        key      : Keys \cup {NoOne},
        priority : Nat,
        attempts : Nat,
        due      : BOOLEAN,
        owner    : WorkerIds \cup {NoOne},
        lease    : {"none", "live", "expired"}]

\* An administrator request between its SELECT and its UPDATE.
NoWrite == [op |-> "none", id |-> NoOne]
Write == [op : {"retry", "cancel"}, id : JobIds]

WorkerPc == {"down", "seed", "idle", "read", "take", "claimed", "working"}

\* Types of the table, of the worker loops and of the pending writes.
TypeOK ==
    /\ jobs \in [JobIds -> Row]
    /\ toExpedite \subseteq Keys
    /\ pc \in [Workers -> WorkerPc]
    /\ todo \in [Workers -> SUBSET SystemKeys]
    /\ cands \in [Workers -> SUBSET JobIds]
    /\ handling \in [Workers -> JobIds \cup {NoOne}]
    /\ tries \in [Workers -> Nat]
    /\ adm \in [Admins -> Write \cup {NoWrite}]
    /\ interrupted \in [Workers -> BOOLEAN]
    /\ crashes \in Nat /\ expiries \in Nat

-----------------------------------------------------------------------------
IsActive(j) == jobs[j].status \in ActiveStatus
ActiveKey(k) == \E j \in JobIds : jobs[j].key = k /\ IsActive(j)
\* Mutant: a job returned for another attempt is not offered again.
ClaimableOnce(j) == jobs[j].status = "pending" /\ jobs[j].due /\ jobs[j].attempts = 0
Claimable(j) == jobs[j].status = "pending" /\ jobs[j].due
\* Mutant: no lease ever counts as expired.
ExpiredNever == {}
Expired == {j \in JobIds : jobs[j].status = "running" /\ jobs[j].lease = "expired"}
Executing(w) == pc[w] \in {"claimed", "working"}
\* Mutants of the guard: without lease_owner, and the id alone.
OwnsAnyLease(w, j) == jobs[j].status = "running"
OwnsById(w, j) == TRUE
\* WHERE id = ? AND status = 'running' AND lease_owner = ?, the guard of every
\* write the worker of a handler makes.
Owns(w, j) == jobs[j].status = "running" /\ jobs[j].owner = WorkerId[w]

Blank(s) == [status |-> s, key |-> NoOne, priority |-> 0, attempts |-> 0,
             due |-> FALSE, owner |-> NoOne, lease |-> "none"]

\* The rows of the set S go back to the queue, at once due.
Requeued(S) == [j \in JobIds |->
    IF j \in S THEN [jobs[j] EXCEPT !.status = "pending", !.due = TRUE,
                                    !.owner = NoOne, !.lease = "none"]
               ELSE jobs[j]]
\* The executions that lose their job when the rows of S are taken over.
InterruptedBy(S) == [w \in Workers |-> interrupted[w] \/ handling[w] \in S]

Init ==
    /\ jobs = [j \in JobIds |-> Blank("absent")]
    /\ toExpedite = {}
    /\ pc = [w \in Workers |-> "down"]
    /\ todo = [w \in Workers |-> {}]
    /\ cands = [w \in Workers |-> {}]
    /\ handling = [w \in Workers |-> NoOne]
    /\ tries = [w \in Workers |-> 0]
    /\ adm = [a \in Admins |-> NoWrite]
    /\ interrupted = [w \in Workers |-> FALSE]
    /\ crashes = 0 /\ expiries = 0

-----------------------------------------------------------------------------
(* Requests.  INSERT OR IGNORE against the partial unique index makes the  *)
(* SELECT of an existing active job and the INSERT one decision: a job is  *)
(* inserted exactly when no active job has the key at the INSERT.          *)

\* AUTOINCREMENT never reuses an id: a new row has one that nobody remembers.
FreshId(j) ==
    /\ jobs[j].status = "absent"
    /\ \A w \in Workers : handling[w] # j /\ j \notin cands[w]
    /\ \A a \in Admins : adm[a].id # j

Inserted(k, p) ==
    IF ActiveKey(k)
    THEN jobs' = jobs
    ELSE \E j \in JobIds :
           /\ FreshId(j)
           /\ \E d \in BOOLEAN :      \* delay_seconds
                jobs' = [jobs EXCEPT ![j] = [Blank("pending") EXCEPT
                            !.key = k, !.priority = p, !.due = d]]

\* Bound: requests leave a free row to the schedules of a starting worker.
SpareRow == \E i, j \in JobIds : i # j /\ FreshId(i) /\ FreshId(j)

Enqueue(k) ==
    /\ ActiveKey(k) \/ SpareRow
    /\ Inserted(k, Priority[k])
    /\ toExpedite' = toExpedite \cup {k}
    /\ UNCHANGED <<workerVars, adm, interrupted, crashes, expiries>>

Expedite(k) ==
    /\ k \in toExpedite
    /\ toExpedite' = toExpedite \ {k}
    /\ jobs' = [j \in JobIds |->
                  IF jobs[j].key = k /\ jobs[j].status = "pending"
                  THEN [jobs[j] EXCEPT !.due = TRUE] ELSE jobs[j]]
    /\ UNCHANGED <<workerVars, adm, interrupted, crashes, expiries>>

\* available_at passes.
BecomesDue(j) ==
    /\ jobs[j].status = "pending" /\ ~jobs[j].due
    /\ jobs' = [jobs EXCEPT ![j].due = TRUE]
    /\ UNCHANGED <<toExpedite, workerVars, adm, interrupted, crashes, expiries>>

\* leased_until passes.  Under a handler that still runs this is bounded.
LeaseExpires(j) ==
    /\ jobs[j].status = "running" /\ jobs[j].lease = "live"
    /\ (\E w \in Workers : handling[w] = j) => expiries < MaxExpiries
    /\ jobs' = [jobs EXCEPT ![j].lease = "expired"]
    /\ expiries' = expiries + 1
    /\ UNCHANGED <<toExpedite, workerVars, adm, interrupted, crashes>>

-----------------------------------------------------------------------------
(* The worker loop.                                                        *)

Recover(w, from, to) ==
    /\ pc[w] = from
    /\ jobs' = Requeued(Expired)
    /\ interrupted' = InterruptedBy(Expired)
    /\ pc' = [pc EXCEPT ![w] = to]

\* Mutant: every key is seeded, the one-shot jobs too.
StartSeedsAll(w) ==
    /\ Recover(w, "down", "seed")
    /\ todo' = [todo EXCEPT ![w] = Keys]
    /\ UNCHANGED <<toExpedite, cands, handling, tries, adm, crashes, expiries>>

\* The process or thread starts: recovery first, then the schedules.
Start(w) ==
    /\ Recover(w, "down", "seed")
    /\ todo' = [todo EXCEPT ![w] = SystemKeys]
    /\ UNCHANGED <<toExpedite, cands, handling, tries, adm, crashes, expiries>>

Seed(w) ==
    /\ pc[w] = "seed"
    /\ \/ /\ todo[w] = {}
          /\ pc' = [pc EXCEPT ![w] = "idle"]
          /\ UNCHANGED <<jobs, todo>>
       \/ /\ \E k \in todo[w] : /\ Inserted(k, 0)
                                /\ todo' = [todo EXCEPT ![w] = @ \ {k}]
          /\ UNCHANGED pc
    /\ UNCHANGED <<toExpedite, cands, handling, tries, adm, interrupted, crashes, expiries>>

\* claim_background_job, first transaction.
RecoverExpired(w) ==
    /\ Recover(w, "idle", "read")
    /\ UNCHANGED <<toExpedite, todo, cands, handling, tries, adm, crashes, expiries>>

\* claim_background_job, the SELECT of the candidates.
ClaimRead(w) ==
    /\ pc[w] = "read"
    /\ cands' = [cands EXCEPT ![w] = {j \in JobIds : Claimable(j)}]
    /\ pc' = [pc EXCEPT ![w] = IF \E j \in JobIds : Claimable(j) THEN "take" ELSE "idle"]
    /\ UNCHANGED <<jobs, toExpedite, todo, handling, tries, adm, interrupted, crashes, expiries>>

\* Mutant: the UPDATE does not check again that the candidate is pending.
TakeUnchecked(w, j) ==
    /\ pc[w] = "take" /\ j \in cands[w]
    /\ jobs' = [jobs EXCEPT ![j].status = "running", ![j].attempts = @ + 1,
                            ![j].due = FALSE, ![j].owner = WorkerId[w], ![j].lease = "live"]
    /\ handling' = [handling EXCEPT ![w] = j]
    /\ tries' = [tries EXCEPT ![w] = jobs[j].attempts + 1]
    /\ interrupted' = [interrupted EXCEPT ![w] = FALSE]
    /\ cands' = [cands EXCEPT ![w] = {}]
    /\ pc' = [pc EXCEPT ![w] = "claimed"]
    /\ UNCHANGED <<toExpedite, todo, adm, crashes, expiries>>

\* claim_background_job, the guarded UPDATEs: the first candidate in priority
\* order that is still pending and due is taken.
Take(w, j) ==
    /\ pc[w] = "take"
    /\ j \in cands[w] /\ Claimable(j)
    /\ \A i \in cands[w] : Claimable(i) => jobs[i].priority <= jobs[j].priority
    /\ jobs' = [jobs EXCEPT ![j].status = "running", ![j].attempts = @ + 1,
                            ![j].due = FALSE, ![j].owner = WorkerId[w], ![j].lease = "live"]
    /\ handling' = [handling EXCEPT ![w] = j]
    /\ tries' = [tries EXCEPT ![w] = jobs[j].attempts + 1]
    /\ interrupted' = [interrupted EXCEPT ![w] = FALSE]
    /\ cands' = [cands EXCEPT ![w] = {}]
    /\ pc' = [pc EXCEPT ![w] = "claimed"]
    /\ UNCHANGED <<toExpedite, todo, adm, crashes, expiries>>

TakeNone(w) ==
    /\ pc[w] = "take"
    /\ ~\E j \in cands[w] : Claimable(j)
    /\ cands' = [cands EXCEPT ![w] = {}]
    /\ pc' = [pc EXCEPT ![w] = "idle"]
    /\ UNCHANGED <<jobs, toExpedite, todo, handling, tries, adm, interrupted, crashes, expiries>>

\* The progress write with which a handler begins; it renews the lease.
Progress(w) ==
    /\ pc[w] = "claimed"
    /\ jobs' = IF Owns(w, handling[w])
               THEN [jobs EXCEPT ![handling[w]].lease = "live"] ELSE jobs
    /\ pc' = [pc EXCEPT ![w] = "working"]
    /\ UNCHANGED <<toExpedite, todo, cands, handling, tries, adm, interrupted, crashes, expiries>>

\* The handler is over: its outcome is written if the worker still owns the job.
Release(w, written) ==
    /\ Executing(w)
    /\ jobs' = IF Owns(w, handling[w])
               THEN [jobs EXCEPT ![handling[w]] = written] ELSE jobs
    /\ pc' = [pc EXCEPT ![w] = "idle"]
    /\ handling' = [handling EXCEPT ![w] = NoOne]
    /\ tries' = [tries EXCEPT ![w] = 0]
    /\ interrupted' = [interrupted EXCEPT ![w] = FALSE]
    /\ UNCHANGED <<toExpedite, todo, cands, adm, crashes, expiries>>

Released(j, s, d) == [jobs[j] EXCEPT !.status = s, !.due = d, !.owner = NoOne, !.lease = "none"]

\* Mutant: a scheduled job succeeds like any other.
FinishWithoutRepeat(w) == Release(w, Released(handling[w], "succeeded", FALSE))

\* finish_background_job with repeat_seconds; 0.25 s may already be due.
FinishRepeat(w) ==
    \E d \in BOOLEAN :
        Release(w, [Released(handling[w], "pending", d) EXCEPT !.attempts = 0])

\* finish_background_job without: only handlers of unscheduled jobs return so.
FinishDone(w) ==
    /\ Executing(w) /\ jobs[handling[w]].key \notin SystemKeys
    /\ Release(w, Released(handling[w], "succeeded", FALSE))

\* Mutant: off by one.
FailLate(w) ==
    Release(w, Released(handling[w], IF tries[w] <= MaxAttempts THEN "pending" ELSE "failed", FALSE))

\* fail_background_job decides from the attempts the claim returned.
Fail(w) ==
    Release(w, Released(handling[w], IF tries[w] < MaxAttempts THEN "pending" ELSE "failed", FALSE))

\* prune_background_job_history: any set of old enough terminal rows.
Prune(w) ==
    /\ pc[w] = "idle"
    /\ \E S \in (SUBSET {j \in JobIds : jobs[j].status \in TerminalStatus}) \ {{}} :
         jobs' = [j \in JobIds |-> IF j \in S THEN Blank("absent") ELSE jobs[j]]
    /\ UNCHANGED <<toExpedite, workerVars, adm, interrupted, crashes, expiries>>

\* The process dies, or an exception escapes process_background_job_once and
\* ends the loop: the lease stays behind.
Crash(w) ==
    /\ pc[w] # "down" /\ crashes < MaxCrashes
    /\ pc' = [pc EXCEPT ![w] = "down"]
    /\ todo' = [todo EXCEPT ![w] = {}]
    /\ cands' = [cands EXCEPT ![w] = {}]
    /\ handling' = [handling EXCEPT ![w] = NoOne]
    /\ tries' = [tries EXCEPT ![w] = 0]
    /\ interrupted' = [interrupted EXCEPT ![w] = FALSE]
    /\ crashes' = crashes + 1
    /\ UNCHANGED <<jobs, toExpedite, adm, expiries>>

-----------------------------------------------------------------------------
(* Administrators: a SELECT that checks the status, then an UPDATE that    *)
(* names only the id.                                                      *)

RetryRead(a, j) ==
    /\ adm[a] = NoWrite /\ jobs[j].status \in {"failed", "cancelled"}
    /\ adm' = [adm EXCEPT ![a] = [op |-> "retry", id |-> j]]
    /\ UNCHANGED <<jobs, toExpedite, workerVars, interrupted, crashes, expiries>>

\* Mutant: no unique index.
NoIndex(j) == FALSE
\* The index refuses the UPDATE when another active job has the key.
RetryConflict(j) ==
    \E i \in JobIds \ {j} : jobs[i].key = jobs[j].key /\ IsActive(i)

RetryWrite(a) ==
    /\ adm[a].op = "retry"
    /\ LET j == adm[a].id
           ok == jobs[j].status # "absent" /\ ~RetryConflict(j)
       IN /\ jobs' = IF ok THEN [jobs EXCEPT ![j] =
                                  [Released(j, "pending", TRUE) EXCEPT !.attempts = 0]]
                           ELSE jobs
          /\ interrupted' = IF ok THEN InterruptedBy({j}) ELSE interrupted
    /\ adm' = [adm EXCEPT ![a] = NoWrite]
    /\ UNCHANGED <<toExpedite, workerVars, crashes, expiries>>

CancelRead(a, j) ==
    /\ adm[a] = NoWrite /\ IsActive(j)
    /\ adm' = [adm EXCEPT ![a] = [op |-> "cancel", id |-> j]]
    /\ UNCHANGED <<jobs, toExpedite, workerVars, interrupted, crashes, expiries>>

CancelWrite(a) ==
    /\ adm[a].op = "cancel"
    /\ LET j == adm[a].id
       IN IF jobs[j].status = "absent"
          THEN UNCHANGED <<jobs, interrupted>>
          ELSE /\ jobs' = [jobs EXCEPT ![j] = Released(j, "cancelled", FALSE)]
               /\ interrupted' = InterruptedBy({j})
    /\ adm' = [adm EXCEPT ![a] = NoWrite]
    /\ UNCHANGED <<toExpedite, workerVars, crashes, expiries>>

-----------------------------------------------------------------------------
Next ==
    \/ \E k \in Keys : Enqueue(k) \/ Expedite(k)
    \/ \E j \in JobIds : BecomesDue(j) \/ LeaseExpires(j)
    \/ \E w \in Workers :
         \/ Start(w) \/ Seed(w) \/ RecoverExpired(w) \/ ClaimRead(w) \/ TakeNone(w)
         \/ \E j \in JobIds : Take(w, j)
         \/ Progress(w) \/ FinishRepeat(w) \/ FinishDone(w) \/ Fail(w) \/ Prune(w) \/ Crash(w)
    \/ \E a \in Admins :
         \/ \E j \in JobIds : RetryRead(a, j) \/ CancelRead(a, j)
         \/ RetryWrite(a) \/ CancelWrite(a)

Spec == Init /\ [][Next]_vars

-----------------------------------------------------------------------------
(* Safety.                                                                 *)

\* The unique index: two active jobs never share a key, whatever enqueues,
\* recoveries and retries interleave.
UniqueActiveKey ==
    \A i, j \in JobIds :
        IsActive(i) /\ IsActive(j) /\ jobs[i].key = jobs[j].key => i = j

\* The guard (id, running, lease_owner) of the worker's writes tells exactly
\* whether the job is still this execution's: an execution whose job was
\* recovered, cancelled or retried writes nothing, every other one does.
LeaseGuardExact ==
    \A w \in Workers :
        Executing(w) => (interrupted[w] <=> ~Owns(w, handling[w]))

\* Two handlers run under one key at once only if the queue took the job
\* away from one of them (its lease expired, or an administrator acted).
NoOverlap ==
    \A v, w \in Workers :
        /\ v # w /\ Executing(v) /\ Executing(w)
        /\ ~interrupted[v] /\ ~interrupted[w]
        => jobs[handling[v]].key # jobs[handling[w]].key

\* A job is marked failed only after all its attempts, although the decision
\* is made from the attempts read at the claim; and, although recovery never
\* checks max_attempts, each expired lease buys a job at most one attempt more.
AttemptsSpent ==
    \A j \in JobIds :
        /\ jobs[j].status = "failed" => jobs[j].attempts >= MaxAttempts
        /\ jobs[j].attempts <= MaxAttempts + expiries

\* A seeded schedule leaves the queue only because one of its jobs failed for
\* good or was cancelled: repeating is one UPDATE, with no gap to crash in.
ScheduleEndsOnlyByFailureOrCancel ==
    [][\A k \in SystemKeys :
         ActiveKey(k) /\ ~ActiveKey(k)' =>
            \E j \in JobIds : /\ jobs[j].key = k /\ IsActive(j)
                              /\ jobs'[j].status \in {"failed", "cancelled"}]_vars

\* What a worker still running reports never replaces a cancellation: only a
\* retry revives the job and only pruning removes it.
CancelledStays ==
    [][\A j \in JobIds : jobs[j].status = "cancelled" =>
            \/ jobs'[j].status \in {"cancelled", "absent"}
            \/ jobs'[j].status = "pending" /\ \E a \in Admins : adm[a].op = "retry"]_vars

\* An administrator's write reaches only a job it is meant for: "Only failed or
\* cancelled background jobs can be retried." (job_runner.py:411), "Only pending
\* or running background jobs can be cancelled." (job_runner.py:437).
AdminWritesOnlyEligible ==
    [][\A a \in Admins : adm[a] # NoWrite /\ adm'[a] = NoWrite /\ jobs' # jobs =>
          IF adm[a].op = "retry"
          THEN jobs[adm[a].id].status \in {"failed", "cancelled"}
          ELSE IsActive(adm[a].id)]_vars

-----------------------------------------------------------------------------
(* Liveness.                                                               *)

\* Time passes, a loop that runs keeps running, a handler ends.  A due job is
\* not passed over for ever by jobs of its own priority: candidates are read
\* in the order of available_at, abstracted here to strong fairness.
Fairness ==
    /\ \A j \in JobIds : /\ WF_vars(BecomesDue(j)) /\ WF_vars(LeaseExpires(j))
                         /\ SF_vars(\E w \in Workers : Take(w, j))
    /\ \A w \in Workers :
         /\ WF_vars(Start(w)) /\ WF_vars(Seed(w)) /\ WF_vars(RecoverExpired(w))
         /\ WF_vars(ClaimRead(w)) /\ WF_vars(TakeNone(w)) /\ WF_vars(Progress(w))
         /\ WF_vars(FinishRepeat(w) \/ FinishDone(w) \/ Fail(w))

FairSpec == Spec /\ Fairness

\* A pending job is claimed, or cancelled.
PendingIsTaken ==
    \A j \in JobIds : jobs[j].status = "pending" ~> jobs[j].status # "pending"

\* A running job whose worker died does not stay running: its lease expires
\* and a surviving or restarted worker returns it to the queue.
OrphanReturns ==
    \A j \in JobIds :
        (jobs[j].status = "running" /\ \A w \in Workers : handling[w] # j)
            ~> jobs[j].status # "running"

=============================================================================
