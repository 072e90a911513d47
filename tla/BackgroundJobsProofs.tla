------------------------ MODULE BackgroundJobsProofs ------------------------
(***************************************************************************)
(* Proofs about BackgroundJobs, for any number of jobs, keys, workers and   *)
(* administrators and for any bounds.                                      *)
(***************************************************************************)
EXTENDS BackgroundJobs, TLAPS

-----------------------------------------------------------------------------
(* Typing.                                                                 *)

\* A released row is a row.
LEMMA ReleasedType ==
    ASSUME TypeOK, NEW j \in JobIds, NEW s \in RowStatus, NEW d \in BOOLEAN
    PROVE  Released(j, s, d) \in Row
<1>1. jobs[j] \in Row
  BY DEF TypeOK
<1> QED  BY <1>1 DEF Row, Released

\* Requeueing rows gives a table, whatever the set of rows.
LEMMA RequeuedType ==
    ASSUME TypeOK, NEW S
    PROVE  Requeued(S) \in [JobIds -> Row]
<1>1. \A j \in JobIds : jobs[j] \in Row
  BY DEF TypeOK
<1>2. \A j \in JobIds : [jobs[j] EXCEPT !.status = "pending", !.due = TRUE,
                                        !.owner = NoOne, !.lease = "none"] \in Row
  BY <1>1 DEF Row, RowStatus, ActiveStatus
<1> QED  BY <1>1, <1>2 DEF Requeued

\* An enqueue leaves a table.
LEMMA InsertedType ==
    ASSUME TypeOK, NEW k \in Keys, NEW p \in Nat, Inserted(k, p)
    PROVE  jobs' \in [JobIds -> Row]
<1>1. CASE ActiveKey(k)
  BY <1>1 DEF Inserted, TypeOK
<1>2. CASE ~ActiveKey(k)
  <2>1. PICK j \in JobIds, d \in BOOLEAN :
          jobs' = [jobs EXCEPT ![j] = [Blank("pending") EXCEPT
                                         !.key = k, !.priority = p, !.due = d]]
    BY <1>2 DEF Inserted
  <2>2. [Blank("pending") EXCEPT !.key = k, !.priority = p, !.due = d] \in Row
    BY DEF Blank, Row, RowStatus, ActiveStatus
  <2> QED  BY <2>1, <2>2 DEF TypeOK
<1> QED  BY <1>1, <1>2

\* The end of a handler leaves a table, if what it writes is a row.
LEMMA ReleaseType ==
    ASSUME TypeOK, NEW w \in Workers, NEW written, Release(w, written),
           handling[w] \in JobIds => written \in Row
    PROVE  jobs' \in [JobIds -> Row]
BY DEF Release, TypeOK

\* Every reachable state is well typed.
THEOREM TypeCorrect == Spec => []TypeOK
<1>1. Init => TypeOK
  <2> SUFFICES ASSUME Init PROVE TypeOK
    OBVIOUS
  <2>1. Blank("absent") \in Row
    BY DEF Blank, Row, RowStatus
  <2> QED  BY <2>1 DEF Init, TypeOK, WorkerPc, NoWrite
<1>2. TypeOK /\ [Next]_vars => TypeOK'
  <2> SUFFICES ASSUME TypeOK, [Next]_vars PROVE TypeOK'
    OBVIOUS
  <2> USE DEF TypeOK, workerVars
  <2>1. ASSUME NEW k \in Keys, Enqueue(k) PROVE TypeOK'
    <3>1. Inserted(k, Priority[k]) /\ Priority[k] \in Nat
      BY <2>1, PriorityAssumption DEF Enqueue
    <3> QED  BY <2>1, <3>1, InsertedType DEF Enqueue
  <2>2. ASSUME NEW k \in Keys, Expedite(k) PROVE TypeOK'
    <3>1. \A j \in JobIds : [jobs[j] EXCEPT !.due = TRUE] \in Row
      <4> SUFFICES ASSUME NEW j \in JobIds PROVE [jobs[j] EXCEPT !.due = TRUE] \in Row
        OBVIOUS
      <4>1. jobs[j] \in Row
        OBVIOUS
      <4> QED  BY <4>1 DEF Row
    <3>2. jobs' \in [JobIds -> Row]
      BY <2>2, <3>1 DEF Expedite
    <3> QED  BY <2>2, <3>2 DEF Expedite
  <2>3. ASSUME NEW j \in JobIds, BecomesDue(j) PROVE TypeOK'
    <3>1. jobs' \in [JobIds -> Row]
      BY <2>3 DEF BecomesDue, Row
    <3> QED  BY <2>3, <3>1 DEF BecomesDue
  <2>4. ASSUME NEW j \in JobIds, LeaseExpires(j) PROVE TypeOK'
    <3>1. jobs' \in [JobIds -> Row]
      BY <2>4 DEF LeaseExpires, Row
    <3> QED  BY <2>4, <3>1 DEF LeaseExpires
  <2>5. ASSUME NEW w \in Workers, Start(w) PROVE TypeOK'
    BY <2>5, RequeuedType DEF Start, Recover, InterruptedBy, WorkerPc
  <2>6. ASSUME NEW w \in Workers, Seed(w) PROVE TypeOK'
    <3>1. CASE todo[w] = {} /\ UNCHANGED <<jobs, todo>> /\ pc' = [pc EXCEPT ![w] = "idle"]
      BY <2>6, <3>1 DEF Seed, WorkerPc
    <3>2. ASSUME NEW k \in todo[w], Inserted(k, 0), todo' = [todo EXCEPT ![w] = @ \ {k}],
                 UNCHANGED pc
          PROVE  TypeOK'
      <4>1. k \in Keys
        BY KeysAssumption
      <4>2. jobs' \in [JobIds -> Row]
        BY <4>1, <3>2, InsertedType
      <4> QED  BY <2>6, <3>2, <4>2 DEF Seed
    <3> QED  BY <2>6, <3>1, <3>2 DEF Seed
  <2>7. ASSUME NEW w \in Workers, RecoverExpired(w) PROVE TypeOK'
    BY <2>7, RequeuedType DEF RecoverExpired, Recover, InterruptedBy, WorkerPc
  <2>8. ASSUME NEW w \in Workers, ClaimRead(w) PROVE TypeOK'
    BY <2>8 DEF ClaimRead, WorkerPc
  <2>9. ASSUME NEW w \in Workers, TakeNone(w) PROVE TypeOK'
    BY <2>9 DEF TakeNone, WorkerPc
  <2>10. ASSUME NEW w \in Workers, NEW j \in JobIds, Take(w, j) PROVE TypeOK'
    <3>1. jobs' \in [JobIds -> Row]
      <4>1. jobs[j] \in Row /\ WorkerId[w] \in WorkerIds
        BY WorkerIdAssumption
      <4>2. [jobs[j] EXCEPT !.status = "running", !.attempts = @ + 1, !.due = FALSE,
                            !.owner = WorkerId[w], !.lease = "live"] \in Row
        <5>1. jobs[j].attempts + 1 \in Nat
          BY <4>1 DEF Row
        <5> QED  BY <4>1, <5>1 DEF Row, RowStatus, ActiveStatus
      <4>3. jobs' = [jobs EXCEPT ![j] =
                       [jobs[j] EXCEPT !.status = "running", !.attempts = @ + 1, !.due = FALSE,
                                       !.owner = WorkerId[w], !.lease = "live"]]
        BY <2>10 DEF Take
      <4> QED  BY <4>2, <4>3
    <3>2. tries' \in [Workers -> Nat]
      BY <2>10 DEF Take, Row
    <3> QED  BY <2>10, <3>1, <3>2 DEF Take, WorkerPc
  <2>11. ASSUME NEW w \in Workers, Progress(w) PROVE TypeOK'
    <3> DEFINE j == handling[w]
               kept == [jobs[j] EXCEPT !.lease = "live"]
    <3>1. jobs' = jobs \/ jobs' = [jobs EXCEPT ![j] = kept]
      BY <2>11 DEF Progress
    <3>2. j \in JobIds => kept \in Row
      BY DEF Row
    <3>3. jobs' \in [JobIds -> Row]
      <4> HIDE DEF j, kept
      <4> QED  BY <3>1, <3>2
    <3> QED  BY <2>11, <3>3 DEF Progress, WorkerPc
  <2>12. ASSUME NEW w \in Workers, NEW written, Release(w, written),
                handling[w] \in JobIds => written \in Row
         PROVE  TypeOK'
    <3>1. jobs' \in [JobIds -> Row]
      BY <2>12, ReleaseType
    <3> QED  BY <2>12, <3>1 DEF Release, WorkerPc
  <2>13. ASSUME NEW w \in Workers, FinishRepeat(w) PROVE TypeOK'
    <3>1. PICK d \in BOOLEAN :
            Release(w, [Released(handling[w], "pending", d) EXCEPT !.attempts = 0])
      BY <2>13 DEF FinishRepeat
    <3>2. handling[w] \in JobIds =>
            [Released(handling[w], "pending", d) EXCEPT !.attempts = 0] \in Row
      <4> SUFFICES ASSUME handling[w] \in JobIds
                   PROVE  [Released(handling[w], "pending", d) EXCEPT !.attempts = 0] \in Row
        OBVIOUS
      <4>1. Released(handling[w], "pending", d) \in Row
        BY ReleasedType DEF RowStatus, ActiveStatus
      <4> QED  BY <4>1 DEF Row
    <3> QED  BY <3>1, <3>2, <2>12
  <2>14. ASSUME NEW w \in Workers, FinishDone(w) PROVE TypeOK'
    <3>1. handling[w] \in JobIds => Released(handling[w], "succeeded", FALSE) \in Row
      BY ReleasedType DEF RowStatus, TerminalStatus
    <3> QED  BY <2>14, <3>1, <2>12 DEF FinishDone
  <2>15. ASSUME NEW w \in Workers, Fail(w) PROVE TypeOK'
    <3>1. handling[w] \in JobIds =>
            Released(handling[w], IF tries[w] < MaxAttempts THEN "pending" ELSE "failed", FALSE) \in Row
      BY ReleasedType DEF RowStatus, TerminalStatus, ActiveStatus
    <3> QED  BY <2>15, <3>1, <2>12 DEF Fail
  <2>16. ASSUME NEW w \in Workers, Prune(w) PROVE TypeOK'
    <3>1. Blank("absent") \in Row
      BY DEF Blank, Row, RowStatus
    <3>2. jobs' \in [JobIds -> Row]
      BY <2>16, <3>1 DEF Prune
    <3> QED  BY <2>16, <3>2 DEF Prune
  <2>17. ASSUME NEW w \in Workers, Crash(w) PROVE TypeOK'
    BY <2>17 DEF Crash, WorkerPc
  <2>18. ASSUME NEW a \in Admins, NEW j \in JobIds, RetryRead(a, j) PROVE TypeOK'
    BY <2>18 DEF RetryRead, Write
  <2>19. ASSUME NEW a \in Admins, NEW j \in JobIds, CancelRead(a, j) PROVE TypeOK'
    BY <2>19 DEF CancelRead, Write
  <2>20. ASSUME NEW a \in Admins, RetryWrite(a) PROVE TypeOK'
    <3>0. adm[a].id \in JobIds
      BY <2>20 DEF RetryWrite, Write, NoWrite
    <3>1. [Released(adm[a].id, "pending", TRUE) EXCEPT !.attempts = 0] \in Row
      <4>1. Released(adm[a].id, "pending", TRUE) \in Row
        BY <3>0, ReleasedType DEF RowStatus, ActiveStatus
      <4> QED  BY <4>1 DEF Row
    <3>2. jobs' \in [JobIds -> Row]
      BY <2>20, <3>1 DEF RetryWrite
    <3> QED  BY <2>20, <3>2 DEF RetryWrite, InterruptedBy
  <2>21. ASSUME NEW a \in Admins, CancelWrite(a) PROVE TypeOK'
    <3>0. adm[a].id \in JobIds
      BY <2>21 DEF CancelWrite, Write, NoWrite
    <3>1. Released(adm[a].id, "cancelled", FALSE) \in Row
      BY <3>0, ReleasedType DEF RowStatus, TerminalStatus
    <3>2. jobs' \in [JobIds -> Row]
      BY <2>21, <3>1 DEF CancelWrite
    <3> QED  BY <2>21, <3>2 DEF CancelWrite, InterruptedBy
  <2>22. CASE UNCHANGED vars
    BY <2>22 DEF vars
  <2> QED
    BY <2>1, <2>2, <2>3, <2>4, <2>5, <2>6, <2>7, <2>8, <2>9, <2>10, <2>11, <2>13, <2>14,
       <2>15, <2>16, <2>17, <2>18, <2>19, <2>20, <2>21, <2>22 DEF Next
<1> QED  BY <1>1, <1>2, PTL DEF Spec

-----------------------------------------------------------------------------
(* The unique index.                                                       *)

\* A step that activates no row and renames none keeps active keys unique.
LEMMA NoneActivated ==
    ASSUME UniqueActiveKey,
           \A j \in JobIds : IsActive(j)' => IsActive(j) /\ jobs'[j].key = jobs[j].key
    PROVE  UniqueActiveKey'
BY DEF UniqueActiveKey

\* An enqueue activates a row only when its key had none.
LEMMA InsertedUnique ==
    ASSUME TypeOK, UniqueActiveKey, NEW k \in Keys, NEW p \in Nat, Inserted(k, p)
    PROVE  UniqueActiveKey'
<1>1. CASE ActiveKey(k)
  BY <1>1 DEF Inserted, UniqueActiveKey, IsActive
<1>2. CASE ~ActiveKey(k)
  <2>1. PICK j \in JobIds, d \in BOOLEAN :
          jobs' = [jobs EXCEPT ![j] = [Blank("pending") EXCEPT
                                         !.key = k, !.priority = p, !.due = d]]
    BY <1>2 DEF Inserted
  <2>2. jobs'[j].key = k /\ \A i \in JobIds \ {j} : jobs'[i] = jobs[i]
    BY <2>1 DEF TypeOK, Blank
  <2>3. \A i \in JobIds \ {j} : IsActive(i)' => jobs'[i].key # k
    BY <1>2, <2>2 DEF ActiveKey, IsActive
  <2> QED  BY <2>2, <2>3 DEF UniqueActiveKey, IsActive
<1> QED  BY <1>1, <1>2

\* Only the owner's write changes a row, and it keeps the row's key.
LEMMA ReleaseKeepsKey ==
    ASSUME TypeOK, UniqueActiveKey, NEW w \in Workers, NEW written, Release(w, written),
           handling[w] \in JobIds => written.key = jobs[handling[w]].key
    PROVE  UniqueActiveKey'
<1>1. \A j \in JobIds : IsActive(j)' => IsActive(j) /\ jobs'[j].key = jobs[j].key
  BY DEF Release, TypeOK, Owns, IsActive, ActiveStatus
<1> QED  BY <1>1, NoneActivated

\* A released row keeps its key.
LEMMA ReleasedKey ==
    ASSUME TypeOK, NEW j \in JobIds, NEW s, NEW d
    PROVE  Released(j, s, d).key = jobs[j].key
<1>1. jobs[j] \in Row
  BY DEF TypeOK
<1> QED  BY <1>1 DEF Row, Released

\* At most one active job per key, in every reachable state: enqueues, seeds
\* and recoveries never make a second one and a retry that would is refused.
THEOREM UniqueActiveKeyCorrect == Spec => []UniqueActiveKey
<1>1. Init => UniqueActiveKey
  BY DEF Init, UniqueActiveKey, IsActive, ActiveStatus, Blank
<1>2. TypeOK /\ UniqueActiveKey /\ [Next]_vars => UniqueActiveKey'
  <2> SUFFICES ASSUME TypeOK, UniqueActiveKey, [Next]_vars PROVE UniqueActiveKey'
    OBVIOUS
  <2> USE DEF workerVars
  <2>0. ASSUME UNCHANGED jobs PROVE UniqueActiveKey'
    BY <2>0 DEF UniqueActiveKey, IsActive
  <2>1. ASSUME NEW k \in Keys, Enqueue(k) PROVE UniqueActiveKey'
    BY <2>1, InsertedUnique, PriorityAssumption DEF Enqueue
  <2>2. ASSUME NEW k \in Keys, Expedite(k) PROVE UniqueActiveKey'
    <3>1. \A j \in JobIds : jobs[j] \in Row
      BY DEF TypeOK
    <3>2. \A j \in JobIds : jobs'[j] \in {jobs[j], [jobs[j] EXCEPT !.due = TRUE]}
      BY <2>2 DEF Expedite
    <3>3. \A j \in JobIds : jobs'[j].status = jobs[j].status /\ jobs'[j].key = jobs[j].key
      BY <3>1, <3>2 DEF Row
    <3> QED  BY <3>3, NoneActivated DEF IsActive
  <2>3. ASSUME NEW j \in JobIds, BecomesDue(j) \/ LeaseExpires(j) PROVE UniqueActiveKey'
    <3>1. \A i \in JobIds : jobs[i] \in Row
      BY DEF TypeOK
    <3>2. \A i \in JobIds : jobs'[i].status = jobs[i].status /\ jobs'[i].key = jobs[i].key
      <4>1. CASE BecomesDue(j)
        BY <4>1, <3>1 DEF BecomesDue, Row, TypeOK
      <4>2. CASE LeaseExpires(j)
        BY <4>2, <3>1 DEF LeaseExpires, Row, TypeOK
      <4> QED  BY <2>3, <4>1, <4>2
    <3> QED  BY <3>2, NoneActivated DEF IsActive
  <2>4. ASSUME jobs' = Requeued(Expired) PROVE UniqueActiveKey'
    <3>1. \A j \in JobIds : jobs[j] \in Row
      BY DEF TypeOK
    <3>2. \A j \in JobIds : /\ jobs'[j].key = jobs[j].key
                            /\ IsActive(j)' => IsActive(j)
      BY <2>4, <3>1 DEF Requeued, Expired, Row, IsActive, ActiveStatus
    <3> QED  BY <3>2, NoneActivated
  <2>5. ASSUME NEW w \in Workers, Start(w) \/ RecoverExpired(w) PROVE UniqueActiveKey'
    BY <2>5, <2>4 DEF Start, RecoverExpired, Recover
  <2>6. ASSUME NEW w \in Workers, Seed(w) PROVE UniqueActiveKey'
    <3>1. ASSUME NEW k \in todo[w], Inserted(k, 0) PROVE UniqueActiveKey'
      <4>1. k \in Keys
        BY KeysAssumption DEF TypeOK
      <4> QED  BY <4>1, <3>1, InsertedUnique
    <3> QED  BY <2>6, <2>0, <3>1 DEF Seed
  <2>7. ASSUME NEW w \in Workers, ClaimRead(w) \/ TakeNone(w) \/ Crash(w) PROVE UniqueActiveKey'
    BY <2>7, <2>0 DEF ClaimRead, TakeNone, Crash
  <2>8. ASSUME NEW w \in Workers, NEW j \in JobIds, Take(w, j) PROVE UniqueActiveKey'
    <3>1. \A i \in JobIds : jobs[i] \in Row
      BY DEF TypeOK
    <3>2. \A i \in JobIds : /\ jobs'[i].key = jobs[i].key
                            /\ IsActive(i)' => IsActive(i)
      BY <2>8, <3>1 DEF Take, Claimable, Row, TypeOK, IsActive, ActiveStatus
    <3> QED  BY <3>2, NoneActivated
  <2>9. ASSUME NEW w \in Workers, Progress(w) PROVE UniqueActiveKey'
    <3>1. \A j \in JobIds : jobs[j] \in Row
      BY DEF TypeOK
    <3>2. \A j \in JobIds : jobs'[j].status = jobs[j].status /\ jobs'[j].key = jobs[j].key
      BY <2>9, <3>1 DEF Progress, Row, TypeOK
    <3> QED  BY <3>2, NoneActivated DEF IsActive
  <2>10. ASSUME NEW w \in Workers, FinishRepeat(w) PROVE UniqueActiveKey'
    <3>1. PICK d \in BOOLEAN :
            Release(w, [Released(handling[w], "pending", d) EXCEPT !.attempts = 0])
      BY <2>10 DEF FinishRepeat
    <3>2. handling[w] \in JobIds =>
            [Released(handling[w], "pending", d) EXCEPT !.attempts = 0].key = jobs[handling[w]].key
      BY ReleasedKey
    <3> QED  BY <3>1, <3>2, ReleaseKeepsKey
  <2>11. ASSUME NEW w \in Workers, FinishDone(w) \/ Fail(w) PROVE UniqueActiveKey'
    BY <2>11, ReleasedKey, ReleaseKeepsKey DEF FinishDone, Fail
  <2>12. ASSUME NEW w \in Workers, Prune(w) PROVE UniqueActiveKey'
    <3>1. \A j \in JobIds : IsActive(j)' => IsActive(j) /\ jobs'[j].key = jobs[j].key
      BY <2>12 DEF Prune, Blank, IsActive, ActiveStatus
    <3> QED  BY <3>1, NoneActivated
  <2>13. ASSUME NEW a \in Admins, NEW j \in JobIds, RetryRead(a, j) \/ CancelRead(a, j)
         PROVE  UniqueActiveKey'
    BY <2>13, <2>0 DEF RetryRead, CancelRead
  <2>14. ASSUME NEW a \in Admins, RetryWrite(a) PROVE UniqueActiveKey'
    <3> DEFINE j == adm[a].id
    <3>1. CASE UNCHANGED jobs
      BY <3>1, <2>0
    <3>2. CASE ~RetryConflict(j) /\ j \in JobIds
               /\ jobs' = [jobs EXCEPT ![j] = [Released(j, "pending", TRUE) EXCEPT !.attempts = 0]]
      <4>1. [Released(j, "pending", TRUE) EXCEPT !.attempts = 0].key = jobs[j].key
        <5>1. jobs[j] \in Row
          BY <3>2 DEF TypeOK
        <5> QED  BY <5>1 DEF Row, Released
      <4>2. \A i \in JobIds : jobs'[i].key = jobs[i].key
        BY <3>2, <4>1 DEF TypeOK
      <4>3. \A i \in JobIds \ {j} : jobs'[i] = jobs[i]
        BY <3>2 DEF TypeOK
      <4>4. \A i \in JobIds \ {j} : IsActive(i)' => jobs'[i].key # jobs'[j].key
        BY <3>2, <4>2, <4>3 DEF RetryConflict, IsActive
      <4> QED  BY <4>2, <4>3, <4>4 DEF UniqueActiveKey, IsActive
    <3>3. j \in JobIds
      BY <2>14 DEF RetryWrite, TypeOK, Write, NoWrite
    <3> QED  BY <2>14, <3>1, <3>2, <3>3 DEF RetryWrite
  <2>15. ASSUME NEW a \in Admins, CancelWrite(a) PROVE UniqueActiveKey'
    <3>1. \A j \in JobIds : Released(j, "cancelled", FALSE).status = "cancelled"
      <4>1. \A j \in JobIds : jobs[j] \in Row
        BY DEF TypeOK
      <4> QED  BY <4>1 DEF Released, Row
    <3>2. \A j \in JobIds : IsActive(j)' => IsActive(j) /\ jobs'[j].key = jobs[j].key
      BY <2>15, <3>1 DEF CancelWrite, TypeOK, IsActive, ActiveStatus
    <3> QED  BY <3>2, NoneActivated
  <2>16. CASE UNCHANGED vars
    BY <2>16, <2>0 DEF vars
  <2> QED
    BY <2>1, <2>2, <2>3, <2>5, <2>6, <2>7, <2>8, <2>9, <2>10, <2>11, <2>12, <2>13, <2>14,
       <2>15, <2>16 DEF Next
<1> QED  BY <1>1, <1>2, TypeCorrect, PTL DEF Spec

-----------------------------------------------------------------------------
(* Leases.                                                                 *)

\* No two worker loops were started with one worker_id.
OneIdEach == \A v, w \in Workers : WorkerId[v] = WorkerId[w] => v = w

\* What a worker that executes a job knows of it: the guard of its writes is
\* exact, and while the job is its own the attempts it read are current.
WorkerLease(w) ==
    Executing(w) =>
        /\ handling[w] \in JobIds
        /\ interrupted[w] <=> ~Owns(w, handling[w])
        /\ ~interrupted[w] => tries[w] = jobs[handling[w]].attempts

LeaseInv == \A w \in Workers : WorkerLease(w)

\* A step that leaves a worker alone, and the status, owner and attempts of the
\* job it executes, keeps its lease fact.
LEMMA WorkerFrame ==
    ASSUME NEW w \in Workers, WorkerLease(w),
           pc'[w] = pc[w], handling'[w] = handling[w],
           tries'[w] = tries[w], interrupted'[w] = interrupted[w],
           Executing(w) => /\ jobs'[handling[w]].status = jobs[handling[w]].status
                           /\ jobs'[handling[w]].owner = jobs[handling[w]].owner
                           /\ jobs'[handling[w]].attempts = jobs[handling[w]].attempts
    PROVE  WorkerLease(w)'
BY DEF WorkerLease, Executing, Owns

\* A worker that is not executing after a step has nothing to keep.
LEMMA NotExecuting ==
    ASSUME NEW w \in Workers, pc'[w] \notin {"claimed", "working"}
    PROVE  WorkerLease(w)'
BY DEF WorkerLease, Executing

\* An enqueue touches no row that a worker remembers.
LEMMA InsertedFrame ==
    ASSUME TypeOK, NEW k, NEW p, Inserted(k, p), NEW w \in Workers, handling[w] \in JobIds
    PROVE  jobs'[handling[w]] = jobs[handling[w]]
<1>1. CASE ActiveKey(k)
  BY <1>1 DEF Inserted
<1>2. CASE ~ActiveKey(k)
  BY <1>2 DEF Inserted, FreshId, TypeOK
<1> QED  BY <1>1, <1>2

\* Whoever loses its job to a takeover of S is marked, and nobody else is.
LEMMA TakenOver ==
    ASSUME TypeOK, LeaseInv, NEW S \in SUBSET JobIds,
           \A j \in S : jobs'[j].status # "running",
           \A j \in JobIds \ S : jobs'[j] = jobs[j],
           interrupted' = InterruptedBy(S),
           NEW w \in Workers,
           pc'[w] = pc[w], handling'[w] = handling[w], tries'[w] = tries[w]
    PROVE  WorkerLease(w)'
<1> SUFFICES ASSUME Executing(w) PROVE WorkerLease(w)'
  BY DEF WorkerLease, Executing
<1>1. WorkerLease(w) /\ handling[w] \in JobIds
  BY DEF LeaseInv, WorkerLease
<1>2. interrupted'[w] = (interrupted[w] \/ handling[w] \in S)
  BY DEF InterruptedBy
<1>3. CASE handling[w] \in S
  <2>1. ~Owns(w, handling[w])' /\ interrupted'[w]
    BY <1>2, <1>3 DEF Owns
  <2> QED  BY <2>1, <1>1 DEF WorkerLease
<1>4. CASE handling[w] \notin S
  <2>1. interrupted'[w] = interrupted[w]
    BY <1>2, <1>4 DEF TypeOK
  <2>2. jobs'[handling[w]] = jobs[handling[w]]
    BY <1>1, <1>4
  <2> QED  BY <1>1, <2>1, <2>2, WorkerFrame
<1> QED  BY <1>3, <1>4

\* The end of one handler disturbs no other execution: its guarded write
\* touches only a row it owns, which no other worker owns.
LEMMA ReleaseFrame ==
    ASSUME OneIdEach, TypeOK, LeaseInv, NEW w \in Workers, NEW written, Release(w, written),
           handling[w] \in JobIds => written.owner = NoOne,
           NEW v \in Workers
    PROVE  WorkerLease(v)'
<1>1. CASE v = w
  BY <1>1, NotExecuting DEF Release, TypeOK
<1>2. CASE v # w
  <2>1. /\ pc'[v] = pc[v] /\ handling'[v] = handling[v]
        /\ tries'[v] = tries[v] /\ interrupted'[v] = interrupted[v]
    BY <1>2 DEF Release, TypeOK
  <2>2. WorkerLease(v) /\ WorkerLease(w)
    BY DEF LeaseInv
  <2>3. CASE Executing(v) /\ Owns(w, handling[w]) /\ handling[v] = handling[w]
    <3>1. handling[w] \in JobIds /\ jobs[handling[w]].owner = WorkerId[w]
      BY <2>2, <2>3 DEF Release, WorkerLease, Owns
    <3>2. WorkerId[v] # WorkerId[w]
      BY <1>2 DEF OneIdEach
    <3>3. interrupted[v]
      BY <2>2, <2>3, <3>1, <3>2 DEF WorkerLease, Owns
    <3>4. jobs'[handling[v]].owner = NoOne
      BY <2>3, <3>1 DEF Release, TypeOK
    <3>5. ~Owns(v, handling[v])'
      BY <3>4, <2>1, WorkerIdAssumption, NoOneAssumption DEF Owns
    <3> QED  BY <2>1, <2>3, <3>1, <3>3, <3>5 DEF WorkerLease
  <2>4. CASE ~(Executing(v) /\ Owns(w, handling[w]) /\ handling[v] = handling[w])
    <3>1. Executing(v) => jobs'[handling[v]] = jobs[handling[v]]
      BY <2>2, <2>4 DEF Release, TypeOK, WorkerLease
    <3> QED  BY <2>1, <2>2, <3>1, WorkerFrame
  <2> QED  BY <2>3, <2>4
<1> QED  BY <1>1, <1>2

\* The step case of the lease invariant, one action at a time.
LEMMA LeaseStep ==
    ASSUME OneIdEach, TypeOK, LeaseInv, [Next]_vars
    PROVE  LeaseInv'
<1> SUFFICES ASSUME NEW v \in Workers PROVE WorkerLease(v)'
  BY DEF LeaseInv
<1> USE DEF workerVars
<1>0. WorkerLease(v) /\ (Executing(v) => handling[v] \in JobIds)
  BY DEF LeaseInv, WorkerLease
<1>a. \A j \in JobIds : jobs[j] \in Row
  BY DEF TypeOK
<1>b. ASSUME UNCHANGED jobs, pc'[v] = pc[v], handling'[v] = handling[v],
             tries'[v] = tries[v], interrupted'[v] = interrupted[v]
      PROVE  WorkerLease(v)'
  BY <1>b, <1>0, WorkerFrame
<1>c. ASSUME jobs' = Requeued(Expired), interrupted' = InterruptedBy(Expired),
             pc'[v] = pc[v], handling'[v] = handling[v], tries'[v] = tries[v]
      PROVE  WorkerLease(v)'
  <2>1. \A j \in Expired : jobs'[j].status # "running"
    BY <1>c, <1>a DEF Requeued, Expired, Row
  <2>2. \A j \in JobIds \ Expired : jobs'[j] = jobs[j]
    BY <1>c DEF Requeued
  <2>3. Expired \in SUBSET JobIds
    BY DEF Expired
  <2> QED  BY <1>c, <2>1, <2>2, <2>3, TakenOver
<1>1. ASSUME NEW k \in Keys, Enqueue(k) PROVE WorkerLease(v)'
  BY <1>1, <1>0, InsertedFrame, WorkerFrame DEF Enqueue
<1>2. ASSUME NEW k \in Keys, Expedite(k) PROVE WorkerLease(v)'
  <2>1. \A j \in JobIds : jobs'[j] \in {jobs[j], [jobs[j] EXCEPT !.due = TRUE]}
    BY <1>2 DEF Expedite
  <2>2. \A j \in JobIds : /\ jobs'[j].status = jobs[j].status
                          /\ jobs'[j].owner = jobs[j].owner
                          /\ jobs'[j].attempts = jobs[j].attempts
    BY <2>1, <1>a DEF Row
  <2> QED  BY <1>2, <1>0, <2>2, WorkerFrame DEF Expedite
<1>3. ASSUME NEW j \in JobIds, BecomesDue(j) PROVE WorkerLease(v)'
  <2>1. \A i \in JobIds : /\ jobs'[i].status = jobs[i].status
                          /\ jobs'[i].owner = jobs[i].owner
                          /\ jobs'[i].attempts = jobs[i].attempts
    BY <1>3, <1>a DEF BecomesDue, Row, TypeOK
  <2> QED  BY <1>3, <1>0, <2>1, WorkerFrame DEF BecomesDue
<1>4. ASSUME NEW j \in JobIds, LeaseExpires(j) PROVE WorkerLease(v)'
  <2>1. \A i \in JobIds : /\ jobs'[i].status = jobs[i].status
                          /\ jobs'[i].owner = jobs[i].owner
                          /\ jobs'[i].attempts = jobs[i].attempts
    BY <1>4, <1>a DEF LeaseExpires, Row, TypeOK
  <2> QED  BY <1>4, <1>0, <2>1, WorkerFrame DEF LeaseExpires
<1>5. ASSUME NEW w \in Workers, Start(w) PROVE WorkerLease(v)'
  <2>1. CASE v = w
    BY <1>5, <2>1, NotExecuting DEF Start, Recover, TypeOK
  <2>2. CASE v # w
    BY <1>5, <2>2, <1>c DEF Start, Recover, TypeOK
  <2> QED  BY <2>1, <2>2
<1>6. ASSUME NEW w \in Workers, Seed(w) PROVE WorkerLease(v)'
  <2>1. CASE v = w
    BY <1>6, <2>1, NotExecuting DEF Seed, TypeOK
  <2>2. CASE v # w /\ UNCHANGED jobs
    BY <1>6, <2>2, <1>b DEF Seed, TypeOK
  <2>3. ASSUME v # w, NEW k \in todo[w], Inserted(k, 0), UNCHANGED pc
        PROVE  WorkerLease(v)'
    BY <1>6, <2>3, <1>0, InsertedFrame, WorkerFrame DEF Seed
  <2> QED  BY <1>6, <2>1, <2>2, <2>3 DEF Seed
<1>7. ASSUME NEW w \in Workers, RecoverExpired(w) PROVE WorkerLease(v)'
  <2>1. CASE v = w
    BY <1>7, <2>1, NotExecuting DEF RecoverExpired, Recover, TypeOK
  <2>2. CASE v # w
    BY <1>7, <2>2, <1>c DEF RecoverExpired, Recover, TypeOK
  <2> QED  BY <2>1, <2>2
<1>8. ASSUME NEW w \in Workers, ClaimRead(w) \/ TakeNone(w) PROVE WorkerLease(v)'
  <2>1. CASE v = w
    BY <1>8, <2>1, NotExecuting DEF ClaimRead, TakeNone, TypeOK
  <2>2. CASE v # w
    BY <1>8, <2>2, <1>b DEF ClaimRead, TakeNone, TypeOK
  <2> QED  BY <2>1, <2>2
<1>9. ASSUME NEW w \in Workers, NEW j \in JobIds, Take(w, j) PROVE WorkerLease(v)'
  <2>1. /\ jobs'[j].status = "running" /\ jobs'[j].owner = WorkerId[w]
        /\ jobs'[j].attempts = jobs[j].attempts + 1
    BY <1>9, <1>a DEF Take, Row, TypeOK
  <2>2. CASE v = w
    BY <1>9, <2>1, <2>2 DEF Take, TypeOK, WorkerLease, Owns
  <2>3. CASE v # w
    <3>1. /\ pc'[v] = pc[v] /\ handling'[v] = handling[v]
          /\ tries'[v] = tries[v] /\ interrupted'[v] = interrupted[v]
      BY <1>9, <2>3 DEF Take, TypeOK
    <3>2. CASE Executing(v) /\ handling[v] = j
      <4>1. interrupted[v]
        BY <1>9, <1>0, <3>2 DEF Take, Claimable, WorkerLease, Owns
      <4>2. ~Owns(v, j)'
        BY <2>1, <2>3 DEF Owns, OneIdEach
      <4> QED  BY <3>1, <3>2, <4>1, <4>2 DEF WorkerLease
    <3>3. CASE ~(Executing(v) /\ handling[v] = j)
      <4>1. Executing(v) => jobs'[handling[v]] = jobs[handling[v]]
        BY <1>9, <1>0, <3>3 DEF Take, TypeOK
      <4> QED  BY <1>0, <3>1, <4>1, WorkerFrame
    <3> QED  BY <3>2, <3>3
  <2> QED  BY <2>2, <2>3
<1>10. ASSUME NEW w \in Workers, Progress(w) PROVE WorkerLease(v)'
  <2>1. \A i \in JobIds : /\ jobs'[i].status = jobs[i].status
                          /\ jobs'[i].owner = jobs[i].owner
                          /\ jobs'[i].attempts = jobs[i].attempts
    BY <1>10, <1>a DEF Progress, Row, TypeOK
  <2>2. CASE v = w
    BY <1>10, <1>0, <2>1, <2>2 DEF Progress, WorkerLease, Executing, Owns
  <2>3. CASE v # w
    BY <1>10, <1>0, <2>1, <2>3, WorkerFrame DEF Progress, TypeOK
  <2> QED  BY <2>2, <2>3
<1>11. ASSUME NEW w \in Workers, FinishRepeat(w) PROVE WorkerLease(v)'
  <2>1. PICK d \in BOOLEAN :
          Release(w, [Released(handling[w], "pending", d) EXCEPT !.attempts = 0])
    BY <1>11 DEF FinishRepeat
  <2>2. handling[w] \in JobIds =>
          [Released(handling[w], "pending", d) EXCEPT !.attempts = 0].owner = NoOne
    BY <1>a DEF Released, Row
  <2> QED  BY <2>1, <2>2, ReleaseFrame
<1>12. ASSUME NEW w \in Workers, FinishDone(w) \/ Fail(w) PROVE WorkerLease(v)'
  <2>1. \A s : handling[w] \in JobIds => Released(handling[w], s, FALSE).owner = NoOne
    BY <1>a DEF Released, Row
  <2> QED  BY <1>12, <2>1, ReleaseFrame DEF FinishDone, Fail
<1>13. ASSUME NEW w \in Workers, Prune(w) PROVE WorkerLease(v)'
  <2>1. PICK S \in SUBSET {j \in JobIds : jobs[j].status \in TerminalStatus} :
          jobs' = [j \in JobIds |-> IF j \in S THEN Blank("absent") ELSE jobs[j]]
    BY <1>13 DEF Prune
  <2>2. CASE Executing(v) /\ handling[v] \in S
    <3>1. interrupted[v]
      BY <1>0, <2>1, <2>2 DEF WorkerLease, Owns, TerminalStatus
    <3>2. jobs'[handling[v]] = Blank("absent")
      BY <1>0, <2>1, <2>2
    <3>3. ~Owns(v, handling[v])'
      BY <1>13, <3>2 DEF Prune, Owns, Blank
    <3> QED  BY <1>13, <1>0, <2>2, <3>1, <3>3 DEF Prune, WorkerLease
  <2>3. CASE ~(Executing(v) /\ handling[v] \in S)
    <3>1. Executing(v) => jobs'[handling[v]] = jobs[handling[v]]
      BY <1>0, <2>1, <2>3
    <3> QED  BY <1>13, <1>0, <3>1, WorkerFrame DEF Prune
  <2> QED  BY <2>2, <2>3
<1>14. ASSUME NEW w \in Workers, Crash(w) PROVE WorkerLease(v)'
  <2>1. CASE v = w
    BY <1>14, <2>1, NotExecuting DEF Crash, TypeOK
  <2>2. CASE v # w
    BY <1>14, <2>2, <1>b DEF Crash, TypeOK
  <2> QED  BY <2>1, <2>2
<1>15. ASSUME NEW a \in Admins, NEW j \in JobIds, RetryRead(a, j) \/ CancelRead(a, j)
       PROVE  WorkerLease(v)'
  BY <1>15, <1>b DEF RetryRead, CancelRead
<1>d. ASSUME NEW j \in JobIds, NEW w, w.status # "running",
             jobs' = [jobs EXCEPT ![j] = w], interrupted' = InterruptedBy({j}),
             pc'[v] = pc[v], handling'[v] = handling[v], tries'[v] = tries[v]
      PROVE  WorkerLease(v)'
  <2>1. {j} \in SUBSET JobIds
    OBVIOUS
  <2>2. \A i \in {j} : jobs'[i].status # "running"
    BY <1>d DEF TypeOK
  <2>3. \A i \in JobIds \ {j} : jobs'[i] = jobs[i]
    BY <1>d DEF TypeOK
  <2> QED  BY <1>d, <2>1, <2>2, <2>3, TakenOver
<1>16. ASSUME NEW a \in Admins, RetryWrite(a) PROVE WorkerLease(v)'
  <2> DEFINE j == adm[a].id
             w == [Released(j, "pending", TRUE) EXCEPT !.attempts = 0]
  <2>1. CASE UNCHANGED <<jobs, interrupted>>
    BY <1>16, <2>1, <1>b DEF RetryWrite
  <2>2. CASE jobs' = [jobs EXCEPT ![j] = w] /\ interrupted' = InterruptedBy({j})
    <3>1. j \in JobIds
      BY <1>16 DEF RetryWrite, TypeOK, Write, NoWrite
    <3>2. w.status = "pending"
      BY <3>1, <1>a DEF Released, Row
    <3> QED  BY <1>16, <2>2, <3>1, <3>2, <1>d DEF RetryWrite
  <2> QED  BY <1>16, <2>1, <2>2 DEF RetryWrite
<1>17. ASSUME NEW a \in Admins, CancelWrite(a) PROVE WorkerLease(v)'
  <2> DEFINE j == adm[a].id
  <2>1. CASE UNCHANGED <<jobs, interrupted>>
    BY <1>17, <2>1, <1>b DEF CancelWrite
  <2>2. CASE /\ jobs' = [jobs EXCEPT ![j] = Released(j, "cancelled", FALSE)]
             /\ interrupted' = InterruptedBy({j})
    <3>1. j \in JobIds
      BY <1>17 DEF CancelWrite, TypeOK, Write, NoWrite
    <3>2. Released(j, "cancelled", FALSE).status = "cancelled"
      BY <3>1, <1>a DEF Released, Row
    <3> QED  BY <1>17, <2>2, <3>1, <3>2, <1>d DEF CancelWrite
  <2> QED  BY <1>17, <2>1, <2>2 DEF CancelWrite
<1>18. CASE UNCHANGED vars
  BY <1>18, <1>b DEF vars
<1> QED
  BY <1>1, <1>2, <1>3, <1>4, <1>5, <1>6, <1>7, <1>8, <1>9, <1>10, <1>11, <1>12, <1>13,
     <1>14, <1>15, <1>16, <1>17, <1>18 DEF Next

\* The lease invariant holds in every reachable state.
LEMMA LeaseInvariant ==
    ASSUME OneIdEach PROVE Spec => []LeaseInv
<1>1. Init => LeaseInv
  BY DEF Init, LeaseInv, WorkerLease, Executing
<1>2. TypeOK /\ LeaseInv /\ [Next]_vars => LeaseInv'
  BY LeaseStep
<1> QED  BY <1>1, <1>2, TypeCorrect, PTL DEF Spec

\* If no two worker loops share a worker_id, the guard of a worker's writes
\* holds exactly while the job is its own (the run shared_worker_id shows that
\* the assumption is needed).
THEOREM LeaseGuardCorrect ==
    ASSUME OneIdEach PROVE Spec => []LeaseGuardExact
<1>1. LeaseInv => LeaseGuardExact
  BY DEF LeaseInv, WorkerLease, LeaseGuardExact
<1> QED  BY <1>1, LeaseInvariant, PTL

\* Then two handlers never run under one key at once, unless the queue took
\* the job away from one of them.
THEOREM NoOverlapCorrect ==
    ASSUME OneIdEach PROVE Spec => []NoOverlap
<1>1. LeaseInv /\ UniqueActiveKey => NoOverlap
  <2> SUFFICES ASSUME LeaseInv, UniqueActiveKey, NEW v \in Workers, NEW w \in Workers,
                      v # w, Executing(v), Executing(w), ~interrupted[v], ~interrupted[w],
                      jobs[handling[v]].key = jobs[handling[w]].key
               PROVE  FALSE
    BY DEF NoOverlap
  <2>1. /\ handling[v] \in JobIds /\ Owns(v, handling[v])
        /\ handling[w] \in JobIds /\ Owns(w, handling[w])
    BY DEF LeaseInv, WorkerLease
  <2>2. handling[v] = handling[w]
    BY <2>1 DEF UniqueActiveKey, IsActive, ActiveStatus, Owns
  <2>3. WorkerId[v] = WorkerId[w]
    BY <2>1, <2>2 DEF Owns
  <2> QED  BY <2>3 DEF OneIdEach
<1> QED  BY <1>1, LeaseInvariant, UniqueActiveKeyCorrect, PTL

-----------------------------------------------------------------------------
(* The attempt budget.                                                     *)

\* How many attempts a row may show in each status.  A lease that expires
\* counts before the recovery that spends it.
RowBudget(row) ==
    /\ row.attempts <= MaxAttempts + expiries
    /\ row.status = "pending" => row.attempts < MaxAttempts + expiries
    /\ row.status = "running" /\ row.lease = "expired" => row.attempts < MaxAttempts + expiries
    /\ row.status = "failed" => row.attempts >= MaxAttempts

Budget == \A j \in JobIds : RowBudget(jobs[j])

\* A step that grants no expiry keeps the budget of every row it leaves alone.
LEMMA BudgetFrame ==
    ASSUME Budget, expiries' = expiries,
           \A j \in JobIds : jobs'[j] = jobs[j] \/ RowBudget(jobs'[j])
    PROVE  Budget'
BY DEF Budget, RowBudget

\* Any row has the budget of a fresh one.
LEMMA FreshBudget ==
    ASSUME TypeOK, NEW row \in Row, row.attempts = 0, row.status # "failed"
    PROVE  RowBudget(row)
BY AttemptsAssumption DEF TypeOK, RowBudget, Row

\* An enqueue adds a fresh row.
LEMMA InsertedBudget ==
    ASSUME TypeOK, Budget, NEW k \in Keys, NEW p \in Nat, Inserted(k, p), expiries' = expiries
    PROVE  Budget'
<1>1. CASE ActiveKey(k)
  BY <1>1, BudgetFrame DEF Inserted
<1>2. CASE ~ActiveKey(k)
  <2>1. PICK j \in JobIds, d \in BOOLEAN :
          jobs' = [jobs EXCEPT ![j] = [Blank("pending") EXCEPT
                                         !.key = k, !.priority = p, !.due = d]]
    BY <1>2 DEF Inserted
  <2> DEFINE row == [Blank("pending") EXCEPT !.key = k, !.priority = p, !.due = d]
  <2>2. row \in Row /\ row.attempts = 0 /\ row.status = "pending"
    BY DEF Blank, Row, RowStatus, ActiveStatus
  <2>3. RowBudget(row)
    BY <2>2, FreshBudget
  <2>4. \A i \in JobIds : jobs'[i] = jobs[i] \/ jobs'[i] = row
    BY <2>1 DEF TypeOK
  <2> QED  BY <2>3, <2>4, BudgetFrame
<1> QED  BY <1>1, <1>2

\* The end of a handler writes at most one row.
LEMMA ReleaseBudget ==
    ASSUME TypeOK, Budget, NEW w \in Workers, NEW written, Release(w, written),
           handling[w] \in JobIds /\ Owns(w, handling[w]) => RowBudget(written)
    PROVE  Budget'
<1>1. \A j \in JobIds : jobs'[j] = jobs[j] \/ RowBudget(jobs'[j])
  BY DEF Release, TypeOK
<1> QED  BY <1>1, BudgetFrame DEF Release

\* Every step keeps the budget; a failure is decided from the attempts read at
\* the claim, so this rests on the lease invariant.
LEMMA BudgetStep ==
    ASSUME TypeOK, LeaseInv, Budget, [Next]_vars
    PROVE  Budget'
<1> USE DEF workerVars
<1>a. \A j \in JobIds : jobs[j] \in Row /\ RowBudget(jobs[j])
  BY DEF TypeOK, Budget
<1>b. expiries \in Nat /\ MaxAttempts \in Nat \ {0}
  BY AttemptsAssumption DEF TypeOK
<1>c. ASSUME UNCHANGED <<jobs, expiries>> PROVE Budget'
  BY <1>c, BudgetFrame
<1>d. ASSUME jobs' = Requeued(Expired), expiries' = expiries PROVE Budget'
  <2>1. ASSUME NEW j \in JobIds PROVE jobs'[j] = jobs[j] \/ RowBudget(jobs'[j])
    <3>1. CASE j \in Expired
      <4>1. jobs'[j].status = "pending" /\ jobs'[j].attempts = jobs[j].attempts
        BY <1>d, <3>1, <1>a DEF Requeued, Row
      <4>2. jobs[j].attempts < MaxAttempts + expiries /\ jobs[j].attempts \in Nat
        BY <3>1, <1>a DEF Expired, RowBudget, Row
      <4> QED  BY <4>1, <4>2, <1>b DEF RowBudget
    <3>2. CASE j \notin Expired
      BY <1>d, <3>2 DEF Requeued
    <3> QED  BY <3>1, <3>2
  <2> QED  BY <1>d, <2>1, BudgetFrame
<1>1. ASSUME NEW k \in Keys, Enqueue(k) PROVE Budget'
  BY <1>1, InsertedBudget, PriorityAssumption DEF Enqueue
<1>2. ASSUME NEW k \in Keys, Expedite(k) PROVE Budget'
  <2>1. \A j \in JobIds : jobs'[j] \in {jobs[j], [jobs[j] EXCEPT !.due = TRUE]}
    BY <1>2 DEF Expedite
  <2>2. \A j \in JobIds : RowBudget([jobs[j] EXCEPT !.due = TRUE])
    BY <1>a DEF RowBudget, Row
  <2> QED  BY <1>2, <2>1, <2>2, BudgetFrame DEF Expedite
<1>3. ASSUME NEW j \in JobIds, BecomesDue(j) PROVE Budget'
  <2>1. RowBudget([jobs[j] EXCEPT !.due = TRUE])
    BY <1>a DEF RowBudget, Row
  <2>2. \A i \in JobIds : jobs'[i] = jobs[i] \/ jobs'[i] = [jobs[j] EXCEPT !.due = TRUE]
    BY <1>3 DEF BecomesDue, TypeOK
  <2> QED  BY <1>3, <2>1, <2>2, BudgetFrame DEF BecomesDue
<1>4. ASSUME NEW j \in JobIds, LeaseExpires(j) PROVE Budget'
  <2>1. ASSUME NEW i \in JobIds PROVE RowBudget(jobs[i])'
    <3>1. /\ jobs'[i].attempts = jobs[i].attempts /\ jobs[i].attempts \in Nat
          /\ jobs'[i].status = jobs[i].status
      BY <1>4, <1>a DEF LeaseExpires, Row, TypeOK
    <3>2. expiries' = expiries + 1 /\ jobs[i].attempts <= MaxAttempts + expiries
      BY <1>4, <1>a DEF LeaseExpires, RowBudget
    <3> QED  BY <1>a, <1>b, <3>1, <3>2 DEF RowBudget
  <2> QED  BY <2>1 DEF Budget
<1>5. ASSUME NEW w \in Workers, Start(w) \/ RecoverExpired(w) PROVE Budget'
  BY <1>5, <1>d DEF Start, RecoverExpired, Recover
<1>6. ASSUME NEW w \in Workers, Seed(w) PROVE Budget'
  <2>1. ASSUME NEW k \in todo[w], Inserted(k, 0) PROVE Budget'
    <3>1. k \in Keys /\ expiries' = expiries
      BY <1>6, KeysAssumption DEF TypeOK, Seed
    <3> QED  BY <2>1, <3>1, InsertedBudget
  <2> QED  BY <1>6, <1>c, <2>1 DEF Seed
<1>7. ASSUME NEW w \in Workers, ClaimRead(w) \/ TakeNone(w) \/ Crash(w) PROVE Budget'
  BY <1>7, <1>c DEF ClaimRead, TakeNone, Crash
<1>8. ASSUME NEW w \in Workers, NEW j \in JobIds, Take(w, j) PROVE Budget'
  <2>1. /\ jobs'[j].attempts = jobs[j].attempts + 1 /\ jobs'[j].status = "running"
        /\ jobs'[j].lease = "live" /\ jobs[j].attempts \in Nat
    BY <1>8, <1>a DEF Take, Row, TypeOK
  <2>2. jobs[j].attempts < MaxAttempts + expiries
    BY <1>8, <1>a DEF Take, Claimable, RowBudget
  <2>3. RowBudget(jobs'[j])
    BY <2>1, <2>2, <1>b DEF RowBudget
  <2>4. \A i \in JobIds : jobs'[i] = jobs[i] \/ i = j
    BY <1>8 DEF Take, TypeOK
  <2> QED  BY <1>8, <2>3, <2>4, BudgetFrame DEF Take
<1>9. ASSUME NEW w \in Workers, Progress(w) PROVE Budget'
  <2>1. \A j \in JobIds : RowBudget([jobs[j] EXCEPT !.lease = "live"])
    BY <1>a DEF RowBudget, Row
  <2>2. \A j \in JobIds : jobs'[j] = jobs[j] \/ jobs'[j] = [jobs[j] EXCEPT !.lease = "live"]
    BY <1>9 DEF Progress, TypeOK
  <2> QED  BY <1>9, <2>1, <2>2, BudgetFrame DEF Progress
<1>10. ASSUME NEW w \in Workers, FinishRepeat(w) PROVE Budget'
  <2>1. PICK d \in BOOLEAN :
          Release(w, [Released(handling[w], "pending", d) EXCEPT !.attempts = 0])
    BY <1>10 DEF FinishRepeat
  <2> DEFINE row == [Released(handling[w], "pending", d) EXCEPT !.attempts = 0]
  <2>2. handling[w] \in JobIds => row.attempts = 0 /\ row.status = "pending"
    BY <1>a DEF Released, Row
  <2>3. handling[w] \in JobIds => RowBudget(row)
    BY <2>2, <1>b DEF RowBudget
  <2> QED  BY <2>1, <2>3, ReleaseBudget
<1>11. ASSUME NEW w \in Workers, FinishDone(w) PROVE Budget'
  <2> DEFINE row == Released(handling[w], "succeeded", FALSE)
  <2>1. handling[w] \in JobIds => row.attempts = jobs[handling[w]].attempts /\ row.status = "succeeded"
    BY <1>a DEF Released, Row
  <2>2. handling[w] \in JobIds => RowBudget(row)
    BY <2>1, <1>a DEF RowBudget
  <2> QED  BY <1>11, <2>2, ReleaseBudget DEF FinishDone
<1>12. ASSUME NEW w \in Workers, Fail(w) PROVE Budget'
  <2> DEFINE s == IF tries[w] < MaxAttempts THEN "pending" ELSE "failed"
             row == Released(handling[w], s, FALSE)
  <2>1. ASSUME handling[w] \in JobIds, Owns(w, handling[w]) PROVE RowBudget(row)
    <3>1. tries[w] = jobs[handling[w]].attempts
      BY <1>12, <2>1 DEF Fail, Release, LeaseInv, WorkerLease
    <3>2. row.attempts = tries[w] /\ row.status = s /\ row.lease = "none"
      BY <2>1, <3>1, <1>a DEF Released, Row
    <3>3. tries[w] \in Nat /\ tries[w] <= MaxAttempts + expiries
      BY <2>1, <3>1, <1>a DEF RowBudget, TypeOK
    <3> HIDE DEF row
    <3> QED  BY <3>2, <3>3, <1>b DEF RowBudget
  <2>2. Release(w, row)
    BY <1>12 DEF Fail
  <2> HIDE DEF row
  <2> QED  BY <2>1, <2>2, ReleaseBudget
<1>13. ASSUME NEW w \in Workers, Prune(w) PROVE Budget'
  <2>1. Blank("absent").attempts = 0 /\ Blank("absent").status = "absent"
    BY DEF Blank
  <2>2. RowBudget(Blank("absent"))
    BY <2>1, <1>b DEF RowBudget
  <2>3. \A j \in JobIds : jobs'[j] = jobs[j] \/ jobs'[j] = Blank("absent")
    BY <1>13 DEF Prune
  <2> QED  BY <1>13, <2>2, <2>3, BudgetFrame DEF Prune
<1>14. ASSUME NEW a \in Admins, NEW j \in JobIds, RetryRead(a, j) \/ CancelRead(a, j)
       PROVE  Budget'
  BY <1>14, <1>c DEF RetryRead, CancelRead
<1>15. ASSUME NEW a \in Admins, RetryWrite(a) PROVE Budget'
  <2> DEFINE j == adm[a].id
             row == [Released(j, "pending", TRUE) EXCEPT !.attempts = 0]
  <2>1. j \in JobIds
    BY <1>15 DEF RetryWrite, TypeOK, Write, NoWrite
  <2>2. row.attempts = 0 /\ row.status = "pending"
    BY <2>1, <1>a DEF Released, Row
  <2>4. \A i \in JobIds : jobs'[i] = jobs[i] \/ jobs'[i] = row
    BY <1>15 DEF RetryWrite, TypeOK
  <2> HIDE DEF row
  <2>3. RowBudget(row)
    BY <2>2, <1>b DEF RowBudget
  <2>5. expiries' = expiries
    BY <1>15 DEF RetryWrite
  <2> QED  BY <2>3, <2>4, <2>5, BudgetFrame
<1>16. ASSUME NEW a \in Admins, CancelWrite(a) PROVE Budget'
  <2> DEFINE j == adm[a].id
             row == Released(j, "cancelled", FALSE)
  <2>1. j \in JobIds
    BY <1>16 DEF CancelWrite, TypeOK, Write, NoWrite
  <2>2. row.attempts = jobs[j].attempts /\ row.status = "cancelled"
    BY <2>1, <1>a DEF Released, Row
  <2>3. RowBudget(row)
    BY <2>1, <2>2, <1>a DEF RowBudget
  <2>4. \A i \in JobIds : jobs'[i] = jobs[i] \/ jobs'[i] = row
    BY <1>16 DEF CancelWrite, TypeOK
  <2> QED  BY <1>16, <2>3, <2>4, BudgetFrame DEF CancelWrite
<1>17. CASE UNCHANGED vars
  BY <1>17, <1>c DEF vars
<1> QED
  BY <1>1, <1>2, <1>3, <1>4, <1>5, <1>6, <1>7, <1>8, <1>9, <1>10, <1>11, <1>12, <1>13,
     <1>14, <1>15, <1>16, <1>17 DEF Next

\* The budget of every row holds in every reachable state.
LEMMA BudgetInvariant ==
    ASSUME OneIdEach PROVE Spec => []Budget
<1>1. Init => Budget
  <2> SUFFICES ASSUME Init, NEW j \in JobIds PROVE RowBudget(jobs[j])
    BY DEF Budget
  <2>1. jobs[j].attempts = 0 /\ jobs[j].status = "absent" /\ expiries = 0
    BY DEF Init, Blank
  <2> QED  BY <2>1, AttemptsAssumption DEF RowBudget
<1>2. TypeOK /\ LeaseInv /\ Budget /\ [Next]_vars => Budget'
  BY BudgetStep
<1> QED  BY <1>1, <1>2, TypeCorrect, LeaseInvariant, PTL DEF Spec

\* A worker marks a job failed only after all its attempts, and an expired lease
\* buys a job at most one attempt beyond max_attempts.
THEOREM AttemptsSpentCorrect ==
    ASSUME OneIdEach PROVE Spec => []AttemptsSpent
<1>1. Budget => AttemptsSpent
  BY DEF Budget, RowBudget, AttemptsSpent
<1> QED  BY <1>1, BudgetInvariant, PTL

-----------------------------------------------------------------------------
(* What one step may do to a row.                                          *)

\* An active row stays active under its key, fails or is cancelled, or succeeds
\* where it may.
KeepsSchedule(j) ==
    IsActive(j) =>
       \/ IsActive(j)' /\ jobs'[j].key = jobs[j].key
       \/ jobs'[j].status \in {"failed", "cancelled"}
       \/ jobs[j].key \notin SystemKeys
\* A cancelled row stays, is pruned, or is revived by a retry.
KeepsCancellation(j) ==
    jobs[j].status = "cancelled" =>
       \/ jobs'[j].status \in {"cancelled", "absent"}
       \/ jobs'[j].status = "pending" /\ \E a \in Admins : adm[a].op = "retry"
RowFate == \A j \in JobIds : KeepsSchedule(j) /\ KeepsCancellation(j)

\* A row that keeps status and key has no fate.
LEMMA FateFrame ==
    ASSUME NEW j \in JobIds, jobs'[j].status = jobs[j].status, jobs'[j].key = jobs[j].key
    PROVE  KeepsSchedule(j) /\ KeepsCancellation(j)
BY DEF KeepsSchedule, KeepsCancellation, IsActive

\* A row that stays active under its key may do so.
LEMMA FateActive ==
    ASSUME NEW j \in JobIds, jobs[j].status \in ActiveStatus, jobs'[j].status \in ActiveStatus,
           jobs'[j].key = jobs[j].key
    PROVE  KeepsSchedule(j) /\ KeepsCancellation(j)
BY DEF KeepsSchedule, KeepsCancellation, IsActive, ActiveStatus

\* Recovery touches running rows only.
LEMMA RequeuedFate ==
    ASSUME TypeOK, jobs' = Requeued(Expired) PROVE RowFate
<1> SUFFICES ASSUME NEW j \in JobIds PROVE KeepsSchedule(j) /\ KeepsCancellation(j)
  BY DEF RowFate
<1>a. jobs[j] \in Row
  BY DEF TypeOK
<1>1. CASE j \in Expired
  <2>1. jobs'[j].status = "pending" /\ jobs'[j].key = jobs[j].key /\ jobs[j].status = "running"
    BY <1>1, <1>a DEF Requeued, Expired, Row
  <2> QED  BY <2>1, FateActive DEF ActiveStatus
<1>2. CASE j \notin Expired
  <2>1. jobs'[j] = jobs[j]
    BY <1>2 DEF Requeued
  <2> QED  BY <2>1, FateFrame
<1> QED  BY <1>1, <1>2

\* An insertion uses a row that is absent.
LEMMA InsertedFate ==
    ASSUME TypeOK, NEW k \in Keys, NEW p \in Nat, Inserted(k, p) PROVE RowFate
<1> SUFFICES ASSUME NEW j \in JobIds PROVE KeepsSchedule(j) /\ KeepsCancellation(j)
  BY DEF RowFate
<1>1. CASE ActiveKey(k)
  BY <1>1, FateFrame DEF Inserted
<1>2. CASE ~ActiveKey(k)
  <2>1. PICK i \in JobIds : jobs[i].status = "absent" /\ \A h \in JobIds \ {i} : jobs'[h] = jobs[h]
    BY <1>2 DEF Inserted, FreshId, TypeOK
  <2>2. CASE j = i
    BY <2>1, <2>2 DEF KeepsSchedule, KeepsCancellation, IsActive, ActiveStatus
  <2>3. CASE j # i
    BY <2>1, <2>3, FateFrame
  <2> QED  BY <2>2, <2>3
<1> QED  BY <1>1, <1>2

\* An outcome is written to a running row: it keeps the key and is not lost.
LEMMA ReleaseFate ==
    ASSUME TypeOK, NEW w \in Workers, NEW written, Release(w, written),
           \/ /\ written.status \in {"pending", "failed"}
              /\ written.key = jobs[handling[w]].key
           \/ jobs[handling[w]].key \notin SystemKeys
    PROVE  RowFate
<1> SUFFICES ASSUME NEW j \in JobIds PROVE KeepsSchedule(j) /\ KeepsCancellation(j)
  BY DEF RowFate
<1>1. CASE Owns(w, handling[w]) /\ j = handling[w]
  <2>1. jobs'[j] = written /\ jobs[j].status = "running"
    BY <1>1 DEF Release, Owns, TypeOK
  <2> QED  BY <1>1, <2>1 DEF KeepsSchedule, KeepsCancellation, IsActive, ActiveStatus
<1>2. CASE ~(Owns(w, handling[w]) /\ j = handling[w])
  <2>1. jobs'[j] = jobs[j]
    BY <1>2 DEF Release, TypeOK
  <2> QED  BY <2>1, FateFrame
<1> QED  BY <1>1, <1>2

\* Without a job nothing is written.
LEMMA ReleaseNothing ==
    ASSUME TypeOK, NEW w \in Workers, NEW written, Release(w, written), handling[w] \notin JobIds
    PROVE  jobs' = jobs
BY DEF Release, TypeOK

\* No step loses a schedule or overwrites a cancellation.
LEMMA RowFateStep == TypeOK /\ [Next]_vars => RowFate
<1> SUFFICES ASSUME TypeOK, [Next]_vars PROVE RowFate
  OBVIOUS
<1>a. \A j \in JobIds : jobs[j] \in Row
  BY DEF TypeOK
<1>b. jobs' = jobs => RowFate
  BY FateFrame DEF RowFate
<1>c. ASSUME \A j \in JobIds : jobs'[j].status = jobs[j].status /\ jobs'[j].key = jobs[j].key
      PROVE  RowFate
  BY <1>c, FateFrame DEF RowFate
<1>1. ASSUME NEW k \in Keys, Enqueue(k) PROVE RowFate
  BY <1>1, InsertedFate, PriorityAssumption DEF Enqueue
<1>2. ASSUME NEW k \in Keys, Expedite(k) PROVE RowFate
  BY <1>2, <1>a, <1>c DEF Expedite, Row
<1>3. ASSUME NEW j \in JobIds, BecomesDue(j) PROVE RowFate
  BY <1>3, <1>a, <1>c DEF BecomesDue, Row, TypeOK
<1>4. ASSUME NEW j \in JobIds, LeaseExpires(j) PROVE RowFate
  BY <1>4, <1>a, <1>c DEF LeaseExpires, Row, TypeOK
<1>5. ASSUME NEW w \in Workers, Start(w) \/ RecoverExpired(w) PROVE RowFate
  BY <1>5, RequeuedFate DEF Start, RecoverExpired, Recover
<1>6. ASSUME NEW w \in Workers, Seed(w) PROVE RowFate
  <2>1. ASSUME NEW k \in todo[w], Inserted(k, 0) PROVE RowFate
    <3>1. k \in Keys
      BY KeysAssumption DEF TypeOK
    <3> QED  BY <2>1, <3>1, InsertedFate
  <2> QED  BY <1>6, <1>b, <2>1 DEF Seed
<1>7. ASSUME NEW w \in Workers, ClaimRead(w) \/ TakeNone(w) \/ Crash(w) PROVE RowFate
  BY <1>7, <1>b DEF ClaimRead, TakeNone, Crash
<1>8. ASSUME NEW w \in Workers, NEW j \in JobIds, Take(w, j) PROVE RowFate
  <2>1. jobs[j].status \in ActiveStatus /\ jobs'[j].status \in ActiveStatus
        /\ jobs'[j].key = jobs[j].key
    BY <1>8, <1>a DEF Take, Claimable, ActiveStatus, Row, TypeOK
  <2>2. \A i \in JobIds \ {j} : jobs'[i] = jobs[i]
    BY <1>8 DEF Take, TypeOK
  <2> QED  BY <2>1, <2>2, FateActive, FateFrame DEF RowFate
<1>9. ASSUME NEW w \in Workers, Progress(w) PROVE RowFate
  BY <1>9, <1>a, <1>c DEF Progress, Row, TypeOK
<1>10. ASSUME NEW w \in Workers, FinishRepeat(w) PROVE RowFate
  <2>1. PICK d \in BOOLEAN :
          Release(w, [Released(handling[w], "pending", d) EXCEPT !.attempts = 0])
    BY <1>10 DEF FinishRepeat
  <2> DEFINE written == [Released(handling[w], "pending", d) EXCEPT !.attempts = 0]
  <2>2. CASE handling[w] \in JobIds
    <3>1. written.status = "pending" /\ written.key = jobs[handling[w]].key
      BY <2>2, <1>a DEF Released, Row
    <3> QED  BY <2>1, <3>1, ReleaseFate
  <2>3. CASE handling[w] \notin JobIds
    BY <2>1, <2>3, <1>b, ReleaseNothing
  <2> QED  BY <2>2, <2>3
<1>11. ASSUME NEW w \in Workers, FinishDone(w) PROVE RowFate
  BY <1>11, ReleaseFate DEF FinishDone
<1>12. ASSUME NEW w \in Workers, Fail(w) PROVE RowFate
  <2> DEFINE outcome == IF tries[w] < MaxAttempts THEN "pending" ELSE "failed"
             written == Released(handling[w], outcome, FALSE)
  <2>1. Release(w, written)
    BY <1>12 DEF Fail
  <2>2. CASE handling[w] \in JobIds
    <3>1. written.status \in {"pending", "failed"} /\ written.key = jobs[handling[w]].key
      BY <2>2, <1>a DEF Released, Row
    <3> QED  BY <2>1, <3>1, ReleaseFate
  <2>3. CASE handling[w] \notin JobIds
    BY <2>1, <2>3, <1>b, ReleaseNothing
  <2> QED  BY <2>2, <2>3
<1>13. ASSUME NEW w \in Workers, Prune(w) PROVE RowFate
  <2>1. \A j \in JobIds : \/ jobs'[j] = jobs[j]
                          \/ jobs[j].status \in TerminalStatus /\ jobs'[j].status = "absent"
    BY <1>13 DEF Prune, Blank
  <2>2. \A j \in JobIds : jobs[j].status \in TerminalStatus => ~IsActive(j)
    BY DEF TerminalStatus, IsActive, ActiveStatus
  <2> QED  BY <2>1, <2>2, FateFrame DEF RowFate, KeepsSchedule, KeepsCancellation
<1>14. ASSUME NEW a \in Admins, NEW j \in JobIds, RetryRead(a, j) \/ CancelRead(a, j) PROVE RowFate
  BY <1>14, <1>b DEF RetryRead, CancelRead
<1>15. ASSUME NEW a \in Admins, RetryWrite(a) PROVE RowFate
  <2>1. PICK j \in JobIds : j = adm[a].id
    BY <1>15 DEF RetryWrite, TypeOK, Write, NoWrite
  <2>2. CASE jobs' = jobs
    BY <2>2, <1>b
  <2>3. CASE jobs' = [jobs EXCEPT ![j] = [Released(j, "pending", TRUE) EXCEPT !.attempts = 0]]
    <3>1. jobs'[j].status = "pending" /\ jobs'[j].key = jobs[j].key
      BY <2>1, <2>3, <1>a DEF Released, Row, TypeOK
    <3>2. \A i \in JobIds \ {j} : jobs'[i] = jobs[i]
      BY <2>1, <2>3 DEF TypeOK
    <3>3. adm[a].op = "retry" /\ jobs'[j].status \in ActiveStatus
      BY <1>15, <3>1 DEF RetryWrite, ActiveStatus
    <3>4. KeepsSchedule(j) /\ KeepsCancellation(j)
      BY <3>1, <3>3 DEF KeepsSchedule, KeepsCancellation, IsActive
    <3> QED  BY <3>2, <3>4, FateFrame DEF RowFate
  <2> QED  BY <1>15, <2>1, <2>2, <2>3 DEF RetryWrite
<1>16. ASSUME NEW a \in Admins, CancelWrite(a) PROVE RowFate
  <2>1. PICK j \in JobIds : j = adm[a].id
    BY <1>16 DEF CancelWrite, TypeOK, Write, NoWrite
  <2>2. CASE jobs' = jobs
    BY <2>2, <1>b
  <2>3. CASE jobs' = [jobs EXCEPT ![j] = Released(j, "cancelled", FALSE)]
    <3>1. jobs'[j].status = "cancelled"
      BY <2>1, <2>3, <1>a DEF Released, Row, TypeOK
    <3>2. \A i \in JobIds \ {j} : jobs'[i] = jobs[i]
      BY <2>1, <2>3 DEF TypeOK
    <3>3. KeepsSchedule(j) /\ KeepsCancellation(j)
      BY <3>1 DEF KeepsSchedule, KeepsCancellation
    <3> QED  BY <3>2, <3>3, FateFrame DEF RowFate
  <2> QED  BY <1>16, <2>1, <2>2, <2>3 DEF CancelWrite
<1>17. CASE UNCHANGED vars
  BY <1>17, <1>b DEF vars
<1> QED
  BY <1>1, <1>2, <1>3, <1>4, <1>5, <1>6, <1>7, <1>8, <1>9, <1>10, <1>11, <1>12, <1>13,
     <1>14, <1>15, <1>16, <1>17 DEF Next

\* A seeded schedule leaves the queue only by a failure or a cancellation of one
\* of its jobs, for any number of loops, crashes and expiries.
THEOREM ScheduleEndsCorrect == Spec => ScheduleEndsOnlyByFailureOrCancel
<1> DEFINE Ends == \A k \in SystemKeys :
                      ActiveKey(k) /\ ~ActiveKey(k)' =>
                         \E j \in JobIds : /\ jobs[j].key = k /\ IsActive(j)
                                           /\ jobs'[j].status \in {"failed", "cancelled"}
<1>1. TypeOK /\ [Next]_vars => [Ends]_vars
  <2> SUFFICES ASSUME RowFate PROVE Ends
    BY RowFateStep
  <2> QED  BY DEF RowFate, KeepsSchedule, ActiveKey, IsActive
<1>2. Spec => [][Ends]_vars
  BY <1>1, TypeCorrect, PTL DEF Spec
<1> QED  BY <1>2 DEF ScheduleEndsOnlyByFailureOrCancel

\* No worker's report replaces a cancellation.
THEOREM CancelledStaysCorrect == Spec => CancelledStays
<1> DEFINE Stays == \A j \in JobIds : KeepsCancellation(j)
<1>1. TypeOK /\ [Next]_vars => [Stays]_vars
  BY RowFateStep DEF RowFate
<1>2. Spec => [][Stays]_vars
  BY <1>1, TypeCorrect, PTL DEF Spec
<1> QED  BY <1>2 DEF CancelledStays, KeepsCancellation

=============================================================================
