-------------------------- MODULE EnrichmentQueue --------------------------
(***************************************************************************)
(* The queue of Scryfall lookups (binderbridge/scryfall_jobs.py): a table  *)
(* of lookups, one per card row, that a background job works through, one  *)
(* lookup per execution.  Requests queue lookups and then make sure that   *)
(* the job exists; the job repeats while it sees waiting lookups.  Lookups *)
(* go or move below the job's hands: with a deleted card, by the undo of   *)
(* an import and by the merge of duplicate rows.                           *)
(*                                                                         *)
(* The job itself is reduced to what BackgroundJobs promises of one key:   *)
(* at most one active job, a holder whose writes are guarded by its lease, *)
(* and a return to the queue when the lease ends.  Each transaction is one *)
(* action; a SELECT before the first write is an action of its own.        *)
(***************************************************************************)
EXTENDS Naturals

CONSTANTS
    Items,         \* collection rows that exist at the start
    Members,       \* users
    Owner,         \* the owner of each row
    Handlers,      \* executions of the job, one per worker loop
    Askers,        \* requests that queue lookups, undo imports or merge rows
    NoHandler, NoItem,
    GiveUpAt,      \* errors after which a lookup has failed: 3 in the code
    MaxAsked,      \* bound: times that lookups are queued or retried
    MaxFaults      \* bound: crashes, exceptions, leases lost while running

ASSUME OwnerAssumption == Owner \in [Items -> Members]
ASSUME NoHandlerAssumption == NoHandler \notin Handlers /\ NoItem \notin Items
ASSUME LookupBounds == GiveUpAt \in Nat \ {0} /\ MaxAsked \in Nat /\ MaxFaults \in Nat

VARIABLES
    cards,         \* the collection rows that exist
    lookups,       \* scryfall_enrichment_jobs, by id
    answer,        \* the question whose answer each row shows, 0: other data
    job,           \* the active scryfall_enrichment job and who holds it
    hpc, held,     \* each handler's place, and the lookup as it has read it
    again,         \* whether a handler has seen waiting lookups at its end
    apc,           \* each request's place
    chosen, plan,  \* the lookup it will retry, the rows it will undo or merge
    overtaken,     \* history: lookups whose answer is not the one to expect
    unheard,       \* history: began to wait when no handler would look again
    dropped,       \* history: users an open lookup of whom was removed
    asks, faults   \* history: counted so that they can be bounded

handlerVars == <<hpc, held, again>>
requestVars == <<apc, chosen, plan>>
lookupHistory == <<overtaken, unheard, dropped, asks, faults>>
lookupVars == <<cards, lookups, answer, job, handlerVars, requestVars, lookupHistory>>

\* An id is not used twice (AUTOINCREMENT): a lookup that is inserted takes the
\* number of the question it is inserted for.
LookupIds == 1..MaxAsked
OpenStatus == {"pending", "processing"}
EndStatus  == {"done", "not_found", "failed"}
\* JOB_DASHBOARD_RETRY_STATUSES
RetryStatus == {"failed", "not_found", "processing"}

\* "none": an id that is not used yet; "gone": a row that was deleted.
Lookup == [status   : OpenStatus \cup EndStatus \cup {"none", "gone"},
           row      : Items \cup {NoItem},
           asked    : 0..MaxAsked,
           attempts : Nat,
           due      : BOOLEAN,
           notified : BOOLEAN]

NoLookup(s) == [status |-> s, row |-> NoItem, asked |-> 0, attempts |-> 0,
                due |-> FALSE, notified |-> FALSE]
Nothing == [id |-> 0, row |-> NoItem, asked |-> 0, attempts |-> 0]
NoPlan == [keep |-> NoItem, drop |-> {}, shows |-> 0]

LookupTypeOK ==
    /\ cards \subseteq Items
    /\ lookups \in [LookupIds -> Lookup]
    /\ answer \in [Items -> 0..MaxAsked]
    /\ job \in [state : {"none", "pending", "running"}, holder : Handlers \cup {NoHandler}]
    /\ hpc \in [Handlers -> {"idle", "begun", "read", "looking", "found", "asking", "ending"}]
    /\ held \in [Handlers -> [id : 0..MaxAsked, row : Items \cup {NoItem},
                              asked : 0..MaxAsked, attempts : Nat]]
    /\ again \in [Handlers -> BOOLEAN]
    /\ apc \in [Askers -> {"idle", "retry", "queued", "reset", "undo", "merge"}]
    /\ chosen \in [Askers -> 0..MaxAsked]
    /\ plan \in [Askers -> [keep : Items \cup {NoItem}, drop : SUBSET Items,
                            shows : 0..MaxAsked]]
    /\ overtaken \in [LookupIds -> BOOLEAN]
    /\ unheard \in [LookupIds -> BOOLEAN]
    /\ dropped \subseteq Members
    /\ asks \in 0..MaxAsked /\ faults \in Nat

LookupInit ==
    /\ cards = Items
    /\ lookups = [l \in LookupIds |-> NoLookup("none")]
    /\ answer = [i \in Items |-> 0]
    /\ job = [state |-> "none", holder |-> NoHandler]
    /\ hpc = [h \in Handlers |-> "idle"]
    /\ held = [h \in Handlers |-> Nothing]
    /\ again = [h \in Handlers |-> FALSE]
    /\ apc = [r \in Askers |-> "idle"]
    /\ chosen = [r \in Askers |-> 0]
    /\ plan = [r \in Askers |-> NoPlan]
    /\ overtaken = [l \in LookupIds |-> FALSE]
    /\ unheard = [l \in LookupIds |-> FALSE]
    /\ dropped = {}
    /\ asks = 0 /\ faults = 0

-----------------------------------------------------------------------------
Waiting(l) == lookups[l].status = "pending"
\* A row of the lookup table still exists.
Listed(l) == lookups[l].status \notin {"none", "gone"}
\* The lookups of a set of cards: at most one each (collection_item_id is UNIQUE).
LookupsOf(rows) == {l \in LookupIds : Listed(l) /\ lookups[l].row \in rows}

Working(h) == hpc[h] \in {"read", "looking", "found"}
Holding(h, l) == held[h].id = l /\ Working(h)
\* A handler is at work on a lookup, or will answer its card for another.
InWork(l, i) == \E h \in Handlers : Working(h) /\ (held[h].id = l \/ held[h].row = i)
\* A lookup's answer is written.
Answered(l) ==
    lookups[l].status = "done" \/ \E h \in Handlers : Holding(h, l) /\ hpc[h] = "found"
\* The execution that holds the job has looked for waiting lookups and found
\* none: what begins to wait now is seen by no execution.
Deaf == \E h \in Handlers : job.holder = h /\ hpc[h] = "ending" /\ ~again[h]

\* Lookups still open of a user who has not been told (notify_..., first SELECT).
OpenOf(tbl, u) ==
    {l \in LookupIds : tbl[l].status \in OpenStatus /\ ~tbl[l].notified /\ Owner[tbl[l].row] = u}
\* The terminal ones that its notification will report.
EndedOf(tbl, u) ==
    {l \in LookupIds : tbl[l].status \in EndStatus /\ ~tbl[l].notified /\ Owner[tbl[l].row] = u}

\* Mutant: only a lookup of an enriched card completes a user's lookups.
AnnouncedIfDone(tbl, l) ==
    IF tbl[l].status = "done" /\ OpenOf(tbl, Owner[tbl[l].row]) = {}
    THEN [k \in LookupIds |-> [tbl[k] EXCEPT !.notified = @ \/ k \in EndedOf(tbl, Owner[tbl[l].row])]]
    ELSE tbl
\* notify_scryfall_enrichment_completion: when nothing of the user is open,
\* one notification for everything that ended, and it is marked as told.
Announced(tbl, l) ==
    IF tbl[l].status \in EndStatus /\ OpenOf(tbl, Owner[tbl[l].row]) = {}
    THEN [k \in LookupIds |-> [tbl[k] EXCEPT !.notified = @ \/ k \in EndedOf(tbl, Owner[tbl[l].row])]]
    ELSE tbl

\* Lookups are deleted, and nobody counts what is left of their users.
LookupsWithout(gone) == [l \in LookupIds |-> IF l \in gone THEN NoLookup("gone") ELSE lookups[l]]
Missing(gone) ==
    dropped \cup {u \in Members : gone \cap OpenOf(lookups, u) # {}}

\* A card is written by something else than a lookup: other data below a lookup
\* whose answer is written is not that answer.
Rewritten(i, shown) ==
    [l \in LookupIds |-> overtaken[l] \/ (l \in LookupsOf({i}) /\ Answered(l) /\ shown # answer[i])]

-----------------------------------------------------------------------------
(* Requests.                                                               *)

\* enqueue_scryfall_enrichment: INSERT, or reset the row's lookup to the card
\* data given now.  The id and the attempts of a lookup that exists are kept.
EnqueueLookup(r, i, l) ==
    /\ apc[r] \in {"idle", "queued"}
    /\ i \in cards /\ asks < MaxAsked
    /\ l \in (IF LookupsOf({i}) = {} THEN {asks + 1} ELSE LookupsOf({i}))
    /\ asks' = asks + 1
    /\ lookups' = [lookups EXCEPT ![l].row = i, ![l].status = "pending", ![l].asked = asks + 1,
                                  ![l].due = TRUE, ![l].notified = FALSE]
    /\ overtaken' = [overtaken EXCEPT ![l] = InWork(l, i)]
    /\ unheard' = [unheard EXCEPT ![l] = Deaf]
    /\ apc' = [apc EXCEPT ![r] = "queued"]
    /\ UNCHANGED <<cards, answer, job, handlerVars, chosen, plan, dropped, faults>>

\* A row that goes back to the queue for a fresh series of attempts.
Retried(l) == [l EXCEPT !.status = "pending", !.attempts = 0, !.due = TRUE, !.notified = FALSE]

\* retry_recoverable_maintenance_jobs: every row in one UPDATE; the worker is
\* started when there was one.
RetryAll(r) ==
    LET ended == {l \in LookupIds : lookups[l].status \in RetryStatus} IN
    /\ apc[r] = "idle" /\ ended # {} /\ asks < MaxAsked
    /\ asks' = asks + 1
    /\ lookups' = [l \in LookupIds |-> IF l \in ended THEN Retried(lookups[l]) ELSE lookups[l]]
    /\ unheard' = [l \in LookupIds |-> IF l \in ended THEN Deaf ELSE unheard[l]]
    /\ apc' = [apc EXCEPT ![r] = "queued"]
    /\ UNCHANGED <<cards, answer, job, handlerVars, chosen, plan, overtaken, dropped, faults>>

\* retry_scryfall_enrichment_job: the status is checked on a row read before
\* the transaction, the UPDATE names the id alone.
RetryOneRead(r, l) ==
    /\ apc[r] = "idle" /\ lookups[l].status \in RetryStatus /\ asks < MaxAsked
    /\ asks' = asks + 1
    /\ apc' = [apc EXCEPT ![r] = "retry"]
    /\ chosen' = [chosen EXCEPT ![r] = l]
    /\ UNCHANGED <<cards, lookups, answer, job, handlerVars, plan, overtaken, unheard, dropped,
                   faults>>
RetryOneWrite(r) ==
    LET l == chosen[r] IN
    /\ apc[r] = "retry"
    /\ lookups' = IF Listed(l) THEN [lookups EXCEPT ![l] = Retried(@)] ELSE lookups
    /\ unheard' = [unheard EXCEPT ![l] = Deaf]
    /\ apc' = [apc EXCEPT ![r] = "queued"]
    /\ chosen' = [chosen EXCEPT ![r] = 0]
    /\ UNCHANGED <<cards, answer, job, handlerVars, plan, overtaken, dropped, asks, faults>>

\* start_scryfall_enrichment_worker: whatever is 'processing' waits again...
ResetProcessing(r) ==
    LET stuck == {l \in LookupIds : lookups[l].status = "processing"} IN
    /\ apc[r] = "queued"
    /\ lookups' = [l \in LookupIds |-> [lookups[l] EXCEPT
                       !.status = IF l \in stuck THEN "pending" ELSE @]]
    /\ unheard' = [l \in LookupIds |-> IF l \in stuck THEN Deaf ELSE unheard[l]]
    /\ apc' = [apc EXCEPT ![r] = "reset"]
    /\ UNCHANGED <<cards, answer, job, handlerVars, chosen, plan, overtaken, dropped, asks, faults>>

\* A job is inserted unless one is active (UniqueActiveKey of BackgroundJobs).
WithJob == IF job.state = "none" THEN [job EXCEPT !.state = "pending"] ELSE job

\* Mutant: the start only resets interrupted lookups.
StartNothing(r) ==
    /\ apc[r] = "reset"
    /\ apc' = [apc EXCEPT ![r] = "idle"]
    /\ UNCHANGED <<cards, lookups, answer, job, handlerVars, chosen, plan, lookupHistory>>
\* ...and the job is enqueued and expedited (a pending job is due sooner or
\* later in any case).
StartJob(r) ==
    /\ apc[r] = "reset"
    /\ job' = WithJob
    /\ apc' = [apc EXCEPT ![r] = "idle"]
    /\ UNCHANGED <<cards, lookups, answer, handlerVars, chosen, plan, lookupHistory>>

\* An import stops at a later row (a busy database): the rows before it are
\* queued, but the worker is not started.
AskerFails(r) ==
    /\ apc[r] = "queued" /\ faults < MaxFaults
    /\ unheard' = [l \in LookupIds |-> unheard[l] \/ Waiting(l)]
    /\ faults' = faults + 1
    /\ apc' = [apc EXCEPT ![r] = "idle"]
    /\ UNCHANGED <<cards, lookups, answer, job, handlerVars, chosen, plan, overtaken, dropped, asks>>

\* The undo of an import into a row that was there before
\* (undo_collection_import_item): its data of then is restored...
UndoRow(r, i) ==
    /\ apc[r] = "idle" /\ i \in cards
    /\ answer' = [answer EXCEPT ![i] = 0]
    /\ overtaken' = Rewritten(i, 0)
    /\ apc' = [apc EXCEPT ![r] = "undo"]
    /\ plan' = [plan EXCEPT ![r].keep = i]
    /\ UNCHANGED <<cards, lookups, job, handlerVars, chosen, unheard, dropped, asks, faults>>
\* ...and its lookup is deleted if it is open and not older than the import;
\* which it is, is left open.
UndoLookup(r) ==
    /\ apc[r] = "undo"
    /\ \E gone \in SUBSET {l \in LookupsOf({plan[r].keep}) : lookups[l].status \in OpenStatus} :
         /\ lookups' = LookupsWithout(gone)
         /\ unheard' = [l \in LookupIds |-> unheard[l] /\ l \notin gone]
         /\ dropped' = Missing(gone)
    /\ apc' = [apc EXCEPT ![r] = "idle"]
    /\ plan' = [plan EXCEPT ![r] = NoPlan]
    /\ UNCHANGED <<cards, answer, job, handlerVars, chosen, overtaken, asks, faults>>

\* cleanup_collection_duplicates: the rows of a group are read before the
\* transaction.  The kept row, the one with the lowest id, will show for every
\* field the first value of the group that is not blank.
MergeRead(r, i, others) ==
    /\ apc[r] = "idle"
    /\ others # {} /\ i \notin others /\ others \cup {i} \subseteq cards
    /\ \A j \in others : Owner[j] = Owner[i]
    /\ \E shown \in IF answer[i] # 0 THEN {answer[i]} ELSE {answer[j] : j \in others \cup {i}} :
         plan' = [plan EXCEPT ![r] = [keep |-> i, drop |-> others, shows |-> shown]]
    /\ apc' = [apc EXCEPT ![r] = "merge"]
    /\ UNCHANGED <<cards, lookups, answer, job, handlerVars, chosen, lookupHistory>>

\* merge_collection_duplicate_group: the kept row is written from that reading,
\* the other rows go.  Their lookups go too, but for the first of them when the
\* kept row has none: that one moves (move_collection_single_reference).
MergeRows(r) ==
    LET i == plan[r].keep
        theirs == LookupsOf(plan[r].drop)
    IN
    /\ apc[r] = "merge" /\ i \in cards
    /\ \E moved \in IF LookupsOf({i}) # {} \/ theirs = {} THEN {{}} ELSE {{l} : l \in theirs} :
         /\ lookups' = [l \in LookupIds |-> IF l \in moved THEN [lookups[l] EXCEPT !.row = i]
                                            ELSE LookupsWithout(theirs)[l]]
         /\ unheard' = [l \in LookupIds |-> unheard[l] /\ l \notin theirs \ moved]
         /\ dropped' = Missing(theirs \ moved)
         /\ overtaken' = [l \in LookupIds |->
                Rewritten(i, plan[r].shows)[l] \/ (l \in moved /\ (Answered(l) \/ InWork(l, i)))]
    /\ cards' = cards \ plan[r].drop
    /\ answer' = [j \in Items |-> IF j = i THEN plan[r].shows
                                  ELSE IF j \in plan[r].drop THEN 0 ELSE answer[j]]
    /\ apc' = [apc EXCEPT ![r] = "idle"]
    /\ plan' = [plan EXCEPT ![r] = NoPlan]
    /\ UNCHANGED <<job, handlerVars, chosen, asks, faults>>
\* The kept row was deleted after the reading: what refers to the other rows
\* cannot be moved to it (foreign keys), and the merge is rolled back.
MergeFails(r) ==
    /\ apc[r] = "merge" /\ plan[r].keep \notin cards
    /\ apc' = [apc EXCEPT ![r] = "idle"]
    /\ plan' = [plan EXCEPT ![r] = NoPlan]
    /\ UNCHANGED <<cards, lookups, answer, job, handlerVars, chosen, lookupHistory>>
\* With nothing to move, the other rows are deleted beside it.
MergeLoses(r) ==
    /\ apc[r] = "merge" /\ plan[r].keep \notin cards /\ LookupsOf(plan[r].drop) = {}
    /\ cards' = cards \ plan[r].drop
    /\ answer' = [j \in Items |-> IF j \in plan[r].drop THEN 0 ELSE answer[j]]
    /\ apc' = [apc EXCEPT ![r] = "idle"]
    /\ plan' = [plan EXCEPT ![r] = NoPlan]
    /\ UNCHANGED <<lookups, job, handlerVars, chosen, lookupHistory>>

\* The owner deletes the card, an import that inserted it is undone, or a trade
\* takes the last copy: ON DELETE CASCADE takes the lookup away.
DeleteCard(i) ==
    LET gone == LookupsOf({i}) IN
    /\ i \in cards
    /\ cards' = cards \ {i}
    /\ lookups' = LookupsWithout(gone)
    /\ answer' = [answer EXCEPT ![i] = 0]
    /\ unheard' = [l \in LookupIds |-> unheard[l] /\ l \notin gone]
    /\ dropped' = Missing(gone)
    /\ UNCHANGED <<job, handlerVars, requestVars, overtaken, asks, faults>>

\* The owner, or a file merged into the row, writes the card's data.
EditCard(i) ==
    /\ i \in cards
    /\ answer' = [answer EXCEPT ![i] = 0]
    /\ overtaken' = Rewritten(i, 0)
    /\ UNCHANGED <<cards, lookups, job, handlerVars, requestVars, unheard, dropped, asks, faults>>

\* A worker starts: ensure_background_job_schedules looks at pending rows only.
SeedLookups ==
    /\ \E l \in LookupIds : Waiting(l)
    /\ job.state = "none"
    /\ job' = WithJob
    /\ UNCHANGED <<cards, lookups, answer, handlerVars, requestVars, lookupHistory>>

\* A rate limit or the pause after an error is over.
LookupDue(l) ==
    /\ Waiting(l) /\ ~lookups[l].due
    /\ lookups' = [lookups EXCEPT ![l].due = TRUE]
    /\ UNCHANGED <<cards, answer, job, handlerVars, requestVars, lookupHistory>>

-----------------------------------------------------------------------------
(* The handler of the job: one lookup per execution.                       *)

Goto(h, place) == hpc' = [hpc EXCEPT ![h] = place]

ClaimJob(h) ==
    /\ hpc[h] = "idle" /\ job.state = "pending"
    /\ job' = [state |-> "running", holder |-> h]
    /\ Goto(h, "begun")
    /\ UNCHANGED <<cards, lookups, answer, held, again, requestVars, lookupHistory>>

\* Mutant: only a lookup that was never tried is selected.
SelectFresh(h, l) ==
    /\ hpc[h] = "begun"
    /\ Waiting(l) /\ lookups[l].due /\ lookups[l].attempts = 0
    /\ held' = [held EXCEPT ![h] = [id |-> l, row |-> lookups[l].row,
                                    asked |-> lookups[l].asked, attempts |-> 0]]
    /\ Goto(h, "read")
    /\ UNCHANGED <<cards, lookups, answer, job, again, requestVars, lookupHistory>>
\* claim_scryfall_enrichment_job: the SELECT, a copy of the whole row.  Its
\* order, by created_at, is left open.
SelectLookup(h, l) ==
    /\ hpc[h] = "begun"
    /\ Waiting(l) /\ lookups[l].due
    /\ held' = [held EXCEPT ![h] = [id |-> l, row |-> lookups[l].row, asked |-> lookups[l].asked,
                                    attempts |-> lookups[l].attempts]]
    /\ Goto(h, "read")
    /\ UNCHANGED <<cards, lookups, answer, job, again, requestVars, lookupHistory>>
SelectNothing(h) ==
    /\ hpc[h] = "begun"
    /\ \A l \in LookupIds : ~(Waiting(l) /\ lookups[l].due)
    /\ Goto(h, "asking")
    /\ UNCHANGED <<cards, lookups, answer, job, held, again, requestVars, lookupHistory>>
\* The UPDATE names the id alone.
MarkProcessing(h) ==
    LET l == held[h].id IN
    /\ hpc[h] = "read"
    /\ lookups' = IF Listed(l) THEN [lookups EXCEPT ![l].status = "processing"] ELSE lookups
    /\ unheard' = [unheard EXCEPT ![l] = FALSE]
    /\ Goto(h, "looking")
    /\ UNCHANGED <<cards, answer, job, held, again, requestVars, overtaken, dropped, asks, faults>>

\* Mutant: a card that was enriched before is not written again.
AnswerOnce(h) ==
    LET i == held[h].row IN
    /\ hpc[h] = "looking"
    /\ answer' = IF i \in cards /\ answer[i] = 0 THEN [answer EXCEPT ![i] = held[h].asked]
                 ELSE answer
    /\ Goto(h, "found")
    /\ UNCHANGED <<cards, lookups, job, held, again, requestVars, lookupHistory>>
\* update_collection_item_from_scryfall: into the row that the lookup named when
\* it was read, for the card data it had then; nothing when that row is deleted.
WriteAnswer(h) ==
    LET i == held[h].row IN
    /\ hpc[h] = "looking"
    /\ answer' = IF i \in cards THEN [answer EXCEPT ![i] = held[h].asked] ELSE answer
    /\ Goto(h, "found")
    /\ UNCHANGED <<cards, lookups, job, held, again, requestVars, lookupHistory>>

\* mark_scryfall_job: by the lookup's id, whatever its status and its card have
\* become; a terminal status counts what is open of the user and announces.
Mark(h, status, attempts) ==
    LET l == held[h].id
        marked == [lookups EXCEPT ![l].status = status, ![l].attempts = attempts,
                                  ![l].due = (status # "pending")]
        user == Owner[lookups[l].row]
    IN
    /\ lookups' = IF Listed(l) THEN Announced(marked, l) ELSE lookups
    /\ dropped' = IF Listed(l) /\ status \in EndStatus /\ OpenOf(marked, user) = {}
                  THEN dropped \ {user} ELSE dropped
    /\ unheard' = [unheard EXCEPT ![l] = status = "pending" /\ (job.holder # h \/ Deaf)]
    /\ held' = [held EXCEPT ![h] = Nothing]
    /\ Goto(h, "asking")
    /\ UNCHANGED <<cards, answer, job, again, requestVars, overtaken, asks, faults>>

MarkDone(h) == hpc[h] = "found" /\ Mark(h, "done", lookups[held[h].id].attempts)
MarkNotFound(h) == hpc[h] = "looking" /\ Mark(h, "not_found", lookups[held[h].id].attempts)
\* Mutant: a rate limit is passed on before the lookup is marked.
LimitedUnmarked(h) ==
    /\ hpc[h] = "looking"
    /\ held' = [held EXCEPT ![h] = Nothing]
    /\ Goto(h, "asking")
    /\ UNCHANGED <<cards, lookups, answer, job, again, requestVars, lookupHistory>>
\* ScryfallRateLimitError: waits, and the attempt does not count.
MarkLimited(h) == hpc[h] = "looking" /\ Mark(h, "pending", held[h].attempts)
\* ScryfallError: the third attempt is the last.
MarkError(h) ==
    LET n == held[h].attempts + 1 IN
    hpc[h] = "looking" /\ Mark(h, IF n >= GiveUpAt THEN "failed" ELSE "pending", n)

\* pending_domain_queue_delay, after the lookup.
AskPending(h) ==
    /\ hpc[h] = "asking"
    /\ again' = [again EXCEPT ![h] = \E l \in LookupIds : Waiting(l)]
    /\ Goto(h, "ending")
    /\ UNCHANGED <<cards, lookups, answer, job, held, requestVars, lookupHistory>>

\* finish_background_job: repeat or succeed, if the lease is still this one's.
EndJob(h) ==
    /\ hpc[h] = "ending"
    /\ job' = IF job.holder = h
              THEN [state |-> IF again[h] THEN "pending" ELSE "none", holder |-> NoHandler]
              ELSE job
    /\ Goto(h, "idle")
    /\ again' = [again EXCEPT ![h] = FALSE]
    /\ UNCHANGED <<cards, lookups, answer, held, requestVars, lookupHistory>>

\* An exception that is no ScryfallError: fail_background_job returns the job
\* to the queue (its max_attempts is 100000), the lookup stays as it is.
HandlerRaises(h) ==
    /\ hpc[h] # "idle" /\ faults < MaxFaults
    /\ job' = IF job.holder = h THEN [state |-> "pending", holder |-> NoHandler] ELSE job
    /\ Goto(h, "idle")
    /\ held' = [held EXCEPT ![h] = Nothing]
    /\ again' = [again EXCEPT ![h] = FALSE]
    /\ faults' = faults + 1
    /\ UNCHANGED <<cards, lookups, answer, requestVars, overtaken, unheard, dropped, asks>>

\* The process dies: the job stays running until its lease ends.
HandlerDies(h) ==
    /\ hpc[h] # "idle" /\ faults < MaxFaults
    /\ job' = IF job.holder = h THEN [job EXCEPT !.holder = NoHandler] ELSE job
    /\ Goto(h, "idle")
    /\ held' = [held EXCEPT ![h] = Nothing]
    /\ again' = [again EXCEPT ![h] = FALSE]
    /\ faults' = faults + 1
    /\ UNCHANGED <<cards, lookups, answer, requestVars, overtaken, unheard, dropped, asks>>

\* The lease of the job ends: of a dead execution, or of one that is slow.
LeaseEnds ==
    /\ job.state = "running"
    /\ job.holder = NoHandler \/ faults < MaxFaults
    /\ faults' = IF job.holder = NoHandler THEN faults ELSE faults + 1
    /\ job' = [state |-> "pending", holder |-> NoHandler]
    /\ UNCHANGED <<cards, lookups, answer, handlerVars, requestVars, overtaken, unheard, dropped, asks>>

AskerNext(r) ==
    \/ \E i \in Items, l \in LookupIds : EnqueueLookup(r, i, l)
    \/ \E l \in LookupIds : RetryOneRead(r, l)
    \/ RetryAll(r) \/ RetryOneWrite(r) \/ ResetProcessing(r) \/ StartJob(r) \/ AskerFails(r)
    \/ \E i \in Items : UndoRow(r, i) \/ \E others \in SUBSET Items : MergeRead(r, i, others)
    \/ UndoLookup(r) \/ MergeRows(r) \/ MergeFails(r) \/ MergeLoses(r)
HandlerNext(h) ==
    \/ ClaimJob(h) \/ SelectNothing(h) \/ MarkProcessing(h) \/ WriteAnswer(h)
    \/ \E l \in LookupIds : SelectLookup(h, l)
    \/ MarkDone(h) \/ MarkNotFound(h) \/ MarkLimited(h) \/ MarkError(h)
    \/ AskPending(h) \/ EndJob(h) \/ HandlerRaises(h) \/ HandlerDies(h)
LookupNext ==
    \/ \E r \in Askers : AskerNext(r)
    \/ \E h \in Handlers : HandlerNext(h)
    \/ \E i \in Items : DeleteCard(i) \/ EditCard(i)
    \/ \E l \in LookupIds : LookupDue(l)
    \/ SeedLookups \/ LeaseEnds

LookupSpec == LookupInit /\ [][LookupNext]_lookupVars

\* A running handler goes on and a lookup comes to an end, a free loop claims
\* a job that waits, a lease ends, a pause passes.  No lookup is passed over for
\* ever by others (they are taken by age, and one that is limited steps back).
LookupFairness ==
    /\ WF_lookupVars(LeaseEnds)
    /\ \A l \in LookupIds : WF_lookupVars(LookupDue(l))
    /\ \A h \in Handlers :
         /\ WF_lookupVars(SelectNothing(h) \/ MarkProcessing(h) \/ WriteAnswer(h)
                            \/ MarkDone(h) \/ MarkError(h) \/ AskPending(h) \/ EndJob(h))
         /\ SF_lookupVars(ClaimJob(h))
    /\ \A l \in LookupIds : SF_lookupVars(\E h \in Handlers : SelectLookup(h, l))

-----------------------------------------------------------------------------
(* Properties.                                                             *)

\* A user is told when the last lookup ends: with nothing open, nothing that
\* ended is untold, unless an open lookup was removed since the user was told
\* last, which no code looks at: it went with its card, by the undo of an import
\* or in a merge.
ToldWhenIdle ==
    \A u \in Members :
        OpenOf(lookups, u) = {} => EndedOf(lookups, u) = {} \/ u \in dropped

\* The card of a lookup that is done shows the answer to the question asked
\* last, unless (`overtaken`) a handler was at work for that card on an older
\* question when it was asked, a merge moved the lookup to the card while it
\* was in work or done, or other data were written over the answer.
AnswerFits ==
    \A l \in LookupIds :
        lookups[l].status = "done" /\ ~overtaken[l] => answer[lookups[l].row] = lookups[l].asked

\* No lookup waits without a job that will take it, unless the request is
\* still on its way to start one, or the lookup began to wait after the
\* current execution had looked, came back from an execution that had lost the
\* job, or was left by a request that failed.
NoneStranded ==
    \A l \in LookupIds :
        Waiting(l) /\ job.state = "none"
            => unheard[l] \/ \E r \in Askers : apc[r] \in {"queued", "reset"}

\* A lookup stays 'processing' without a handler only after a fault.
ProcessingIsHeld ==
    \A l \in LookupIds :
        lookups[l].status = "processing"
            => faults > 0 \/ \E h \in Handlers : Holding(h, l)

\* A waiting lookup is taken, however many others fail or are limited, as long
\* as the job exists.
WaitingIsTaken ==
    \A l \in LookupIds : Waiting(l) ~> (~Waiting(l) \/ job.state = "none")
=============================================================================
