---------------------------- MODULE QueuesProofs ----------------------------
(***************************************************************************)
(* Proofs about the queues: the lookups of EnrichmentQueue, the mails of   *)
(* NotificationMail and the calls of Webhooks, for any number of rows,     *)
(* members, notifications, endpoints, deliveries, handlers and passes, and *)
(* for any habits, batches and bounds.                                     *)
(***************************************************************************)
EXTENDS EnrichmentQueue, NotificationMail, Webhooks, FiniteSetTheorems, TLAPS

USE DEF OpenStatus, EndStatus

-----------------------------------------------------------------------------
(* EnrichmentQueue: typing.                                                *)

\* Telling a user writes nothing but the mark that it was told.
LEMMA AnnouncedKeeps ==
    ASSUME NEW tbl \in [LookupIds -> Lookup], NEW l \in LookupIds
    PROVE  /\ Announced(tbl, l) \in [LookupIds -> Lookup]
           /\ \A k \in LookupIds : /\ Announced(tbl, l)[k].status = tbl[k].status
                                   /\ Announced(tbl, l)[k].row = tbl[k].row
                                   /\ Announced(tbl, l)[k].asked = tbl[k].asked
<1>1. ASSUME NEW k \in LookupIds, NEW b \in BOOLEAN
      PROVE  /\ [tbl[k] EXCEPT !.notified = b] \in Lookup
             /\ [tbl[k] EXCEPT !.notified = b].status = tbl[k].status
             /\ [tbl[k] EXCEPT !.notified = b].row = tbl[k].row
             /\ [tbl[k] EXCEPT !.notified = b].asked = tbl[k].asked
  BY DEF Lookup
<1>2. \A k \in LookupIds : (tbl[k].notified \/ k \in EndedOf(tbl, Owner[tbl[l].row])) \in BOOLEAN
  BY DEF Lookup
<1> QED  BY <1>1, <1>2 DEF Announced

\* When nothing of the user is open, all that ended is told.
LEMMA AnnouncedTells ==
    ASSUME NEW tbl \in [LookupIds -> Lookup], NEW l \in LookupIds, tbl[l].status \in EndStatus,
           OpenOf(tbl, Owner[tbl[l].row]) = {}, NEW k \in LookupIds
    PROVE  Announced(tbl, l)[k].notified
             <=> tbl[k].notified \/ k \in EndedOf(tbl, Owner[tbl[l].row])
<1>1. ASSUME NEW b \in BOOLEAN PROVE [tbl[k] EXCEPT !.notified = b].notified = b
  BY DEF Lookup
<1>2. (tbl[k].notified \/ k \in EndedOf(tbl, Owner[tbl[l].row])) \in BOOLEAN
  BY DEF Lookup
<1> QED  BY <1>1, <1>2 DEF Announced

LEMMA RetriedType ==
    ASSUME NEW l \in Lookup
    PROVE  /\ Retried(l) \in Lookup /\ Retried(l).status = "pending" /\ Retried(l).row = l.row
           /\ Retried(l).asked = l.asked /\ ~Retried(l).notified
BY DEF Retried, Lookup

LEMMA NoLookupType == \A s \in {"none", "gone"} : NoLookup(s) \in Lookup /\ NoLookup(s).status = s
BY LookupBounds DEF NoLookup, Lookup

\* The other ways in which a lookup is written.
Asked(l, i, n) == [l EXCEPT !.row = i, !.status = "pending", !.asked = n, !.due = TRUE,
                            !.notified = FALSE]
LEMMA AskedType ==
    ASSUME NEW l \in Lookup, NEW i \in Items, NEW n \in 0..MaxAsked
    PROVE  /\ Asked(l, i, n) \in Lookup /\ Asked(l, i, n).status = "pending"
           /\ Asked(l, i, n).row = i /\ Asked(l, i, n).asked = n /\ ~Asked(l, i, n).notified
BY DEF Asked, Lookup

LEMMA FieldsType ==
    ASSUME NEW l \in Lookup
    PROVE  /\ \A s \in OpenStatus :
                /\ [l EXCEPT !.status = s] \in Lookup /\ [l EXCEPT !.status = s].status = s
                /\ [l EXCEPT !.status = s].row = l.row
                /\ [l EXCEPT !.status = s].asked = l.asked
                /\ [l EXCEPT !.status = s].notified = l.notified
           /\ [l EXCEPT !.due = TRUE] \in Lookup /\ [l EXCEPT !.due = TRUE].status = l.status
           /\ [l EXCEPT !.due = TRUE].row = l.row
           /\ [l EXCEPT !.due = TRUE].asked = l.asked
           /\ [l EXCEPT !.due = TRUE].notified = l.notified
           /\ \A i \in Items :
                /\ [l EXCEPT !.row = i] \in Lookup /\ [l EXCEPT !.row = i].status = l.status
                /\ [l EXCEPT !.row = i].row = i
                /\ [l EXCEPT !.row = i].asked = l.asked
                /\ [l EXCEPT !.row = i].notified = l.notified
<1>1. \A s \in OpenStatus : [l EXCEPT !.status = s] \in Lookup
  BY DEF Lookup
<1>2. [l EXCEPT !.due = TRUE] \in Lookup
  BY DEF Lookup
<1>3. \A i \in Items : [l EXCEPT !.row = i] \in Lookup
  BY DEF Lookup
<1> QED  BY <1>1, <1>2, <1>3 DEF Lookup

\* What a mark writes into its lookup.
Stamped(l, verdict, n) ==
    [l EXCEPT !.status = verdict, !.attempts = n, !.due = (verdict # "pending")]
LEMMA StampedType ==
    ASSUME NEW l \in Lookup, NEW verdict \in {"pending"} \cup EndStatus, NEW n \in Nat
    PROVE  /\ Stamped(l, verdict, n) \in Lookup /\ Stamped(l, verdict, n).status = verdict
           /\ Stamped(l, verdict, n).row = l.row /\ Stamped(l, verdict, n).asked = l.asked
           /\ Stamped(l, verdict, n).notified = l.notified
<1>1. ASSUME NEW b \in BOOLEAN
      PROVE  LET m == [l EXCEPT !.status = verdict, !.attempts = n, !.due = b] IN
             /\ m \in Lookup /\ m.status = verdict /\ m.row = l.row
             /\ m.asked = l.asked /\ m.notified = l.notified
  BY DEF Lookup
<1>2. (verdict # "pending") \in BOOLEAN
  OBVIOUS
<1> QED  BY <1>1, <1>2 DEF Stamped

\* What a handler has selected is a lookup and its card.
HeldInv == \A h \in Handlers : Working(h) => held[h].id \in LookupIds /\ held[h].row \in Items

\* A lookup belongs to a card that exists, and to no other lookup's; ids are
\* given out in turn; what a merge brings together has one owner.
Placed ==
    /\ \A l \in LookupIds : Listed(l) => lookups[l].row \in cards
    /\ \A l, k \in LookupIds :
         Listed(l) /\ Listed(k) /\ lookups[l].row = lookups[k].row => l = k
    /\ \A l \in LookupIds : l > asks => lookups[l].status = "none"
    /\ \A r \in Askers : apc[r] = "merge" =>
         /\ plan[r].keep \in Items /\ plan[r].keep \notin plan[r].drop
         /\ \A j \in plan[r].drop : Owner[j] = Owner[plan[r].keep]

Hpc == {"idle", "begun", "read", "looking", "found", "asking", "ending"}
Apc == {"idle", "retry", "queued", "reset", "undo", "merge"}
Helds == [id : 0..MaxAsked, row : Items \cup {NoItem}, asked : 0..MaxAsked, attempts : Nat]
Plans == [keep : Items \cup {NoItem}, drop : SUBSET Items, shows : 0..MaxAsked]

\* Lookups are ids and questions alike; nothing is held, or planned, with these.
LEMMA NullTypes ==
    /\ \A l \in LookupIds : l \in 0..MaxAsked
    /\ 0 \in 0..MaxAsked /\ Nothing \in Helds /\ NoPlan \in Plans
BY LookupBounds DEF LookupIds, Nothing, Helds, NoPlan, Plans

\* A removal and what history remembers of it keep their types.
LEMMA RemovalType ==
    ASSUME LookupTypeOK, NEW gone
    PROVE  /\ LookupsWithout(gone) \in [LookupIds -> Lookup]
           /\ Missing(gone) \subseteq Members
           /\ [l \in LookupIds |-> unheard[l] /\ l \notin gone] \in [LookupIds -> BOOLEAN]
           /\ \A l \in LookupIds :
                LookupsWithout(gone)[l] = IF l \in gone THEN NoLookup("gone") ELSE lookups[l]
<1>1. LookupsWithout(gone) \in [LookupIds -> Lookup]
  BY NoLookupType DEF LookupsWithout, LookupTypeOK
<1> QED  BY <1>1 DEF LookupsWithout, Missing, LookupTypeOK

LEMMA RewrittenType ==
    ASSUME LookupTypeOK, NEW i, NEW shown
    PROVE  /\ Rewritten(i, shown) \in [LookupIds -> BOOLEAN]
           /\ \A l \in LookupIds : Rewritten(i, shown)[l] <=>
                overtaken[l] \/ (l \in LookupsOf({i}) /\ Answered(l) /\ shown # answer[i])
<1>1. \A l \in LookupIds :
        (overtaken[l] \/ (l \in LookupsOf({i}) /\ Answered(l) /\ shown # answer[i])) \in BOOLEAN
  BY DEF LookupTypeOK
<1> QED  BY <1>1 DEF Rewritten

LEMMA MarkType ==
    ASSUME LookupTypeOK, HeldInv, NEW h \in Handlers, hpc[h] \in {"looking", "found"},
           NEW verdict \in {"pending"} \cup EndStatus, NEW n \in Nat, Mark(h, verdict, n)
    PROVE  LookupTypeOK' /\ HeldInv'
<1> DEFINE l == held[h].id
           marked == [lookups EXCEPT ![l].status = verdict, ![l].attempts = n,
                                     ![l].due = (verdict # "pending")]
<1>1. l \in LookupIds
  BY DEF HeldInv, Working
<1>2. marked \in [LookupIds -> Lookup]
  <2>1. marked = [lookups EXCEPT ![l] = Stamped(lookups[l], verdict, n)]
    BY <1>1 DEF Stamped, LookupTypeOK
  <2> HIDE DEF marked, l
  <2> QED  BY <1>1, <2>1, StampedType DEF LookupTypeOK
<1>3. lookups' \in [LookupIds -> Lookup]
  BY <1>1, <1>2, AnnouncedKeeps DEF Mark, LookupTypeOK
<1>4. held' \in [Handlers -> Helds]
  BY NullTypes DEF Mark, LookupTypeOK, Helds
<1>5. unheard' \in [LookupIds -> BOOLEAN]
  BY DEF Mark, LookupTypeOK
<1>6. hpc' \in [Handlers -> Hpc] /\ HeldInv'
  BY DEF Mark, LookupTypeOK, Goto, Hpc, HeldInv, Working
<1>7. dropped' \subseteq Members
  BY DEF Mark, LookupTypeOK
<1> QED  BY <1>3, <1>4, <1>5, <1>6, <1>7 DEF Mark, LookupTypeOK, requestVars, Hpc, Helds

\* The steps of requests and owners that remove or rewrite cards keep the types.
LEMMA UndoType ==
    ASSUME LookupTypeOK, NEW r \in Askers,
           UndoLookup(r) \/ MergeFails(r) \/ MergeLoses(r) \/ \E i \in Items : UndoRow(r, i)
    PROVE  LookupTypeOK'
<1> USE DEF LookupTypeOK
<1>1. ASSUME NEW i \in Items, UndoRow(r, i) PROVE LookupTypeOK'
  <2>1. answer' \in [Items -> 0..MaxAsked]
    BY <1>1, NullTypes DEF UndoRow
  <2>2. overtaken' \in [LookupIds -> BOOLEAN]
    BY <1>1, RewrittenType DEF UndoRow
  <2>3. plan' \in [Askers -> Plans]
    <3>1. plan[r] \in Plans
      BY DEF Plans
    <3>2. [plan[r] EXCEPT !.keep = i] \in Plans
      BY <3>1 DEF Plans
    <3>3. plan' = [plan EXCEPT ![r] = [plan[r] EXCEPT !.keep = i]]
      BY <1>1 DEF UndoRow
    <3> QED  BY <3>2, <3>3 DEF Plans
  <2> QED  BY <1>1, <2>1, <2>2, <2>3 DEF UndoRow, handlerVars, Plans
<1>2. CASE UndoLookup(r)
  <2>1. plan' \in [Askers -> Plans]
    BY <1>2, NullTypes DEF UndoLookup, Plans
  <2>2. PICK gone : /\ lookups' = LookupsWithout(gone) /\ dropped' = Missing(gone)
                    /\ unheard' = [l \in LookupIds |-> unheard[l] /\ l \notin gone]
    BY <1>2 DEF UndoLookup
  <2>3. /\ lookups' \in [LookupIds -> Lookup] /\ dropped' \subseteq Members
        /\ unheard' \in [LookupIds -> BOOLEAN]
    BY <2>2, RemovalType
  <2> QED  BY <1>2, <2>1, <2>3 DEF UndoLookup, handlerVars, Plans
<1>3. CASE MergeFails(r)
  <2>1. plan' \in [Askers -> Plans]
    BY <1>3, NullTypes DEF MergeFails, Plans
  <2> QED  BY <1>3, <2>1 DEF MergeFails, handlerVars, lookupHistory, Plans
<1>4. CASE MergeLoses(r)
  <2>1. plan' \in [Askers -> Plans]
    BY <1>4, NullTypes DEF MergeLoses, Plans
  <2>2. answer' \in [Items -> 0..MaxAsked]
    BY <1>4, NullTypes DEF MergeLoses
  <2> QED  BY <1>4, <2>1, <2>2 DEF MergeLoses, handlerVars, lookupHistory, Plans
<1> QED  BY <1>1, <1>2, <1>3, <1>4

LEMMA MergeType ==
    ASSUME LookupTypeOK, Placed, NEW r \in Askers,
           MergeRows(r) \/ \E i \in Items, others \in SUBSET Items : MergeRead(r, i, others)
    PROVE  LookupTypeOK'
<1> USE DEF LookupTypeOK
<1>1. ASSUME NEW i \in Items, NEW others \in SUBSET Items, MergeRead(r, i, others)
      PROVE  LookupTypeOK'
  <2>1. PICK shown \in 0..MaxAsked :
          plan' = [plan EXCEPT ![r] = [keep |-> i, drop |-> others, shows |-> shown]]
    <3>1. (IF answer[i] # 0 THEN {answer[i]} ELSE {answer[j] : j \in others \cup {i}})
            \subseteq 0..MaxAsked
      BY <1>1 DEF MergeRead
    <3> QED  BY <1>1, <3>1 DEF MergeRead
  <2>2. plan' \in [Askers -> Plans]
    BY <2>1 DEF Plans
  <2> QED  BY <1>1, <2>2 DEF MergeRead, handlerVars, lookupHistory, Plans
<1>2. CASE MergeRows(r)
  <2> DEFINE i == plan[r].keep
             theirs == LookupsOf(plan[r].drop)
  <2>1. i \in Items /\ plan[r].shows \in 0..MaxAsked
    BY <1>2 DEF MergeRows, Placed
  <2>2. PICK moved :
          /\ lookups' = [l \in LookupIds |-> IF l \in moved THEN [lookups[l] EXCEPT !.row = i]
                                             ELSE LookupsWithout(theirs)[l]]
          /\ unheard' = [l \in LookupIds |-> unheard[l] /\ l \notin theirs \ moved]
          /\ dropped' = Missing(theirs \ moved)
          /\ overtaken' = [l \in LookupIds |->
                Rewritten(i, plan[r].shows)[l] \/ (l \in moved /\ (Answered(l) \/ InWork(l, i)))]
    BY <1>2 DEF MergeRows
  <2> HIDE DEF theirs
  <2>3. /\ LookupsWithout(theirs) \in [LookupIds -> Lookup] /\ dropped' \subseteq Members
        /\ unheard' \in [LookupIds -> BOOLEAN]
    BY <2>2, RemovalType
  <2>4. \A l \in LookupIds : [lookups[l] EXCEPT !.row = i] \in Lookup
    BY <2>1, FieldsType
  <2>5. lookups' \in [LookupIds -> Lookup]
    BY <2>2, <2>3, <2>4
  <2>6. overtaken' \in [LookupIds -> BOOLEAN]
    <3>1. \A l \in LookupIds :
            (Rewritten(i, plan[r].shows)[l] \/ (l \in moved /\ (Answered(l) \/ InWork(l, i)))) \in BOOLEAN
      BY RewrittenType
    <3> QED  BY <2>2, <3>1
  <2>7. answer' \in [Items -> 0..MaxAsked]
    BY <1>2, <2>1, NullTypes DEF MergeRows
  <2>8. plan' \in [Askers -> Plans]
    BY <1>2, NullTypes DEF MergeRows, Plans
  <2> QED  BY <1>2, <2>3, <2>5, <2>6, <2>7, <2>8 DEF MergeRows, handlerVars, Plans
<1> QED  BY <1>1, <1>2

LEMMA TypeStep ==
    ASSUME LookupTypeOK, HeldInv, Placed, LookupNext
    PROVE  LookupTypeOK'
<1> USE DEF LookupTypeOK
<1>1. ASSUME NEW r \in Askers, NEW i \in Items, NEW l \in LookupIds, EnqueueLookup(r, i, l)
      PROVE  LookupTypeOK'
  <2>1. asks + 1 \in 0..MaxAsked
    BY <1>1, LookupBounds DEF EnqueueLookup
  <2>2. lookups' = [lookups EXCEPT ![l] = Asked(lookups[l], i, asks + 1)]
    BY <1>1 DEF EnqueueLookup, Asked
  <2>3. lookups' \in [LookupIds -> Lookup]
    BY <2>1, <2>2, AskedType
  <2>4. Deaf \in BOOLEAN /\ InWork(l, i) \in BOOLEAN
    BY DEF Deaf, InWork
  <2> QED  BY <1>1, <2>1, <2>3, <2>4 DEF EnqueueLookup, handlerVars
<1>2. ASSUME NEW r \in Askers, RetryAll(r) PROVE LookupTypeOK'
  <2>1. asks + 1 \in 0..MaxAsked
    BY <1>2, LookupBounds DEF RetryAll
  <2>2. lookups' \in [LookupIds -> Lookup]
    BY <1>2, RetriedType DEF RetryAll
  <2>3. Deaf \in BOOLEAN
    BY DEF Deaf
  <2> QED  BY <1>2, <2>1, <2>2, <2>3 DEF RetryAll, handlerVars
<1>3. ASSUME NEW r \in Askers, NEW l \in LookupIds, RetryOneRead(r, l)
      PROVE  LookupTypeOK'
  <2>1. asks + 1 \in 0..MaxAsked
    BY <1>3, LookupBounds DEF RetryOneRead
  <2> QED  BY <1>3, <2>1, NullTypes DEF RetryOneRead, handlerVars
<1>4. ASSUME NEW r \in Askers, RetryOneWrite(r) PROVE LookupTypeOK'
  <2>1. lookups' \in [LookupIds -> Lookup]
    <3>1. CASE chosen[r] \in LookupIds
      BY <1>4, <3>1, RetriedType DEF RetryOneWrite
    <3>2. CASE chosen[r] \notin LookupIds
      BY <1>4, <3>2 DEF RetryOneWrite
    <3> QED  BY <3>1, <3>2
  <2>2. Deaf \in BOOLEAN
    BY DEF Deaf
  <2> QED  BY <1>4, <2>1, <2>2, NullTypes DEF RetryOneWrite, handlerVars
<1>5. ASSUME NEW r \in Askers, ResetProcessing(r) PROVE LookupTypeOK'
  <2>1. lookups' \in [LookupIds -> Lookup]
    <3>1. \A l \in LookupIds, s \in OpenStatus :
            [lookups[l] EXCEPT !.status = s] \in Lookup
      BY FieldsType
    <3>2. \A l \in LookupIds : [lookups[l] EXCEPT !.status = lookups[l].status] \in Lookup
      BY DEF Lookup
    <3> QED  BY <1>5, <3>1, <3>2 DEF ResetProcessing
  <2>2. Deaf \in BOOLEAN
    BY DEF Deaf
  <2> QED  BY <1>5, <2>1, <2>2 DEF ResetProcessing, handlerVars
<1>6. ASSUME NEW r \in Askers, StartJob(r) PROVE LookupTypeOK'
  BY <1>6 DEF StartJob, WithJob, handlerVars, lookupHistory
<1>7. ASSUME NEW r \in Askers, AskerFails(r) PROVE LookupTypeOK'
  BY <1>7 DEF AskerFails, Waiting, handlerVars
<1>8. ASSUME NEW i \in Items, DeleteCard(i) PROVE LookupTypeOK'
  <2>1. answer' \in [Items -> 0..MaxAsked]
    BY <1>8, NullTypes DEF DeleteCard
  <2>2. /\ lookups' \in [LookupIds -> Lookup] /\ dropped' \subseteq Members
        /\ unheard' \in [LookupIds -> BOOLEAN]
    BY <1>8, RemovalType DEF DeleteCard
  <2> QED  BY <1>8, <2>1, <2>2 DEF DeleteCard, handlerVars, requestVars
<1>9. CASE SeedLookups
  BY <1>9 DEF SeedLookups, WithJob, handlerVars, requestVars, lookupHistory
<1>10. ASSUME NEW l \in LookupIds, LookupDue(l) PROVE LookupTypeOK'
  <2>1. lookups' \in [LookupIds -> Lookup]
    BY <1>10, FieldsType DEF LookupDue
  <2> QED  BY <1>10, <2>1 DEF LookupDue, handlerVars, requestVars, lookupHistory
<1>11. ASSUME NEW h \in Handlers, ClaimJob(h) PROVE LookupTypeOK'
  BY <1>11 DEF ClaimJob, Goto, requestVars, lookupHistory
<1>12. ASSUME NEW h \in Handlers, NEW l \in LookupIds, SelectLookup(h, l)
       PROVE  LookupTypeOK'
  <2>1. /\ lookups[l].asked \in 0..MaxAsked /\ lookups[l].attempts \in Nat
        /\ lookups[l].row \in Items \cup {NoItem}
    BY DEF Lookup
  <2>2. held' \in [Handlers -> Helds]
    BY <1>12, <2>1, NullTypes DEF SelectLookup, Helds
  <2> QED  BY <1>12, <2>2 DEF SelectLookup, Goto, requestVars, lookupHistory, Helds
<1>13. ASSUME NEW h \in Handlers, SelectNothing(h) PROVE LookupTypeOK'
  BY <1>13 DEF SelectNothing, Goto, requestVars, lookupHistory
<1>14. ASSUME NEW h \in Handlers, MarkProcessing(h) PROVE LookupTypeOK'
  <2>1. lookups' \in [LookupIds -> Lookup]
    BY <1>14, FieldsType DEF MarkProcessing, HeldInv, Working
  <2> QED  BY <1>14, <2>1 DEF MarkProcessing, Goto, requestVars
<1>15. ASSUME NEW h \in Handlers, WriteAnswer(h) PROVE LookupTypeOK'
  BY <1>15 DEF WriteAnswer, Goto, requestVars, lookupHistory
<1>16. ASSUME NEW h \in Handlers, MarkDone(h) \/ MarkNotFound(h) \/ MarkLimited(h) \/ MarkError(h)
       PROVE  LookupTypeOK'
  <2> USE <1>16, MarkType
  <2>0. Working(h) => lookups[held[h].id].attempts \in Nat
    BY DEF HeldInv, Lookup
  <2>1. CASE MarkDone(h)
    BY <2>0, <2>1 DEF MarkDone, Working
  <2>2. CASE MarkNotFound(h)
    BY <2>0, <2>2 DEF MarkNotFound, Working
  <2>3. CASE MarkLimited(h)
    BY <2>3 DEF MarkLimited
  <2>4. CASE MarkError(h)
    BY <2>4 DEF MarkError
  <2> QED  BY <2>1, <2>2, <2>3, <2>4
<1>17. ASSUME NEW h \in Handlers, AskPending(h) PROVE LookupTypeOK'
  BY <1>17 DEF AskPending, Goto, Waiting, requestVars, lookupHistory
<1>18. ASSUME NEW h \in Handlers, EndJob(h) PROVE LookupTypeOK'
  BY <1>18 DEF EndJob, Goto, requestVars, lookupHistory
<1>19. ASSUME NEW h \in Handlers, HandlerRaises(h) \/ HandlerDies(h) PROVE LookupTypeOK'
  <2>1. held' \in [Handlers -> Helds]
    BY <1>19, NullTypes DEF HandlerRaises, HandlerDies, Helds
  <2>2. job' \in [state : {"none", "pending", "running"}, holder : Handlers \cup {NoHandler}]
    BY <1>19 DEF HandlerRaises, HandlerDies
  <2>3. hpc' \in [Handlers -> Hpc]
    BY <1>19 DEF HandlerRaises, HandlerDies, Goto, Hpc
  <2>4. again' \in [Handlers -> BOOLEAN]
    BY <1>19 DEF HandlerRaises, HandlerDies
  <2>5. faults' \in Nat
    BY <1>19 DEF HandlerRaises, HandlerDies
  <2> QED  BY <1>19, <2>1, <2>2, <2>3, <2>4, <2>5
           DEF HandlerRaises, HandlerDies, requestVars, Hpc, Helds
<1>20. CASE LeaseEnds
  BY <1>20 DEF LeaseEnds, handlerVars, requestVars
<1>21. ASSUME NEW i \in Items, EditCard(i) PROVE LookupTypeOK'
  <2>1. answer' \in [Items -> 0..MaxAsked]
    BY <1>21, NullTypes DEF EditCard
  <2>2. overtaken' \in [LookupIds -> BOOLEAN]
    BY <1>21, RewrittenType DEF EditCard
  <2> QED  BY <1>21, <2>1, <2>2 DEF EditCard, handlerVars, requestVars
<1> QED
  BY <1>1, <1>2, <1>3, <1>4, <1>5, <1>6, <1>7, <1>8, <1>9, <1>10, <1>11, <1>12, <1>13, <1>14,
     <1>15, <1>16, <1>17, <1>18, <1>19, <1>20, <1>21, UndoType, MergeType
  DEF LookupNext, AskerNext, HandlerNext


-----------------------------------------------------------------------------
(* What the statements of requests and handlers do to the lookups.         *)

\* A mark writes the status of the lookup it holds, if that is still there,
\* and no other; it never writes what was asked, or for which card.
LEMMA MarkEffect ==
    ASSUME LookupTypeOK, HeldInv, NEW h \in Handlers, hpc[h] \in {"looking", "found"},
           NEW verdict \in {"pending"} \cup EndStatus, NEW n \in Nat, Mark(h, verdict, n)
    PROVE  /\ held[h].id \in LookupIds
           /\ \A k \in LookupIds :
                /\ lookups'[k].asked = lookups[k].asked /\ lookups'[k].row = lookups[k].row
                /\ lookups'[k].status = IF k = held[h].id /\ Listed(k) THEN verdict
                                        ELSE lookups[k].status
<1> DEFINE l == held[h].id
           marked == [lookups EXCEPT ![l].status = verdict, ![l].attempts = n,
                                     ![l].due = (verdict # "pending")]
<1>1. l \in LookupIds
  BY DEF HeldInv, Working
<1>2. /\ marked \in [LookupIds -> Lookup]
      /\ \A k \in LookupIds :
           /\ marked[k].asked = lookups[k].asked /\ marked[k].row = lookups[k].row
           /\ marked[k].status = IF k = l THEN verdict ELSE lookups[k].status
  <2> DEFINE mine == Stamped(lookups[l], verdict, n)
  <2>1. marked = [lookups EXCEPT ![l] = mine]
    BY <1>1 DEF Stamped, LookupTypeOK
  <2>2. lookups \in [LookupIds -> Lookup]
    BY DEF LookupTypeOK
  <2>3. /\ mine \in Lookup /\ mine.status = verdict
        /\ mine.asked = lookups[l].asked /\ mine.row = lookups[l].row
    BY <1>1, <2>2, StampedType
  <2> HIDE DEF marked, l, mine
  <2> QED  BY <1>1, <2>1, <2>2, <2>3
<1>3. lookups' = IF Listed(l) THEN Announced(marked, l) ELSE lookups
  BY DEF Mark
<1> HIDE DEF marked, l
<1>4. CASE Listed(l)
  <2>1. \A k \in LookupIds : /\ lookups'[k].status = marked[k].status
                             /\ lookups'[k].row = marked[k].row
                             /\ lookups'[k].asked = marked[k].asked
    BY <1>1, <1>2, <1>3, <1>4, AnnouncedKeeps
  <2> QED  BY <1>1, <1>2, <1>4, <2>1 DEF l
<1>5. CASE ~Listed(l)
  BY <1>1, <1>3, <1>5 DEF l
<1> QED  BY <1>4, <1>5

\* The four ways to mark a lookup.
Marks(h) == MarkDone(h) \/ MarkNotFound(h) \/ MarkLimited(h) \/ MarkError(h)
LEMMA MarksCases ==
    ASSUME LookupTypeOK, HeldInv, NEW h \in Handlers, Marks(h)
    PROVE  /\ hpc[h] \in {"looking", "found"}
           /\ \E verdict \in {"pending"} \cup EndStatus, n \in Nat :
                Mark(h, verdict, n) /\ (verdict = "done" => hpc[h] = "found")
<1>0. Working(h) => lookups[held[h].id].attempts \in Nat
  BY DEF HeldInv, LookupTypeOK, Lookup
<1>1. CASE MarkDone(h)
  BY <1>0, <1>1 DEF MarkDone, Working
<1>2. CASE MarkNotFound(h)
  BY <1>0, <1>2 DEF MarkNotFound, Working
<1>3. held[h].attempts \in Nat
  BY DEF LookupTypeOK
<1>4. CASE MarkLimited(h)
  BY <1>3, <1>4 DEF MarkLimited
<1>5. CASE MarkError(h)
  BY <1>3, <1>5 DEF MarkError
<1> QED  BY <1>1, <1>2, <1>4, <1>5 DEF Marks

\* Nothing of a lookup but its card is changed; not even its card.
Moved(l, i) == /\ lookups'[l].row = i /\ lookups'[l].status = lookups[l].status
               /\ lookups'[l].asked = lookups[l].asked
               /\ lookups'[l].notified = lookups[l].notified
Kept(l) == Moved(l, lookups[l].row)
\* A lookup that goes back to the queue unchanged, to be told of again.
Requeued(l) == /\ lookups'[l].status = "pending" /\ lookups'[l].asked = lookups[l].asked
               /\ lookups'[l].row = lookups[l].row /\ ~lookups'[l].notified
\* Only its status is written.
Turned(l, verdict) == /\ lookups'[l].status = verdict /\ lookups'[l].asked = lookups[l].asked
                      /\ lookups'[l].row = lookups[l].row
                      /\ lookups'[l].notified = lookups[l].notified
Gone(l) == lookups'[l].status = "gone"

LEMMA EnqueueEffect ==
    ASSUME LookupTypeOK, NEW r \in Askers, NEW i \in Items, NEW l \in LookupIds,
           EnqueueLookup(r, i, l)
    PROVE  /\ lookups'[l].status = "pending" /\ lookups'[l].row = i /\ ~lookups'[l].notified
           /\ \A k \in LookupIds \ {l} : Kept(k)
           /\ l \in LookupsOf({i}) \/ (l = asks + 1 /\ LookupsOf({i}) = {})
<1>1. lookups \in [LookupIds -> Lookup] /\ asks + 1 \in 0..MaxAsked
  BY LookupBounds DEF LookupTypeOK, EnqueueLookup
<1> DEFINE mine == Asked(lookups[l], i, asks + 1)
<1>2. lookups' = [lookups EXCEPT ![l] = mine]
  BY <1>1 DEF EnqueueLookup, Asked
<1>3. mine.status = "pending" /\ mine.row = i /\ ~mine.notified
  BY <1>1, AskedType
<1> HIDE DEF mine
<1> QED  BY <1>1, <1>2, <1>3 DEF Kept, Moved, EnqueueLookup

LEMMA RetryAllEffect ==
    ASSUME LookupTypeOK, NEW r \in Askers, RetryAll(r), NEW l \in LookupIds
    PROVE  IF lookups[l].status \in RetryStatus THEN Requeued(l) ELSE Kept(l)
<1>1. lookups \in [LookupIds -> Lookup]
  BY DEF LookupTypeOK
<1> QED  BY <1>1, RetriedType DEF RetryAll, Requeued, Kept, Moved

LEMMA RetryOneEffect ==
    ASSUME LookupTypeOK, NEW r \in Askers, RetryOneWrite(r), NEW l \in LookupIds
    PROVE  IF l = chosen[r] /\ Listed(l) THEN Requeued(l) ELSE Kept(l)
<1>1. lookups \in [LookupIds -> Lookup]
  BY DEF LookupTypeOK
<1> QED  BY <1>1, RetriedType DEF RetryOneWrite, Requeued, Kept, Moved

LEMMA ResetEffect ==
    ASSUME LookupTypeOK, NEW r \in Askers, ResetProcessing(r), NEW l \in LookupIds
    PROVE  IF lookups[l].status = "processing" THEN Turned(l, "pending") ELSE Kept(l)
<1>1. lookups \in [LookupIds -> Lookup]
  BY DEF LookupTypeOK
<1>2. lookups[l] \in Lookup
  BY <1>1
<1>3. lookups'[l] = [lookups[l] EXCEPT !.status = IF lookups[l].status = "processing"
                                                 THEN "pending" ELSE lookups[l].status]
  BY <1>1 DEF ResetProcessing
<1> QED  BY <1>2, <1>3 DEF Turned, Kept, Moved, Lookup

LEMMA RemovalEffect ==
    ASSUME LookupTypeOK, NEW gone, lookups' = LookupsWithout(gone), NEW l \in LookupIds
    PROVE  IF l \in gone THEN Gone(l) ELSE Kept(l)
BY NoLookupType DEF LookupsWithout, Gone, Kept, Moved

LEMMA DueEffect ==
    ASSUME LookupTypeOK, NEW k \in LookupIds, LookupDue(k), NEW l \in LookupIds
    PROVE  Kept(l)
<1>1. lookups \in [LookupIds -> Lookup]
  BY DEF LookupTypeOK
<1> QED  BY <1>1, FieldsType DEF LookupDue, Kept, Moved

LEMMA ProcessingEffect ==
    ASSUME LookupTypeOK, NEW h \in Handlers, MarkProcessing(h), NEW l \in LookupIds
    PROVE  IF l = held[h].id /\ Listed(l) THEN Turned(l, "processing") ELSE Kept(l)
<1>1. lookups \in [LookupIds -> Lookup]
  BY DEF LookupTypeOK
<1> QED  BY <1>1, FieldsType DEF MarkProcessing, Kept, Moved, Turned

\* A merge moves at most one lookup, to a card that has none, and removes the
\* others of the rows that go.
MergeMoves(r, moved) ==
    LET i == plan[r].keep
        theirs == LookupsOf(plan[r].drop)
    IN
    /\ moved \subseteq theirs /\ \A l, k \in moved : l = k
    /\ moved # {} => LookupsOf({i}) = {}
    /\ \A l \in LookupIds :
         /\ IF l \in moved THEN Moved(l, i) ELSE IF l \in theirs THEN Gone(l) ELSE Kept(l)
         /\ unheard'[l] <=> unheard[l] /\ l \notin theirs \ moved
         /\ overtaken'[l] <=> \/ Rewritten(i, plan[r].shows)[l]
                              \/ l \in moved /\ (Answered(l) \/ InWork(l, i))
    /\ dropped' = Missing(theirs \ moved)

LEMMA MergeEffect ==
    ASSUME LookupTypeOK, Placed, NEW r \in Askers, MergeRows(r)
    PROVE  \E moved : MergeMoves(r, moved)
<1> DEFINE i == plan[r].keep
           theirs == LookupsOf(plan[r].drop)
           Theirs == IF LookupsOf({i}) # {} \/ theirs = {} THEN {{}} ELSE {{l} : l \in theirs}
<1>1. PICK moved \in Theirs :
        /\ lookups' = [l \in LookupIds |-> IF l \in moved THEN [lookups[l] EXCEPT !.row = i]
                                           ELSE LookupsWithout(theirs)[l]]
        /\ unheard' = [l \in LookupIds |-> unheard[l] /\ l \notin theirs \ moved]
        /\ dropped' = Missing(theirs \ moved)
        /\ overtaken' = [l \in LookupIds |->
              Rewritten(i, plan[r].shows)[l] \/ (l \in moved /\ (Answered(l) \/ InWork(l, i)))]
  BY DEF MergeRows
<1>2. i \in Items
  BY DEF MergeRows, Placed
<1>3. /\ moved \subseteq theirs /\ \A l, k \in moved : l = k
      /\ moved # {} => LookupsOf({i}) = {}
  OBVIOUS
<1> HIDE DEF theirs, i, Theirs
<1>4. ASSUME NEW l \in LookupIds
      PROVE  IF l \in moved THEN Moved(l, i) ELSE IF l \in theirs THEN Gone(l) ELSE Kept(l)
  <2>1. CASE l \in moved
    <3>1. lookups'[l] = [lookups[l] EXCEPT !.row = i] /\ lookups[l] \in Lookup
      BY <1>1, <2>1 DEF LookupTypeOK
    <3> QED  BY <1>2, <2>1, <3>1, FieldsType DEF Moved
  <2>2. CASE l \notin moved
    <3>1. lookups'[l] = IF l \in theirs THEN NoLookup("gone") ELSE lookups[l]
      BY <1>1, <2>2 DEF LookupsWithout
    <3> QED  BY <2>2, <3>1, NoLookupType DEF Gone, Kept, Moved
  <2> QED  BY <2>1, <2>2
<1>5. MergeMoves(r, moved)
  BY <1>1, <1>3, <1>4 DEF MergeMoves, theirs, i
<1> QED  BY <1>5

-----------------------------------------------------------------------------
(* Lookups and their cards.                                                *)

\* A handler that goes on works at what it worked at.
LEMMA HeldStep ==
    ASSUME LookupTypeOK, HeldInv, Placed, LookupNext
    PROVE  HeldInv'
<1>1. ASSUME NEW h \in Handlers, Marks(h) PROVE HeldInv'
  BY <1>1, MarksCases, MarkType
<1>2. ASSUME NEW h \in Handlers, NEW l \in LookupIds, SelectLookup(h, l) PROVE HeldInv'
  <2>1. lookups[l].row \in Items
    BY <1>2 DEF SelectLookup, Waiting, Placed, Listed, LookupTypeOK
  <2> QED  BY <1>2, <2>1 DEF SelectLookup, Goto, HeldInv, Working, LookupTypeOK
<1>3. ASSUME NEW h \in Handlers, HandlerNext(h), ~Marks(h),
             \A l \in LookupIds : ~SelectLookup(h, l)
      PROVE  HeldInv'
  <2>1. \A g \in Handlers : Working(g)' => Working(g) /\ held'[g] = held[g]
    BY <1>3 DEF HandlerNext, Marks, ClaimJob, SelectNothing, MarkProcessing, WriteAnswer,
                AskPending, EndJob, HandlerRaises, HandlerDies, Goto, Working, LookupTypeOK
  <2> QED  BY <2>1 DEF HeldInv
<1>4. CASE UNCHANGED handlerVars
  BY <1>4 DEF handlerVars, HeldInv, Working
<1>5. ASSUME NEW r \in Askers, AskerNext(r) PROVE UNCHANGED handlerVars
  BY <1>5 DEF AskerNext, EnqueueLookup, RetryOneRead, RetryAll, RetryOneWrite, ResetProcessing,
              StartJob, AskerFails, UndoRow, MergeRead, UndoLookup, MergeRows, MergeFails,
              MergeLoses
<1>6. ASSUME \/ \E i \in Items : DeleteCard(i) \/ EditCard(i)
             \/ \E l \in LookupIds : LookupDue(l)
             \/ SeedLookups \/ LeaseEnds
      PROVE  UNCHANGED handlerVars
  BY <1>6 DEF DeleteCard, EditCard, LookupDue, SeedLookups, LeaseEnds
<1> QED
  BY <1>1, <1>2, <1>3, <1>4, <1>5, <1>6 DEF LookupNext

\* No card, and no lookup of a card, appears.
LEMMA PlacedKept ==
    ASSUME LookupTypeOK, Placed, LookupTypeOK', cards' = cards, asks' \in {asks, asks + 1},
           \A l \in LookupIds : /\ Listed(l)' => Listed(l) /\ lookups'[l].row = lookups[l].row
                                /\ lookups[l].status = "none" => lookups'[l].status = "none",
           \A r \in Askers : apc'[r] = "merge" => apc[r] = "merge" /\ plan'[r] = plan[r]
    PROVE  Placed'
<1>1. \A l \in LookupIds : l > asks' => l > asks
  BY LookupBounds DEF LookupTypeOK, LookupIds
<1> QED  BY <1>1 DEF Placed

LEMMA PlacedStep ==
    ASSUME LookupTypeOK, HeldInv, Placed, LookupNext, LookupTypeOK'
    PROVE  Placed'
<1> DEFINE Still(l) == /\ Listed(l)' => Listed(l) /\ lookups'[l].row = lookups[l].row
                       /\ lookups[l].status = "none" => lookups'[l].status = "none"
<1>1. ASSUME NEW r \in Askers, NEW i \in Items, NEW l \in LookupIds, EnqueueLookup(r, i, l)
      PROVE  Placed'
  <2>1. /\ lookups'[l].row = i /\ \A k \in LookupIds \ {l} : Kept(k)
        /\ l \in LookupsOf({i}) \/ (l = asks + 1 /\ LookupsOf({i}) = {})
    BY <1>1, EnqueueEffect
  <2>2. i \in cards /\ asks' = asks + 1 /\ UNCHANGED <<cards, plan>>
    BY <1>1 DEF EnqueueLookup
  <2>3. \A k \in LookupIds \ {l} : (Listed(k)' <=> Listed(k)) /\ lookups'[k].row = lookups[k].row
    BY <2>1 DEF Kept, Moved, Listed
  <2>4. \A k \in LookupIds \ {l} : Listed(k) => lookups[k].row # i
    BY <2>1 DEF LookupsOf, Placed
  <2>5. \A k \in LookupIds : Listed(k)' => lookups'[k].row \in cards'
    BY <2>1, <2>2, <2>3 DEF Placed
  <2>6. \A k, m \in LookupIds :
          Listed(k)' /\ Listed(m)' /\ lookups'[k].row = lookups'[m].row => k = m
    BY <2>1, <2>3, <2>4 DEF Placed
  <2>7. l <= asks + 1
    BY <2>1 DEF LookupsOf, Placed, Listed, LookupTypeOK, LookupIds
  <2>8. \A k \in LookupIds : k > asks' => lookups'[k].status = "none"
    <3> SUFFICES ASSUME NEW k \in LookupIds, k > asks + 1 PROVE lookups'[k].status = "none"
      BY <2>2
    <3>1. k > asks /\ k # l
      BY <2>7 DEF LookupTypeOK, LookupIds
    <3> QED  BY <2>1, <3>1 DEF Placed, Kept, Moved
  <2>9. \A q \in Askers : apc'[q] = "merge" => apc[q] = "merge" /\ plan'[q] = plan[q]
    BY <1>1, <2>2 DEF EnqueueLookup, LookupTypeOK
  <2> QED  BY <2>5, <2>6, <2>8, <2>9 DEF Placed
<1>2. ASSUME NEW r \in Askers,
             \/ RetryAll(r) \/ RetryOneWrite(r) \/ ResetProcessing(r) \/ StartJob(r)
             \/ AskerFails(r) \/ MergeFails(r)
             \/ \E l \in LookupIds : RetryOneRead(r, l)
             \/ \E i \in Items : UndoRow(r, i)
      PROVE  Placed'
  <2>1. \A l \in LookupIds : Still(l)
    <3>1. CASE RetryAll(r) \/ RetryOneWrite(r) \/ ResetProcessing(r)
      BY <3>1, RetryAllEffect, RetryOneEffect, ResetEffect
      DEF Kept, Moved, Requeued, Turned, Listed, RetryStatus
    <3>2. CASE UNCHANGED lookups
      BY <3>2 DEF Listed
    <3> QED  BY <1>2, <3>1, <3>2
             DEF StartJob, AskerFails, MergeFails, RetryOneRead, UndoRow, lookupHistory
  <2>2. cards' = cards /\ asks' \in {asks, asks + 1}
    BY <1>2 DEF RetryAll, RetryOneWrite, ResetProcessing, StartJob, AskerFails, MergeFails,
                RetryOneRead, UndoRow, lookupHistory
  <2>3. \A q \in Askers : apc'[q] = "merge" => apc[q] = "merge" /\ plan'[q] = plan[q]
    BY <1>2 DEF RetryAll, RetryOneWrite, ResetProcessing, StartJob, AskerFails, MergeFails,
                RetryOneRead, UndoRow, LookupTypeOK
  <2> QED  BY <2>1, <2>2, <2>3, PlacedKept
<1>3. ASSUME NEW r \in Askers, UndoLookup(r) PROVE Placed'
  <2>1. PICK gone : lookups' = LookupsWithout(gone) /\ \A l \in gone : Listed(l)
    BY <1>3 DEF UndoLookup, LookupsOf
  <2>2. \A l \in LookupIds : Still(l)
    BY <2>1, RemovalEffect DEF Gone, Kept, Moved, Listed
  <2>3. cards' = cards /\ asks' = asks
    BY <1>3 DEF UndoLookup
  <2>4. \A q \in Askers : apc'[q] = "merge" => apc[q] = "merge" /\ plan'[q] = plan[q]
    BY <1>3 DEF UndoLookup, LookupTypeOK
  <2> QED  BY <2>2, <2>3, <2>4, PlacedKept
<1>4. ASSUME NEW r \in Askers, NEW i \in Items, NEW others \in SUBSET Items,
             MergeRead(r, i, others)
      PROVE  Placed'
  <2>1. UNCHANGED <<lookups, cards, asks>>
    BY <1>4 DEF MergeRead, lookupHistory
  <2>2. plan'[r].keep = i /\ plan'[r].drop = others
    BY <1>4 DEF MergeRead, LookupTypeOK
  <2>3. \A q \in Askers \ {r} : apc'[q] = apc[q] /\ plan'[q] = plan[q]
    BY <1>4 DEF MergeRead, LookupTypeOK
  <2>4. i \notin others /\ \A j \in others : Owner[j] = Owner[i]
    BY <1>4 DEF MergeRead
  <2> QED  BY <2>1, <2>2, <2>3, <2>4 DEF Placed, Listed
<1>5. ASSUME NEW r \in Askers, MergeRows(r) PROVE Placed'
  <2> DEFINE i == plan[r].keep
             theirs == LookupsOf(plan[r].drop)
  <2>1. PICK moved : MergeMoves(r, moved)
    BY <1>5, MergeEffect
  <2>2. i \in cards /\ i \notin plan[r].drop /\ cards' = cards \ plan[r].drop /\ asks' = asks
    BY <1>5 DEF MergeRows, Placed
  <2>3. \A l \in LookupIds : Listed(l)' =>
          /\ Listed(l)
          /\ \/ l \in moved /\ lookups'[l].row = i
             \/ l \notin theirs /\ lookups'[l].row = lookups[l].row
    BY <2>1 DEF MergeMoves, Moved, Gone, Kept, Listed, LookupsOf
  <2>4. \A l \in LookupIds : Listed(l)' => lookups'[l].row \in cards'
    BY <2>2, <2>3 DEF Placed, LookupsOf
  <2>5. \A l, k \in LookupIds :
          Listed(l)' /\ Listed(k)' /\ lookups'[l].row = lookups'[k].row => l = k
    <3>1. \A l, k \in moved : l = k
      BY <2>1 DEF MergeMoves
    <3>2. moved # {} => \A l \in LookupIds : Listed(l) => lookups[l].row # i
      BY <2>1 DEF MergeMoves, LookupsOf
    <3> QED  BY <2>3, <3>1, <3>2 DEF Placed
  <2>6. \A l \in LookupIds : l > asks => lookups'[l].status = "none"
    <3>1. \A l \in LookupIds : lookups[l].status = "none" => l \notin theirs
      BY DEF LookupsOf, Listed
    <3> QED  BY <2>1, <3>1 DEF Placed, MergeMoves, Kept, Moved
  <2>7. \A q \in Askers : apc'[q] = "merge" => apc[q] = "merge" /\ plan'[q] = plan[q]
    BY <1>5 DEF MergeRows, LookupTypeOK
  <2> QED  BY <2>2, <2>4, <2>5, <2>6, <2>7 DEF Placed
<1>6. ASSUME NEW r \in Askers, MergeLoses(r) PROVE Placed'
  <2>1. UNCHANGED <<lookups, asks>> /\ cards' = cards \ plan[r].drop
    BY <1>6 DEF MergeLoses, lookupHistory
  <2>2. \A l \in LookupIds : Listed(l) => lookups[l].row \notin plan[r].drop
    BY <1>6 DEF MergeLoses, LookupsOf
  <2>3. \A q \in Askers : apc'[q] = "merge" => apc[q] = "merge" /\ plan'[q] = plan[q]
    BY <1>6 DEF MergeLoses, LookupTypeOK
  <2> QED  BY <2>1, <2>2, <2>3 DEF Placed, Listed
<1>7. ASSUME NEW i \in Items, DeleteCard(i) PROVE Placed'
  <2>1. lookups' = LookupsWithout(LookupsOf({i})) /\ cards' = cards \ {i}
    BY <1>7 DEF DeleteCard
  <2>2. \A l \in LookupIds : Still(l) /\ (Listed(l)' => lookups[l].row # i)
    BY <2>1, RemovalEffect DEF Gone, Kept, Moved, Listed, LookupsOf
  <2>3. UNCHANGED <<asks, apc, plan>>
    BY <1>7 DEF DeleteCard, requestVars
  <2> QED  BY <2>1, <2>2, <2>3 DEF Placed
<1>8. ASSUME NEW h \in Handlers, Marks(h) PROVE Placed'
  <2>1. \A l \in LookupIds : Still(l)
    BY <1>8, MarksCases, MarkEffect DEF Listed
  <2>2. PICK verdict \in {"pending"} \cup EndStatus, n \in Nat : Mark(h, verdict, n)
    BY <1>8, MarksCases
  <2>3. UNCHANGED <<cards, asks, apc, plan>>
    BY <2>2 DEF Mark, requestVars
  <2> QED  BY <2>1, <2>3, PlacedKept
<1>9. ASSUME NEW h \in Handlers, MarkProcessing(h) PROVE Placed'
  <2>1. \A l \in LookupIds : Still(l)
    BY <1>9, ProcessingEffect DEF Turned, Kept, Moved, Listed
  <2>2. UNCHANGED <<cards, asks, apc, plan>>
    BY <1>9 DEF MarkProcessing, requestVars
  <2> QED  BY <2>1, <2>2, PlacedKept
<1>10. ASSUME NEW k \in LookupIds, LookupDue(k) PROVE Placed'
  <2>1. \A l \in LookupIds : Still(l)
    BY <1>10, DueEffect DEF Kept, Moved, Listed
  <2>2. UNCHANGED <<cards, asks, apc, plan>>
    BY <1>10 DEF LookupDue, requestVars, lookupHistory
  <2> QED  BY <2>1, <2>2, PlacedKept
<1>11. CASE UNCHANGED <<lookups, cards, asks, apc, plan>>
  BY <1>11 DEF Placed, Listed
<1>12. ASSUME NEW h \in Handlers, HandlerNext(h), ~Marks(h), ~MarkProcessing(h)
       PROVE  UNCHANGED <<lookups, cards, asks, apc, plan>>
  BY <1>12 DEF HandlerNext, Marks, ClaimJob, SelectNothing, SelectLookup, WriteAnswer, AskPending,
               EndJob, HandlerRaises, HandlerDies, requestVars, lookupHistory
<1>13. ASSUME SeedLookups \/ LeaseEnds \/ \E i \in Items : EditCard(i)
       PROVE  UNCHANGED <<lookups, cards, asks, apc, plan>>
  BY <1>13 DEF SeedLookups, LeaseEnds, EditCard, requestVars, lookupHistory
<1>14. ASSUME NEW r \in Askers, AskerNext(r) PROVE Placed'
  BY <1>1, <1>2, <1>3, <1>4, <1>5, <1>6, <1>14 DEF AskerNext
<1> QED
  BY <1>7, <1>8, <1>9, <1>10, <1>11, <1>12, <1>13, <1>14 DEF LookupNext

-----------------------------------------------------------------------------
(* A lookup that waits has a job.                                          *)

\* Nobody holds a job that is not running; what began to wait when its holder
\* had looked is known to be unheard.
Heard ==
    /\ job.state # "running" => job.holder = NoHandler
    /\ \A l \in LookupIds : Waiting(l) /\ Deaf => unheard[l]
    /\ NoneStranded

\* Nothing begins to wait and no job ends.
LEMMA HeardKept ==
    ASSUME Heard, job' = job, UNCHANGED handlerVars,
           \A l \in LookupIds : Waiting(l)' => Waiting(l) /\ (unheard[l] => unheard'[l]),
           \A r \in Askers : apc[r] \in {"queued", "reset"} => apc'[r] = apc[r]
    PROVE  Heard'
BY DEF Heard, NoneStranded, Deaf, handlerVars

LEMMA HeardStep ==
    ASSUME LookupTypeOK, HeldInv, Placed, Heard, LookupNext
    PROVE  Heard'
<1> USE NoHandlerAssumption
<1>1. ASSUME NEW r \in Askers, NEW i \in Items, NEW l \in LookupIds, EnqueueLookup(r, i, l)
      PROVE  Heard'
  <2>1. Deaf' = Deaf
    BY <1>1 DEF EnqueueLookup, Deaf, handlerVars
  <2>2. \A k \in LookupIds : Waiting(k)' => k = l \/ Waiting(k)
    <3>1. \A k \in LookupIds \ {l} : Kept(k)
      BY <1>1, EnqueueEffect
    <3> QED  BY <3>1 DEF Waiting, Kept, Moved
  <2>3. /\ unheard'[l] = Deaf /\ \A k \in LookupIds \ {l} : unheard'[k] = unheard[k]
        /\ apc'[r] = "queued" /\ \A q \in Askers \ {r} : apc'[q] = apc[q]
        /\ job' = job
    BY <1>1 DEF EnqueueLookup, LookupTypeOK
  <2> QED  BY <1>1, <2>1, <2>2, <2>3 DEF Heard, NoneStranded
<1>2. ASSUME NEW r \in Askers, RetryAll(r) PROVE Heard'
  BY <1>2, RetryAllEffect
  DEF RetryAll, Heard, NoneStranded, Waiting, Deaf, Kept, Moved, Requeued, LookupTypeOK,
      handlerVars
<1>3. ASSUME NEW r \in Askers, NEW l \in LookupIds, RetryOneRead(r, l) PROVE Heard'
  BY <1>3, HeardKept DEF RetryOneRead, Waiting, LookupTypeOK
<1>4. ASSUME NEW r \in Askers, RetryOneWrite(r) PROVE Heard'
  BY <1>4, RetryOneEffect
  DEF RetryOneWrite, Heard, NoneStranded, Waiting, Deaf, Kept, Moved, Requeued, LookupTypeOK,
      handlerVars, Listed
<1>5. ASSUME NEW r \in Askers, ResetProcessing(r) PROVE Heard'
  <2>1. \A l \in LookupIds : Waiting(l)' => Waiting(l) \/ lookups[l].status = "processing"
    BY <1>5, ResetEffect DEF Waiting, Kept, Moved
  <2>2. \A l \in LookupIds : unheard'[l] <=> IF lookups[l].status = "processing" THEN Deaf
                                              ELSE unheard[l]
    BY <1>5 DEF ResetProcessing
  <2>3. /\ apc'[r] = "reset" /\ \A q \in Askers \ {r} : apc'[q] = apc[q]
        /\ job' = job /\ Deaf' = Deaf
    BY <1>5 DEF ResetProcessing, Deaf, handlerVars, LookupTypeOK
  <2> QED  BY <1>5, <2>1, <2>2, <2>3 DEF ResetProcessing, Heard, NoneStranded, Waiting
<1>6. ASSUME NEW r \in Askers, StartJob(r) PROVE Heard'
  BY <1>6 DEF StartJob, WithJob, Heard, NoneStranded, Waiting, Deaf, LookupTypeOK, handlerVars,
              lookupHistory
<1>7. ASSUME NEW r \in Askers, AskerFails(r) PROVE Heard'
  BY <1>7 DEF AskerFails, Heard, NoneStranded, Waiting, Deaf, LookupTypeOK, handlerVars
<1>8. ASSUME NEW gone, lookups' = LookupsWithout(gone), job' = job, UNCHANGED handlerVars,
             unheard' = [l \in LookupIds |-> unheard[l] /\ l \notin gone],
             \A r \in Askers : apc[r] \in {"queued", "reset"} => apc'[r] = apc[r]
      PROVE  Heard'
  <2>1. \A l \in LookupIds : Waiting(l)' => Waiting(l) /\ l \notin gone
    BY <1>8, RemovalEffect DEF Waiting, Gone, Kept, Moved
  <2> QED  BY <1>8, <2>1, HeardKept
<1>9. ASSUME NEW i \in Items, DeleteCard(i) PROVE Heard'
  BY <1>8, <1>9 DEF DeleteCard, requestVars
<1>10. ASSUME NEW r \in Askers, UndoLookup(r) PROVE Heard'
  BY <1>8, <1>10 DEF UndoLookup, LookupTypeOK
<1>11. ASSUME NEW r \in Askers, MergeRows(r) PROVE Heard'
  <2>1. PICK moved : MergeMoves(r, moved)
    BY <1>11, MergeEffect
  <2>2. \A l \in LookupIds : Waiting(l)' => Waiting(l) /\ (unheard[l] => unheard'[l])
    BY <2>1 DEF MergeMoves, Waiting, Moved, Kept, Gone
  <2> QED  BY <1>11, <2>2, HeardKept DEF MergeRows, LookupTypeOK
<1>12. ASSUME NEW r \in Askers,
              \/ MergeFails(r) \/ MergeLoses(r)
              \/ \E i \in Items : UndoRow(r, i) \/ \E others \in SUBSET Items : MergeRead(r, i, others)
       PROVE  Heard'
  <2>1. job' = job /\ UNCHANGED handlerVars /\ UNCHANGED <<lookups, unheard>>
    BY <1>12 DEF MergeFails, MergeLoses, UndoRow, MergeRead, lookupHistory
  <2>2. \A q \in Askers : apc[q] \in {"queued", "reset"} => apc'[q] = apc[q]
    BY <1>12 DEF MergeFails, MergeLoses, UndoRow, MergeRead, LookupTypeOK
  <2> QED  BY <2>1, <2>2, HeardKept DEF Waiting
<1>13. CASE SeedLookups
  BY <1>13 DEF SeedLookups, WithJob, Heard, NoneStranded, Waiting, Deaf, LookupTypeOK, handlerVars,
               requestVars, lookupHistory
<1>14. ASSUME NEW k \in LookupIds, LookupDue(k) PROVE Heard'
  BY <1>14, DueEffect, HeardKept DEF LookupDue, Waiting, Kept, Moved, requestVars, lookupHistory
<1>15. ASSUME NEW i \in Items, EditCard(i) PROVE Heard'
  BY <1>15, HeardKept DEF EditCard, Waiting, requestVars
<1>16. ASSUME NEW h \in Handlers, Marks(h) PROVE Heard'
  <2>1. PICK verdict \in {"pending"} \cup EndStatus, n \in Nat : Mark(h, verdict, n)
    BY <1>16, MarksCases
  <2>2. hpc[h] \in {"looking", "found"}
    BY <1>16, MarksCases
  <2>0. PICK l \in LookupIds : l = held[h].id
    BY <2>2 DEF HeldInv, Working
  <2>3. Deaf' <=> Deaf
    BY <2>1, <2>2 DEF Mark, Deaf, Goto, LookupTypeOK
  <2>4. \A k \in LookupIds : lookups'[k].status = IF k = l /\ Listed(k) THEN verdict
                                                  ELSE lookups[k].status
    BY <2>0, <2>1, <2>2, MarkEffect
  <2>5. /\ Waiting(l)' => verdict = "pending"
        /\ \A k \in LookupIds \ {l} : Waiting(k)' <=> Waiting(k)
    BY <2>2, <2>4 DEF Waiting, Listed
  <2>6. /\ unheard'[l] <=> (verdict = "pending" /\ (job.holder # h \/ Deaf))
        /\ \A k \in LookupIds \ {l} : unheard'[k] = unheard[k]
        /\ job' = job /\ apc' = apc
    BY <2>0, <2>1, <2>2 DEF Mark, LookupTypeOK, requestVars
  <2>7. Deaf => job.holder # h
    BY <2>2 DEF Deaf
  <2> QED  BY <2>2, <2>3, <2>5, <2>6, <2>7 DEF Heard, NoneStranded
<1>17. ASSUME NEW h \in Handlers, ClaimJob(h) PROVE Heard'
  BY <1>17 DEF ClaimJob, Goto, Heard, NoneStranded, Waiting, Deaf, LookupTypeOK, requestVars,
               lookupHistory
<1>18. ASSUME NEW h \in Handlers,
              \/ SelectNothing(h) \/ WriteAnswer(h) \/ \E l \in LookupIds : SelectLookup(h, l)
       PROVE  Heard'
  BY <1>18 DEF SelectNothing, WriteAnswer, SelectLookup, Goto, Heard, NoneStranded, Waiting, Deaf,
               LookupTypeOK, requestVars, lookupHistory
<1>19. ASSUME NEW h \in Handlers, MarkProcessing(h) PROVE Heard'
  BY <1>19, ProcessingEffect
  DEF MarkProcessing, Goto, Heard, NoneStranded, Waiting, Deaf, Kept, Moved, Turned, LookupTypeOK,
      requestVars, Listed
<1>20. ASSUME NEW h \in Handlers, AskPending(h) PROVE Heard'
  BY <1>20 DEF AskPending, Goto, Heard, NoneStranded, Waiting, Deaf, LookupTypeOK, requestVars,
               lookupHistory
<1>21. ASSUME NEW h \in Handlers, EndJob(h) PROVE Heard'
  BY <1>21 DEF EndJob, Goto, Heard, NoneStranded, Waiting, Deaf, LookupTypeOK, requestVars,
               lookupHistory
<1>22. ASSUME NEW h \in Handlers, HandlerRaises(h) \/ HandlerDies(h) PROVE Heard'
  BY <1>22 DEF HandlerRaises, HandlerDies, Goto, Heard, NoneStranded, Waiting, Deaf, LookupTypeOK,
               requestVars
<1>23. CASE LeaseEnds
  BY <1>23 DEF LeaseEnds, Heard, NoneStranded, Waiting, Deaf, LookupTypeOK, handlerVars, requestVars
<1>24. ASSUME NEW r \in Askers, AskerNext(r) PROVE Heard'
  BY <1>1, <1>2, <1>3, <1>4, <1>5, <1>6, <1>7, <1>10, <1>11, <1>12, <1>24 DEF AskerNext
<1>25. ASSUME NEW h \in Handlers, HandlerNext(h) PROVE Heard'
  BY <1>16, <1>17, <1>18, <1>19, <1>20, <1>21, <1>22, <1>25 DEF HandlerNext, Marks
<1> QED
  BY <1>9, <1>13, <1>14, <1>15, <1>23, <1>24, <1>25 DEF LookupNext

-----------------------------------------------------------------------------
(* A lookup in work is held.                                               *)

\* No lookup is taken into work, and no handler lets one go, but for a fault.
LEMMA HoldingKept ==
    ASSUME ProcessingIsHeld, LookupTypeOK, faults' \in Nat, faults' >= faults,
           \A l \in LookupIds : lookups'[l].status = "processing" => lookups[l].status = "processing",
           \/ faults' > 0
           \/ \A h \in Handlers, l \in LookupIds : Holding(h, l) => Holding(h, l)'
    PROVE  ProcessingIsHeld'
BY DEF ProcessingIsHeld, LookupTypeOK

LEMMA ProcessingStep ==
    ASSUME LookupTypeOK, HeldInv, Placed, ProcessingIsHeld, LookupNext
    PROVE  ProcessingIsHeld'
<1> DEFINE NoneTaken ==
      \A l \in LookupIds : lookups'[l].status = "processing" => lookups[l].status = "processing"
           NoneLeft == \A h \in Handlers, l \in LookupIds : Holding(h, l) => Holding(h, l)'
<1>1. ASSUME NEW r \in Askers, AskerNext(r) PROVE ProcessingIsHeld'
  <2>1. NoneTaken
    <3>1. ASSUME NEW i \in Items, NEW l \in LookupIds, EnqueueLookup(r, i, l) PROVE NoneTaken
      <4>1. lookups'[l].status = "pending" /\ \A k \in LookupIds \ {l} : Kept(k)
        BY <3>1, EnqueueEffect
      <4> QED  BY <4>1 DEF Kept, Moved
    <3>2. CASE RetryAll(r) \/ RetryOneWrite(r) \/ ResetProcessing(r)
      BY <3>2, RetryAllEffect, RetryOneEffect, ResetEffect DEF Kept, Moved, Requeued, Turned
    <3>3. CASE UndoLookup(r)
      BY <3>3, RemovalEffect DEF UndoLookup, Gone, Kept, Moved
    <3>4. CASE MergeRows(r)
      BY <3>4, MergeEffect DEF MergeMoves, Gone, Kept, Moved
    <3>5. CASE UNCHANGED lookups
      BY <3>5
    <3> QED  BY <1>1, <3>1, <3>2, <3>3, <3>4, <3>5
             DEF AskerNext, RetryOneRead, StartJob, AskerFails, UndoRow, MergeRead, MergeFails,
                 MergeLoses, lookupHistory
  <2>2. UNCHANGED handlerVars /\ faults' \in {faults, faults + 1}
    BY <1>1 DEF AskerNext, EnqueueLookup, RetryOneRead, RetryAll, RetryOneWrite, ResetProcessing,
                StartJob, AskerFails, UndoRow, MergeRead, UndoLookup, MergeRows, MergeFails,
                MergeLoses, lookupHistory
  <2>3. NoneLeft
    BY <2>2 DEF handlerVars, Holding, Working
  <2> QED  BY <2>1, <2>2, <2>3, HoldingKept DEF LookupTypeOK
<1>2. ASSUME NEW i \in Items, DeleteCard(i) PROVE ProcessingIsHeld'
  <2>1. NoneTaken
    BY <1>2, RemovalEffect DEF DeleteCard, Gone, Kept, Moved
  <2>2. faults' = faults /\ UNCHANGED handlerVars
    BY <1>2 DEF DeleteCard
  <2> QED  BY <2>1, <2>2, HoldingKept DEF Holding, Working, handlerVars, LookupTypeOK
<1>3. ASSUME NEW l \in LookupIds, LookupDue(l) PROVE ProcessingIsHeld'
  <2>1. NoneTaken
    BY <1>3, DueEffect DEF Kept, Moved
  <2> QED  BY <1>3, <2>1, HoldingKept
           DEF LookupDue, Holding, Working, handlerVars, lookupHistory, LookupTypeOK
<1>4. ASSUME SeedLookups \/ LeaseEnds \/ \E i \in Items : EditCard(i) PROVE ProcessingIsHeld'
  <2>1. UNCHANGED lookups /\ UNCHANGED handlerVars /\ faults' \in {faults, faults + 1}
    BY <1>4 DEF SeedLookups, LeaseEnds, EditCard, handlerVars, lookupHistory
  <2> QED  BY <2>1, HoldingKept DEF Holding, Working, handlerVars, LookupTypeOK
<1>5. ASSUME NEW h \in Handlers,
             \/ ClaimJob(h) \/ SelectNothing(h) \/ WriteAnswer(h) \/ AskPending(h) \/ EndJob(h)
             \/ \E l \in LookupIds : SelectLookup(h, l)
      PROVE  ProcessingIsHeld'
  <2>1. UNCHANGED <<lookups, faults>>
    BY <1>5 DEF ClaimJob, SelectNothing, WriteAnswer, AskPending, EndJob, SelectLookup,
                lookupHistory
  <2>2. \A g \in Handlers : Working(g) => Working(g)' /\ held'[g] = held[g]
    BY <1>5 DEF ClaimJob, SelectNothing, WriteAnswer, AskPending, EndJob, SelectLookup, Goto,
                Working, LookupTypeOK
  <2> QED  BY <2>1, <2>2, HoldingKept DEF Holding, LookupTypeOK
<1>6. ASSUME NEW h \in Handlers, MarkProcessing(h) PROVE ProcessingIsHeld'
  <2>1. \A g \in Handlers, l \in LookupIds : Holding(g, l) => Holding(g, l)'
    BY <1>6 DEF MarkProcessing, Goto, Holding, Working, LookupTypeOK
  <2>2. \A l \in LookupIds : l = held[h].id => Holding(h, l)'
    BY <1>6 DEF MarkProcessing, Goto, Holding, Working, LookupTypeOK
  <2>3. \A l \in LookupIds : l = held[h].id \/ Kept(l)
    BY <1>6, ProcessingEffect
  <2> QED  BY <1>6, <2>1, <2>2, <2>3 DEF MarkProcessing, ProcessingIsHeld, Kept, Moved
<1>7. ASSUME NEW h \in Handlers, Marks(h) PROVE ProcessingIsHeld'
  <2>1. PICK verdict \in {"pending"} \cup EndStatus, n \in Nat : Mark(h, verdict, n)
    BY <1>7, MarksCases
  <2>2. hpc[h] \in {"looking", "found"}
    BY <1>7, MarksCases
  <2>3. \A l \in LookupIds : lookups'[l].status = IF l = held[h].id /\ Listed(l) THEN verdict
                                                  ELSE lookups[l].status
    BY <2>1, <2>2, MarkEffect
  <2>4. \A g \in Handlers, l \in LookupIds : Holding(g, l) => Holding(g, l)' \/ l = held[h].id
    BY <2>1 DEF Mark, Goto, Holding, Working, LookupTypeOK
  <2>5. faults' = faults
    BY <2>1 DEF Mark
  <2> QED  BY <2>3, <2>4, <2>5 DEF ProcessingIsHeld, Listed
<1>8. ASSUME NEW h \in Handlers, HandlerRaises(h) \/ HandlerDies(h) PROVE ProcessingIsHeld'
  BY <1>8, HoldingKept DEF HandlerRaises, HandlerDies, LookupTypeOK
<1> QED
  BY <1>1, <1>2, <1>3, <1>4, <1>5, <1>6, <1>7, <1>8 DEF LookupNext, HandlerNext, Marks

-----------------------------------------------------------------------------
(* Users are told.                                                         *)

\* What a step may do to a lookup of a user while nothing is said: nothing but
\* give it another card of the same owner...
Stays(l) == /\ lookups'[l].status = lookups[l].status
            /\ lookups'[l].notified = lookups[l].notified
            /\ Listed(l) => Owner[lookups'[l].row] = Owner[lookups[l].row]
\* ...open it, or open it again...
Opens(l) == /\ lookups'[l].status \in OpenStatus
            /\ lookups'[l].notified => lookups[l].notified
            /\ Listed(l) => Owner[lookups'[l].row] = Owner[lookups[l].row]
\* ...or remove it, and history keeps whose it was if it was open.
Vanishes(l) == /\ Gone(l)
             /\ \A u \in Members : l \in OpenOf(lookups, u) => u \in dropped'

LEMMA ToldByMoves ==
    ASSUME ToldWhenIdle, dropped \subseteq dropped',
           \A l \in LookupIds : Stays(l) \/ Opens(l) \/ Vanishes(l)
    PROVE  ToldWhenIdle'
<1> SUFFICES ASSUME NEW u \in Members, OpenOf(lookups', u) = {}, EndedOf(lookups', u) # {}
             PROVE  u \in dropped'
  BY DEF ToldWhenIdle
<1>1. CASE OpenOf(lookups, u) = {}
  <2>1. EndedOf(lookups', u) \subseteq EndedOf(lookups, u)
    BY DEF EndedOf, Stays, Opens, Vanishes, Gone, Listed
  <2> QED  BY <1>1, <2>1 DEF ToldWhenIdle
<1>2. ASSUME NEW l \in OpenOf(lookups, u) PROVE u \in dropped'
  <2>1. l \in LookupIds /\ Listed(l) /\ l \notin OpenOf(lookups', u)
    BY <1>2 DEF OpenOf, Listed
  <2>2. ~Stays(l) /\ ~Opens(l)
    BY <1>2, <2>1 DEF OpenOf, Stays, Opens
  <2> QED  BY <1>2, <2>1, <2>2 DEF Vanishes
<1> QED  BY <1>1, <1>2

LEMMA ToldStep ==
    ASSUME LookupTypeOK, HeldInv, Placed, ToldWhenIdle, LookupNext
    PROVE  ToldWhenIdle'
<1>0. \A l \in LookupIds : Kept(l) => Stays(l)
  BY DEF Kept, Moved, Stays
<1>1. ASSUME NEW r \in Askers, NEW i \in Items, NEW l \in LookupIds, EnqueueLookup(r, i, l)
      PROVE  ToldWhenIdle'
  <2>1. /\ lookups'[l].status = "pending" /\ lookups'[l].row = i /\ ~lookups'[l].notified
        /\ \A k \in LookupIds \ {l} : Kept(k)
        /\ l \in LookupsOf({i}) \/ (l = asks + 1 /\ LookupsOf({i}) = {})
    BY <1>1, EnqueueEffect
  <2>2. l = asks + 1 => ~Listed(l)
    BY DEF Placed, Listed, LookupTypeOK
  <2>3. Opens(l)
    BY <2>1, <2>2 DEF Opens, LookupsOf
  <2> QED  BY <1>0, <1>1, <2>1, <2>3, ToldByMoves DEF EnqueueLookup
<1>2. ASSUME NEW r \in Askers, RetryAll(r) \/ RetryOneWrite(r) \/ ResetProcessing(r)
      PROVE  ToldWhenIdle'
  <2>1. \A l \in LookupIds : Kept(l) \/ Requeued(l) \/ Turned(l, "pending")
    BY <1>2, RetryAllEffect, RetryOneEffect, ResetEffect
  <2>2. \A l \in LookupIds : Stays(l) \/ Opens(l)
    BY <1>0, <2>1 DEF Requeued, Turned, Opens
  <2>3. dropped' = dropped
    BY <1>2 DEF RetryAll, RetryOneWrite, ResetProcessing
  <2> QED  BY <2>2, <2>3, ToldByMoves
<1>3. ASSUME NEW gone, lookups' = LookupsWithout(gone), dropped' = Missing(gone)
      PROVE  ToldWhenIdle'
  <2>1. \A l \in LookupIds : Stays(l) \/ (l \in gone /\ Gone(l))
    BY <1>0, <1>3, RemovalEffect
  <2>2. \A l \in gone, u \in Members : l \in OpenOf(lookups, u) => u \in dropped'
    BY <1>3 DEF Missing
  <2>3. dropped \subseteq dropped'
    BY <1>3 DEF Missing
  <2> QED  BY <2>1, <2>2, <2>3, ToldByMoves DEF Vanishes
<1>4. ASSUME NEW i \in Items, DeleteCard(i) PROVE ToldWhenIdle'
  BY <1>3, <1>4 DEF DeleteCard
<1>5. ASSUME NEW r \in Askers, UndoLookup(r) PROVE ToldWhenIdle'
  BY <1>3, <1>5 DEF UndoLookup
<1>6. ASSUME NEW r \in Askers, MergeRows(r) PROVE ToldWhenIdle'
  <2> DEFINE i == plan[r].keep
             theirs == LookupsOf(plan[r].drop)
  <2>1. PICK moved : MergeMoves(r, moved)
    BY <1>6, MergeEffect
  <2>2. \A l \in theirs : Owner[lookups[l].row] = Owner[i]
    BY <1>6 DEF MergeRows, Placed, LookupsOf
  <2>3. \A l \in LookupIds : Stays(l) \/ (l \in theirs \ moved /\ Gone(l))
    BY <1>0, <2>1, <2>2 DEF MergeMoves, Moved, Stays
  <2>4. \A l \in theirs \ moved, u \in Members : l \in OpenOf(lookups, u) => u \in dropped'
    BY <2>1 DEF MergeMoves, Missing
  <2>5. dropped \subseteq dropped'
    BY <2>1 DEF MergeMoves, Missing
  <2> QED  BY <2>3, <2>4, <2>5, ToldByMoves DEF Vanishes
<1>7. ASSUME NEW k \in LookupIds, LookupDue(k) PROVE ToldWhenIdle'
  <2>1. \A l \in LookupIds : Stays(l)
    BY <1>0, <1>7, DueEffect
  <2> QED  BY <1>7, <2>1, ToldByMoves DEF LookupDue, lookupHistory
<1>8. ASSUME NEW h \in Handlers, MarkProcessing(h) PROVE ToldWhenIdle'
  <2>1. \A l \in LookupIds : Kept(l) \/ Turned(l, "processing")
    BY <1>8, ProcessingEffect
  <2>2. \A l \in LookupIds : Stays(l) \/ Opens(l)
    BY <1>0, <2>1 DEF Turned, Opens
  <2>3. dropped' = dropped
    BY <1>8 DEF MarkProcessing
  <2> QED  BY <2>2, <2>3, ToldByMoves
<1>9. ASSUME NEW h \in Handlers, Marks(h) PROVE ToldWhenIdle'
  <2>1. PICK verdict \in {"pending"} \cup EndStatus, n \in Nat : Mark(h, verdict, n)
    BY <1>9, MarksCases
  <2>2. hpc[h] \in {"looking", "found"}
    BY <1>9, MarksCases
  <2>3. PICK l \in LookupIds : l = held[h].id
    BY <2>2 DEF HeldInv, Working
  <2>4. PICK marked : marked = [lookups EXCEPT ![l] = Stamped(lookups[l], verdict, n)]
    OBVIOUS
  <2>5. lookups \in [LookupIds -> Lookup] /\ lookups[l] \in Lookup
    BY DEF LookupTypeOK
  <2>6. /\ marked[l].status = verdict /\ marked[l].notified = lookups[l].notified
        /\ marked[l].row = lookups[l].row
        /\ \A k \in LookupIds \ {l} : marked[k] = lookups[k]
    <3>1. marked[l] = Stamped(lookups[l], verdict, n)
      BY <2>4, <2>5
    <3> QED  BY <2>4, <2>5, <3>1, StampedType
  <2> DEFINE user == Owner[lookups[l].row]
  <2>7. /\ lookups' = IF Listed(l) THEN Announced(marked, l) ELSE lookups
        /\ dropped' = IF Listed(l) /\ verdict \in EndStatus /\ OpenOf(marked, user) = {}
                      THEN dropped \ {user} ELSE dropped
    BY <2>1, <2>3, <2>4, <2>5 DEF Mark, Stamped
  <2>8. CASE ~Listed(l)
    BY <2>7, <2>8, ToldByMoves DEF Stays
  <2>9. CASE Listed(l) /\ verdict = "pending"
    <3>1. lookups' = marked /\ dropped' = dropped
      BY <2>6, <2>7, <2>9 DEF Announced
    <3>2. Opens(l) /\ \A k \in LookupIds \ {l} : Stays(k)
      BY <2>6, <2>9, <3>1 DEF Opens, Stays
    <3> QED  BY <3>1, <3>2, ToldByMoves
  <2>10. CASE Listed(l) /\ verdict \in EndStatus /\ OpenOf(marked, user) # {}
    <3>1. lookups' = marked /\ dropped' = dropped
      BY <2>6, <2>7, <2>10 DEF Announced
    <3> SUFFICES ASSUME NEW u \in Members, OpenOf(marked, u) = {}, EndedOf(marked, u) # {}
                 PROVE  u \in dropped
      BY <3>1 DEF ToldWhenIdle
    <3>2. u # user
      BY <2>10
    <3>3. OpenOf(marked, u) = OpenOf(lookups, u) /\ EndedOf(marked, u) = EndedOf(lookups, u)
      BY <2>6, <3>2 DEF OpenOf, EndedOf
    <3> QED  BY <3>3 DEF ToldWhenIdle
  <2>11. CASE Listed(l) /\ verdict \in EndStatus /\ OpenOf(marked, user) = {}
    <3>1. marked \in [LookupIds -> Lookup]
      BY <2>4, <2>5, StampedType
    <3>2. \A k \in LookupIds :
            /\ lookups'[k].status = marked[k].status /\ lookups'[k].row = marked[k].row
            /\ lookups'[k].notified <=> marked[k].notified \/ k \in EndedOf(marked, user)
      <4>1. /\ lookups' = Announced(marked, l) /\ marked[l].status \in EndStatus
            /\ Owner[marked[l].row] = user
        BY <2>6, <2>7, <2>11
      <4>2. OpenOf(marked, user) = {}
        BY <2>11
      <4> HIDE DEF user
      <4>3. \A k \in LookupIds :
              Announced(marked, l)[k].notified <=> marked[k].notified \/ k \in EndedOf(marked, user)
        BY <3>1, <4>1, <4>2, AnnouncedTells
      <4> QED  BY <3>1, <4>1, <4>3, AnnouncedKeeps
    <3> SUFFICES ASSUME NEW u \in Members, OpenOf(lookups', u) = {}, EndedOf(lookups', u) # {}
                 PROVE  u \in dropped'
      BY DEF ToldWhenIdle
    <3>3. u # user
      BY <3>2 DEF EndedOf
    <3>4. OpenOf(lookups', u) = OpenOf(lookups, u) /\ EndedOf(lookups', u) = EndedOf(lookups, u)
      BY <2>6, <3>2, <3>3 DEF OpenOf, EndedOf
    <3> QED  BY <2>7, <3>3, <3>4 DEF ToldWhenIdle
  <2> QED  BY <2>8, <2>9, <2>10, <2>11
<1>10. CASE UNCHANGED <<lookups, dropped>>
  BY <1>10, ToldByMoves DEF Stays
<1>11. ASSUME NEW r \in Askers, AskerNext(r) PROVE ToldWhenIdle'
  BY <1>1, <1>2, <1>5, <1>6, <1>10, <1>11
  DEF AskerNext, RetryOneRead, StartJob, AskerFails, UndoRow, MergeRead, MergeFails, MergeLoses,
      lookupHistory
<1>12. ASSUME NEW h \in Handlers, HandlerNext(h) PROVE ToldWhenIdle'
  BY <1>8, <1>9, <1>10, <1>12
  DEF HandlerNext, Marks, ClaimJob, SelectNothing, SelectLookup, WriteAnswer, AskPending, EndJob,
      HandlerRaises, HandlerDies, lookupHistory
<1>13. ASSUME SeedLookups \/ LeaseEnds \/ \E i \in Items : EditCard(i) PROVE ToldWhenIdle'
  BY <1>10, <1>13 DEF SeedLookups, LeaseEnds, EditCard, lookupHistory
<1> QED
  BY <1>4, <1>7, <1>11, <1>12, <1>13 DEF LookupNext

-----------------------------------------------------------------------------
(* An answer fits its question.                                            *)

\* What a handler holds is the question and the card of the lookup, unless that
\* was asked again, was moved or is gone; what it has found is written.  Who
\* works for a card works on its lookup.
Fits ==
    /\ \A h \in Handlers, l \in LookupIds :
         Listed(l) /\ ~overtaken[l] /\ Working(h) =>
            /\ held[h].id = l =>
                 /\ held[h].row = lookups[l].row /\ held[h].asked = lookups[l].asked
                 /\ hpc[h] = "found" => answer[lookups[l].row] = lookups[l].asked
            /\ held[h].row = lookups[l].row => held[h].id = l
    /\ AnswerFits

\* No handler begins to hold or to answer anything; a lookup keeps its card and
\* its question, with the answer if there is one, or nobody is at work for its
\* new card or question and it is not done.
Unmoved(l) == /\ Listed(l) /\ ~overtaken[l]
              /\ lookups'[l].row = lookups[l].row /\ lookups'[l].asked = lookups[l].asked
              /\ Answered(l) => answer'[lookups[l].row] = answer[lookups[l].row]
              /\ lookups'[l].status = "done" => lookups[l].status = "done"
Unheld(l) == lookups'[l].status # "done" /\ ~InWork(l, lookups'[l].row)

LEMMA FitsByMoves ==
    ASSUME Fits,
           \A h \in Handlers : Working(h)' => /\ Working(h) /\ held'[h] = held[h]
                                              /\ hpc'[h] = "found" => hpc[h] = "found",
           \A l \in LookupIds : Listed(l)' /\ ~overtaken'[l] => Unmoved(l) \/ Unheld(l)
    PROVE  Fits'
<1>1. ASSUME NEW l \in LookupIds, Listed(l)', ~overtaken'[l], Unmoved(l), NEW h \in Handlers,
             Working(h)'
      PROVE  /\ held'[h].id = l =>
                  /\ held'[h].row = lookups'[l].row /\ held'[h].asked = lookups'[l].asked
                  /\ hpc'[h] = "found" => answer'[lookups'[l].row] = lookups'[l].asked
             /\ held'[h].row = lookups'[l].row => held'[h].id = l
  BY <1>1 DEF Fits, Unmoved, Answered, Holding
<1>2. ASSUME NEW l \in LookupIds, Listed(l)', ~overtaken'[l], Unheld(l), NEW h \in Handlers,
             Working(h)'
      PROVE  held'[h].id # l /\ held'[h].row # lookups'[l].row
  BY <1>2 DEF Unheld, InWork
<1>3. AnswerFits'
  BY DEF Fits, AnswerFits, Listed, Unmoved, Unheld, Answered
<1> QED  BY <1>1, <1>2, <1>3 DEF Fits

LEMMA FitsStep ==
    ASSUME LookupTypeOK, HeldInv, Placed, Fits, LookupNext
    PROVE  Fits'
<1> DEFINE SameWork ==
      \A h \in Handlers : Working(h)' => /\ Working(h) /\ held'[h] = held[h]
                                         /\ hpc'[h] = "found" => hpc[h] = "found"
           Still(l) == Listed(l)' /\ ~overtaken'[l] => Unmoved(l)
<1>0. UNCHANGED handlerVars => SameWork
  BY DEF handlerVars, Working
<1>1. ASSUME NEW r \in Askers, NEW i \in Items, NEW l \in LookupIds, EnqueueLookup(r, i, l)
      PROVE  Fits'
  <2>1. /\ lookups'[l].status = "pending" /\ lookups'[l].row = i
        /\ \A k \in LookupIds \ {l} : Kept(k)
    BY <1>1, EnqueueEffect
  <2>2. (overtaken'[l] <=> InWork(l, i)) /\ \A k \in LookupIds \ {l} : overtaken'[k] = overtaken[k]
    BY <1>1 DEF EnqueueLookup, LookupTypeOK
  <2>3. answer' = answer /\ UNCHANGED handlerVars
    BY <1>1 DEF EnqueueLookup
  <2>4. ~overtaken'[l] => Unheld(l)
    BY <2>1, <2>2 DEF Unheld
  <2>5. \A k \in LookupIds \ {l} : Still(k)
    BY <2>1, <2>2, <2>3 DEF Unmoved, Kept, Moved, Listed
  <2> QED  BY <1>0, <2>3, <2>4, <2>5, FitsByMoves
<1>2. ASSUME NEW r \in Askers, RetryAll(r) \/ RetryOneWrite(r) \/ ResetProcessing(r) PROVE Fits'
  <2>1. \A l \in LookupIds :
          \/ Kept(l)
          \/ Listed(l) /\ (Requeued(l) \/ Turned(l, "pending"))
    BY <1>2, RetryAllEffect, RetryOneEffect, ResetEffect DEF Listed, RetryStatus
  <2>2. UNCHANGED <<answer, overtaken>> /\ UNCHANGED handlerVars
    BY <1>2 DEF RetryAll, RetryOneWrite, ResetProcessing
  <2>3. \A l \in LookupIds : Still(l)
    BY <2>1, <2>2 DEF Kept, Moved, Requeued, Turned, Unmoved, Listed
  <2> QED  BY <1>0, <2>2, <2>3, FitsByMoves
<1>3. ASSUME NEW gone, lookups' = LookupsWithout(gone), UNCHANGED overtaken, UNCHANGED handlerVars,
             \A l \in LookupIds \ gone :
               Listed(l) => answer'[lookups[l].row] = answer[lookups[l].row]
      PROVE  Fits'
  <2>1. \A l \in LookupIds : IF l \in gone THEN Gone(l) ELSE Kept(l)
    BY <1>3, RemovalEffect
  <2>2. \A l \in LookupIds : Still(l)
    BY <1>3, <2>1 DEF Gone, Kept, Moved, Unmoved, Listed
  <2> QED  BY <1>0, <1>3, <2>2, FitsByMoves
<1>4. ASSUME NEW i \in Items, DeleteCard(i) PROVE Fits'
  <2>1. \A l \in LookupIds \ LookupsOf({i}) :
          Listed(l) => answer'[lookups[l].row] = answer[lookups[l].row]
    <3>1. \A l \in LookupIds \ LookupsOf({i}) :
            Listed(l) => lookups[l].row \in Items /\ lookups[l].row # i
      BY DEF LookupsOf, Placed, LookupTypeOK
    <3> QED  BY <1>4, <3>1 DEF DeleteCard, LookupTypeOK
  <2> QED  BY <1>3, <1>4, <2>1 DEF DeleteCard
<1>5. ASSUME NEW r \in Askers, UndoLookup(r) PROVE Fits'
  BY <1>3, <1>5 DEF UndoLookup
<1>6. ASSUME NEW i \in Items, i \in cards, lookups' = lookups, UNCHANGED handlerVars,
             answer' = [answer EXCEPT ![i] = 0], overtaken' = Rewritten(i, 0)
      PROVE  Fits'
  <2>1. \A l \in LookupIds : Listed(l) =>
          answer'[lookups[l].row] = IF lookups[l].row = i THEN 0 ELSE answer[lookups[l].row]
    <3>1. \A l \in LookupIds : Listed(l) => lookups[l].row \in Items
      BY DEF Placed, LookupTypeOK
    <3> QED  BY <1>6, <3>1 DEF LookupTypeOK
  <2>2. \A l \in LookupIds : ~overtaken'[l] /\ Listed(l) =>
          ~overtaken[l] /\ (lookups[l].row = i /\ Answered(l) => answer[i] = 0)
    BY <1>6, RewrittenType DEF LookupsOf
  <2>3. \A l \in LookupIds : Still(l)
    BY <1>6, <2>1, <2>2 DEF Unmoved, Listed
  <2> QED  BY <1>0, <1>6, <2>3, FitsByMoves
<1>7. ASSUME NEW r \in Askers, NEW i \in Items, UndoRow(r, i) PROVE Fits'
  BY <1>6, <1>7 DEF UndoRow
<1>8. ASSUME NEW i \in Items, EditCard(i) PROVE Fits'
  BY <1>6, <1>8 DEF EditCard
<1>9. ASSUME NEW r \in Askers, MergeRows(r) PROVE Fits'
  <2> DEFINE i == plan[r].keep
             theirs == LookupsOf(plan[r].drop)
             shown == plan[r].shows
  <2>1. PICK moved : MergeMoves(r, moved)
    BY <1>9, MergeEffect
  <2>2. \A l \in LookupIds : Listed(l) /\ l \notin theirs =>
          answer'[lookups[l].row] = IF lookups[l].row = i THEN shown ELSE answer[lookups[l].row]
    <3>1. \A l \in LookupIds : Listed(l) /\ l \notin theirs =>
            lookups[l].row \in Items /\ lookups[l].row \notin plan[r].drop
      BY DEF Placed, LookupTypeOK, LookupsOf
    <3> QED  BY <1>9, <3>1 DEF MergeRows
  <2>3. \A l \in LookupIds : ~overtaken'[l] /\ Listed(l) =>
          /\ ~overtaken[l] /\ (lookups[l].row = i /\ Answered(l) => answer[i] = shown)
          /\ l \in moved => ~Answered(l) /\ ~InWork(l, i)
    BY <2>1, RewrittenType DEF MergeMoves, LookupsOf
  <2>4. ASSUME NEW l \in LookupIds, l \in moved, Listed(l)', ~overtaken'[l] PROVE Unheld(l)
    <3>1. Moved(l, i) /\ Listed(l)
      BY <2>1, <2>4 DEF MergeMoves, LookupsOf
    <3> QED  BY <2>3, <2>4, <3>1 DEF Moved, Unheld, Answered
  <2>5. ASSUME NEW l \in LookupIds, l \notin moved, Listed(l)', ~overtaken'[l] PROVE Unmoved(l)
    <3>1. l \notin theirs /\ Kept(l)
      BY <2>1, <2>5 DEF MergeMoves, Gone, Listed
    <3>2. Listed(l)
      BY <2>5, <3>1 DEF Kept, Moved, Listed
    <3> QED  BY <2>2, <2>3, <2>5, <3>1, <3>2 DEF Unmoved, Kept, Moved
  <2>6. UNCHANGED handlerVars
    BY <1>9 DEF MergeRows
  <2> QED  BY <1>0, <2>4, <2>5, <2>6, FitsByMoves
<1>10. ASSUME NEW r \in Askers, MergeLoses(r) PROVE Fits'
  <2>1. UNCHANGED <<lookups, overtaken>> /\ UNCHANGED handlerVars
    BY <1>10 DEF MergeLoses, lookupHistory
  <2>2. \A l \in LookupIds : Listed(l) => answer'[lookups[l].row] = answer[lookups[l].row]
    <3>1. \A l \in LookupIds : Listed(l) =>
            lookups[l].row \in Items /\ lookups[l].row \notin plan[r].drop
      BY <1>10 DEF MergeLoses, Placed, LookupTypeOK, LookupsOf
    <3> QED  BY <1>10, <3>1 DEF MergeLoses
  <2>3. \A l \in LookupIds : Still(l)
    BY <2>1, <2>2 DEF Unmoved, Listed
  <2> QED  BY <1>0, <2>1, <2>3, FitsByMoves
<1>11. ASSUME NEW k \in LookupIds, LookupDue(k) PROVE Fits'
  <2>1. \A l \in LookupIds : Kept(l)
    BY <1>11, DueEffect
  <2>2. UNCHANGED <<answer, overtaken>> /\ UNCHANGED handlerVars
    BY <1>11 DEF LookupDue, lookupHistory
  <2>3. \A l \in LookupIds : Still(l)
    BY <2>1, <2>2 DEF Kept, Moved, Unmoved, Listed
  <2> QED  BY <1>0, <2>2, <2>3, FitsByMoves
<1>12. ASSUME NEW h \in Handlers, NEW l \in LookupIds, SelectLookup(h, l) PROVE Fits'
  <2>1. \A g \in Handlers \ {h} : held'[g] = held[g] /\ hpc'[g] = hpc[g]
    BY <1>12 DEF SelectLookup, Goto, LookupTypeOK
  <2>2. /\ held'[h].id = l /\ held'[h].row = lookups[l].row /\ held'[h].asked = lookups[l].asked
        /\ hpc'[h] = "read"
    BY <1>12 DEF SelectLookup, Goto, LookupTypeOK
  <2>3. UNCHANGED <<lookups, answer, overtaken>>
    BY <1>12 DEF SelectLookup, lookupHistory
  <2>4. \A k \in LookupIds : Listed(k) /\ lookups[k].row = lookups[l].row => k = l
    BY <1>12 DEF SelectLookup, Waiting, Listed, Placed
  <2> QED  BY <2>1, <2>2, <2>3, <2>4 DEF Fits, AnswerFits, Working, Listed
<1>13. ASSUME NEW h \in Handlers, MarkProcessing(h) PROVE Fits'
  <2>1. \A l \in LookupIds : Kept(l) \/ (Listed(l) /\ Turned(l, "processing"))
    BY <1>13, ProcessingEffect
  <2>2. UNCHANGED <<held, overtaken, answer>>
    BY <1>13 DEF MarkProcessing
  <2>3. \A g \in Handlers : hpc'[g] = hpc[g] \/ (hpc[g] = "read" /\ hpc'[g] = "looking")
    BY <1>13 DEF MarkProcessing, Goto, LookupTypeOK
  <2>4. SameWork
    BY <2>2, <2>3 DEF Working
  <2>5. \A l \in LookupIds : Still(l)
    BY <2>1, <2>2 DEF Kept, Moved, Turned, Unmoved, Listed
  <2> QED  BY <2>4, <2>5, FitsByMoves
<1>14. ASSUME NEW h \in Handlers, WriteAnswer(h) PROVE Fits'
  <2>1. PICK i \in Items : i = held[h].row
    BY <1>14 DEF WriteAnswer, HeldInv, Working
  <2>2. UNCHANGED <<lookups, held, overtaken>> /\ hpc[h] = "looking"
    BY <1>14 DEF WriteAnswer, lookupHistory
  <2>3. hpc'[h] = "found" /\ \A g \in Handlers \ {h} : hpc'[g] = hpc[g]
    BY <1>14 DEF WriteAnswer, Goto, LookupTypeOK
  <2>4. \A l \in LookupIds : Listed(l) =>
          answer'[lookups[l].row] = IF lookups[l].row = i THEN held[h].asked
                                    ELSE answer[lookups[l].row]
    BY <1>14, <2>1 DEF WriteAnswer, Placed, LookupTypeOK
  <2>5. \A l \in LookupIds : Listed(l) /\ ~overtaken[l] /\ lookups[l].row = i =>
          held[h].id = l /\ held[h].asked = lookups[l].asked
    BY <2>1, <2>2 DEF Fits, Working
  <2>6. AnswerFits'
    BY <2>2, <2>4, <2>5 DEF Fits, AnswerFits, Listed
  <2>7. ASSUME NEW g \in Handlers, NEW l \in LookupIds, Listed(l), ~overtaken[l], Working(g)'
        PROVE  /\ held[g].id = l =>
                    /\ held[g].row = lookups[l].row /\ held[g].asked = lookups[l].asked
                    /\ hpc'[g] = "found" => answer'[lookups[l].row] = lookups[l].asked
               /\ held[g].row = lookups[l].row => held[g].id = l
    <3>1. Working(g)
      BY <2>2, <2>3, <2>7 DEF Working
    <3>2. held[g].id = l =>
            held[g].row = lookups[l].row /\ held[g].asked = lookups[l].asked
      BY <2>7, <3>1 DEF Fits
    <3>3. held[g].row = lookups[l].row => held[g].id = l
      BY <2>7, <3>1 DEF Fits
    <3>4. held[g].id = l /\ hpc'[g] = "found" => answer'[lookups[l].row] = lookups[l].asked
      BY <2>1, <2>3, <2>4, <2>5, <2>7, <3>1, <3>2 DEF Fits
    <3> QED  BY <3>2, <3>3, <3>4
  <2> QED  BY <2>2, <2>6, <2>7 DEF Fits, Listed
<1>15. ASSUME NEW h \in Handlers, Marks(h) PROVE Fits'
  <2>1. PICK verdict \in {"pending"} \cup EndStatus, n \in Nat :
          Mark(h, verdict, n) /\ (verdict = "done" => hpc[h] = "found")
    BY <1>15, MarksCases
  <2>2. hpc[h] \in {"looking", "found"}
    BY <1>15, MarksCases
  <2>3. PICK l \in LookupIds : l = held[h].id
    BY <2>2 DEF HeldInv, Working
  <2>4. \A k \in LookupIds :
          /\ lookups'[k].asked = lookups[k].asked /\ lookups'[k].row = lookups[k].row
          /\ lookups'[k].status = IF k = l /\ Listed(k) THEN verdict ELSE lookups[k].status
    BY <2>1, <2>2, <2>3, MarkEffect
  <2>5. UNCHANGED <<answer, overtaken>>
    BY <2>1 DEF Mark
  <2>6. /\ hpc'[h] = "asking"
        /\ \A g \in Handlers \ {h} : hpc'[g] = hpc[g] /\ held'[g] = held[g]
    BY <2>1 DEF Mark, Goto, LookupTypeOK
  <2>7. \A k \in LookupIds : Listed(k)' => Listed(k)
    BY <2>4 DEF Listed
  <2>8. verdict = "done" /\ Listed(l) /\ ~overtaken[l] => answer[lookups[l].row] = lookups[l].asked
    BY <2>1, <2>2, <2>3 DEF Fits, Working
  <2>9. AnswerFits'
    BY <2>4, <2>5, <2>8 DEF Fits, AnswerFits
  <2> QED  BY <2>4, <2>5, <2>6, <2>7, <2>9 DEF Fits, Working
<1>16. ASSUME NEW h \in Handlers,
              \/ ClaimJob(h) \/ SelectNothing(h) \/ AskPending(h) \/ EndJob(h)
              \/ HandlerRaises(h) \/ HandlerDies(h)
       PROVE  Fits'
  <2>1. SameWork
    BY <1>16 DEF ClaimJob, SelectNothing, AskPending, EndJob, HandlerRaises, HandlerDies, Goto,
                 Working, LookupTypeOK
  <2>2. UNCHANGED <<lookups, answer, overtaken>>
    BY <1>16 DEF ClaimJob, SelectNothing, AskPending, EndJob, HandlerRaises, HandlerDies,
                 lookupHistory
  <2>3. \A l \in LookupIds : Still(l)
    BY <2>2 DEF Unmoved, Listed
  <2> QED  BY <2>1, <2>3, FitsByMoves
<1>17. CASE UNCHANGED <<lookups, answer, overtaken, handlerVars>>
  <2>1. \A l \in LookupIds : Still(l)
    BY <1>17 DEF Unmoved, Listed
  <2> QED  BY <1>0, <1>17, <2>1, FitsByMoves
<1>18. ASSUME NEW r \in Askers, AskerNext(r) PROVE Fits'
  <2>1. CASE UNCHANGED <<lookups, answer, overtaken, handlerVars>>
    BY <1>17, <2>1
  <2> QED
    BY <1>1, <1>2, <1>5, <1>7, <1>9, <1>10, <1>18, <2>1
    DEF AskerNext, RetryOneRead, StartJob, AskerFails, MergeRead, MergeFails, lookupHistory
<1>19. ASSUME NEW h \in Handlers, HandlerNext(h) PROVE Fits'
  BY <1>12, <1>13, <1>14, <1>15, <1>16, <1>19 DEF HandlerNext, Marks
<1>20. ASSUME SeedLookups \/ LeaseEnds PROVE Fits'
  BY <1>17, <1>20 DEF SeedLookups, LeaseEnds, lookupHistory
<1> QED
  BY <1>4, <1>8, <1>11, <1>18, <1>19, <1>20 DEF LookupNext

-----------------------------------------------------------------------------
(* The theorems.                                                           *)

QueueInv == /\ LookupTypeOK /\ HeldInv /\ Placed /\ Heard
            /\ ProcessingIsHeld /\ ToldWhenIdle /\ Fits

LEMMA QueueInductive ==
    ASSUME QueueInv, [LookupNext]_lookupVars
    PROVE  QueueInv'
<1> USE DEF QueueInv
<1>1. CASE LookupNext
  <2>1. LookupTypeOK'
    BY <1>1, TypeStep
  <2>2. HeldInv' /\ Placed' /\ Heard'
    BY <1>1, <2>1, HeldStep, PlacedStep, HeardStep
  <2>3. ProcessingIsHeld' /\ ToldWhenIdle' /\ Fits'
    BY <1>1, ProcessingStep, ToldStep, FitsStep
  <2> QED  BY <2>1, <2>2, <2>3
<1>2. CASE UNCHANGED lookupVars
  <2> USE <1>2 DEF lookupVars, handlerVars, requestVars, lookupHistory
  <2>1. LookupTypeOK' /\ HeldInv' /\ Placed'
    BY DEF LookupTypeOK, HeldInv, Working, Placed, Listed
  <2>2. Heard' /\ ProcessingIsHeld'
    BY DEF Heard, NoneStranded, Waiting, Deaf, ProcessingIsHeld, Holding, Working
  <2>3. ToldWhenIdle'
    BY DEF ToldWhenIdle, OpenOf, EndedOf
  <2>4. Fits'
    BY DEF Fits, AnswerFits, Listed, Working
  <2> QED  BY <2>1, <2>2, <2>3, <2>4
<1> QED  BY <1>1, <1>2

LEMMA QueueInvariant == LookupSpec => []QueueInv
<1>1. LookupInit => QueueInv
  <2> SUFFICES ASSUME LookupInit PROVE QueueInv
    OBVIOUS
  <2> USE DEF LookupInit
  <2>1. \A l \in LookupIds : lookups[l] \in Lookup /\ lookups[l].status = "none"
    BY NoLookupType
  <2>2. LookupTypeOK
    BY <2>1, LookupBounds, NullTypes DEF LookupTypeOK, Helds, Plans
  <2>3. HeldInv /\ Placed
    BY <2>1 DEF HeldInv, Working, Placed, Listed
  <2>4. Heard /\ ProcessingIsHeld
    BY <2>1 DEF Heard, NoneStranded, Waiting, Deaf, ProcessingIsHeld
  <2>5. ToldWhenIdle
    BY <2>1 DEF ToldWhenIdle, EndedOf
  <2>6. Fits
    BY <2>1 DEF Fits, AnswerFits, Listed
  <2> QED  BY <2>2, <2>3, <2>4, <2>5, <2>6 DEF QueueInv
<1> QED  BY <1>1, QueueInductive, PTL DEF LookupSpec

\* The lookups, the job and what handlers and requests hold of them keep their
\* types; what a handler has selected is a lookup and a row.
THEOREM LookupTypeCorrect == LookupSpec => [](LookupTypeOK /\ HeldInv)
BY QueueInvariant, PTL DEF QueueInv

\* No two lookups share a card, and every lookup has a card that exists, through
\* deletions, undone imports and merges (move_collection_single_reference).
THEOREM LookupsPlaced == LookupSpec => []Placed
BY QueueInvariant, PTL DEF QueueInv

\* A user is told when the last of the lookups ends, whatever overlaps, unless
\* an open one was removed since: with its card, by the undo of an import or in
\* a merge (notify_scryfall_enrichment_completion, undo_collection_import_item,
\* move_collection_single_reference).
THEOREM ToldWhenIdleCorrect == LookupSpec => []ToldWhenIdle
BY QueueInvariant, PTL DEF QueueInv

\* The card of a lookup that is done shows the answer to the question asked last,
\* unless a handler was at work for that card when it was asked, a merge moved
\* the lookup while it was in work or done, or other data were written over the
\* answer (mark_scryfall_job against update_collection_item_from_scryfall).
THEOREM AnswerFitsCorrect == LookupSpec => []AnswerFits
<1>1. QueueInv => AnswerFits
  BY DEF QueueInv, Fits
<1> QED  BY <1>1, QueueInvariant, PTL

\* No lookup waits without a job, but in the cases NoneStranded names
\* (pending_domain_queue_delay against start_scryfall_enrichment_worker).
THEOREM NoneStrandedCorrect == LookupSpec => []NoneStranded
<1>1. QueueInv => NoneStranded
  BY DEF QueueInv, Heard
<1> QED  BY <1>1, QueueInvariant, PTL

\* LookupsWithout a fault no lookup stays in work that nobody works at
\* (claim_scryfall_enrichment_job, mark_scryfall_job).
THEOREM ProcessingIsHeldCorrect == LookupSpec => []ProcessingIsHeld
BY QueueInvariant, PTL DEF QueueInv

-----------------------------------------------------------------------------
(* NotificationMail: typing.                                               *)

\* A week is made of days, a day of slots.
LEMMA WeekType == Week \in Nat \ {0}
BY MailAssumption DEF Week

\* The slots of a day.
LEMMA HourType == ASSUME NEW t \in Nat PROVE (t + 1) % Week \in 0..(Week - 1)
BY WeekType

\* What a pass selects is a set of notifications.
LEMMA EndedType ==
    ASSUME MailTypeOK, NEW s \in Senders, Ended(s)
    PROVE  /\ mpc' \in [Senders -> {"idle", "work", "record"}]
           /\ batch' \in [Senders -> SUBSET Notes] /\ ready' \in [Senders -> SUBSET Readers]
           /\ hand' \in [Senders -> Mails] /\ marks' \in [Senders -> SUBSET Mails]
           /\ writer' \in Senders \cup {NoSender}
BY DEF Ended, MailTypeOK, EmptyHand, Mails

\* A mail that goes out, or is refused, keeps the types.
LEMMA SendType ==
    ASSUME MailTypeOK, NEW s \in Senders, NEW notes \in SUBSET Notes,
           NEW result \in {"sent", "failed", "off"}, Send(s, notes, result),
           batch' \in [Senders -> SUBSET Notes]
    PROVE  MailTypeOK'
<1>1. [notes |-> notes, result |-> result] \in Mails
  BY DEF Mails
<1>2. hand' \in [Senders -> Mails] /\ mpc' \in [Senders -> {"idle", "work", "record"}]
  BY <1>1 DEF Send, MailTypeOK
<1>3. mailed' \subseteq Notes /\ twice' \subseteq Notes
  BY DEF Send, MailTypeOK
<1>4. repeats' \subseteq Notes
  BY DEF Send, Shared, MailTypeOK
<1> QED  BY <1>2, <1>3, <1>4 DEF Send, MailTypeOK, table

\* The tables of mails and the memory of their passes keep their types.
LEMMA MailTypeStep == MailTypeOK /\ [MailNext]_mailVars => MailTypeOK'
<1> SUFFICES ASSUME MailTypeOK, [MailNext]_mailVars PROVE MailTypeOK'
  OBVIOUS
<1>1. CASE Later
  <2>1. slot' \in 0..(Week - 1)
    BY <1>1, HourType DEF Later, MailTypeOK
  <2>2. since' \in [Readers -> 0..Week]
    BY <1>1, WeekType DEF Later, MailTypeOK
  <2>3. mishaps' \in 0..MaxMishaps
    BY <1>1, MailAssumption DEF Later, MailTypeOK
  <2> QED  BY <1>1, <2>1, <2>2, <2>3 DEF Later, MailTypeOK, table, passes, outcome
<1>2. ASSUME NEW n \in Notes, Notify(n) \/ MarkRead(n) \/ DeleteNote(n) PROVE MailTypeOK'
  BY <1>2 DEF Notify, MarkRead, DeleteNote, Unlocked, MailTypeOK, States, passes, outcome
<1>3. ASSUME NEW n \in Notes, RetryMail(n) PROVE MailTypeOK'
  <2>1. mishaps' \in 0..MaxMishaps
    BY <1>3, MailAssumption DEF RetryMail, MailTypeOK
  <2> QED  BY <1>3, <2>1 DEF RetryMail, Unlocked, MailTypeOK, States, passes, outcome
<1>4. ASSUME NEW m \in Readers, SwitchOff(m) PROVE MailTypeOK'
  BY <1>4 DEF SwitchOff, Unlocked, MailTypeOK, passes, outcome
<1>5. ASSUME NEW s \in Senders, Select(s) PROVE MailTypeOK'
  <2> DEFINE oldest == {n \in Notes : Waits(n)
                          /\ Cardinality({k \in Notes : Waits(k) /\ k < n}) < Batch}
             muted == {n \in oldest : ~wanted[Reader[n]]}
             turn == {m \in Readers : ~Quiet(m) /\ (Instant(m) \/ Due(m))}
  <2> oldest \subseteq Notes /\ muted \subseteq Notes /\ turn \subseteq Readers
    OBVIOUS
  <2>1. /\ mpc' = [mpc EXCEPT ![s] = IF muted = {} THEN "work" ELSE "record"]
        /\ batch' = [batch EXCEPT ![s] = oldest \ muted]
        /\ ready' = [ready EXCEPT ![s] = turn]
        /\ hand' = [hand EXCEPT ![s] = [EmptyHand EXCEPT !.notes = muted]]
        /\ repeats' = repeats \cup Shared(s, oldest)
        /\ UNCHANGED <<slot, swept, since, table, writer, marks, mailed, twice, mishaps>>
    BY <1>5 DEF Select
  <2> HIDE DEF oldest, muted, turn
  <2>2. [EmptyHand EXCEPT !.notes = muted] \in Mails
    BY DEF EmptyHand, Mails
  <2>3. repeats' \subseteq Notes
    BY <2>1 DEF Shared, MailTypeOK
  <2> QED  BY <2>1, <2>2, <2>3 DEF MailTypeOK, table
<1>6. ASSUME NEW s \in Senders, NEW m \in Readers, Defer(s, m) PROVE MailTypeOK'
  BY <1>6 DEF Defer, MailTypeOK, table, outcome
<1>7. ASSUME NEW s \in Senders, NEW m \in Readers, NEW result \in {"sent", "failed", "off"},
             SendDigest(s, m, result)
      PROVE  MailTypeOK'
  <2>1. batch' \in [Senders -> SUBSET Notes]
    BY <1>7 DEF SendDigest, MailTypeOK
  <2>2. CASE UNCHANGED <<slot, swept, since, table, writer, mpc, ready, hand, marks,
                         outcome, mishaps>>
    BY <2>1, <2>2 DEF MailTypeOK, table, outcome
  <2>3. CASE Send(s, {n \in Notes : Waits(n) /\ Reader[n] = m}, result)
    BY <2>1, <2>3, SendType
  <2> QED  BY <1>7, <2>2, <2>3 DEF SendDigest
<1>8. ASSUME NEW s \in Senders, NEW n \in Notes, NEW result \in {"sent", "failed"},
             SendOne(s, n, result)
      PROVE  MailTypeOK'
  <2>1. batch' \in [Senders -> SUBSET Notes]
    BY <1>8 DEF SendOne, MailTypeOK
  <2> QED  BY <1>8, <2>1, SendType DEF SendOne
<1>9. ASSUME NEW s \in Senders, Record(s) PROVE MailTypeOK'
  BY <1>9 DEF Record, MailTypeOK, table, outcome, EmptyHand, Mails
<1>10. ASSUME NEW s \in Senders, Commit(s) PROVE MailTypeOK'
  <2>1. status' \in [Notes -> States]
    <3> SUFFICES ASSUME NEW n \in Notes PROVE Final(s, n) \in States
      BY <1>10 DEF Commit
    <3>1. CASE status[n] # "none" /\ \E d \in marks[s] : n \in d.notes
      <4>1. PICK d \in marks[s] : d = (CHOOSE c \in marks[s] : n \in c.notes)
        BY <3>1
      <4>2. d.result \in States
        BY <4>1 DEF MailTypeOK, Mails, States
      <4> QED  BY <3>1, <4>1, <4>2 DEF Final
    <3>2. CASE ~(status[n] # "none" /\ \E d \in marks[s] : n \in d.notes)
      BY <3>2 DEF Final, MailTypeOK
    <3> QED  BY <3>1, <3>2
  <2>2. since' \in [Readers -> 0..Week] /\ swept' \in BOOLEAN
    BY <1>10, WeekType DEF Commit, MailTypeOK
  <2> QED  BY <1>10, <2>1, <2>2, EndedType DEF Commit, MailTypeOK, outcome
<1>11. ASSUME NEW s \in Senders, CutShort(s) PROVE MailTypeOK'
  <2>1. repeats' \subseteq Notes
    BY <1>11 DEF CutShort, MailTypeOK, Mails
  <2>2. mishaps' \in 0..MaxMishaps
    BY <1>11, MailAssumption DEF CutShort, MailTypeOK
  <2> QED  BY <1>11, <2>1, <2>2, EndedType DEF CutShort, MailTypeOK, table
<1>12. CASE UNCHANGED mailVars
  BY <1>12 DEF mailVars, MailTypeOK
<1> QED
  BY <1>1, <1>2, <1>3, <1>4, <1>5, <1>6, <1>7, <1>8, <1>9, <1>10, <1>11, <1>12
  DEF MailNext, PassStep

\* Whatever passes, members and administrators do, the tables keep their types.
THEOREM MailTypeCorrect == MailSpec => []MailTypeOK
<1>1. MailInit => MailTypeOK
  <2> SUFFICES ASSUME MailInit PROVE MailTypeOK
    OBVIOUS
  <2>1. hand \in [Senders -> Mails] /\ marks \in [Senders -> SUBSET Mails]
    BY DEF EmptyHand, Mails, MailInit
  <2>2. slot \in 0..(Week - 1) /\ since \in [Readers -> 0..Week] /\ mishaps \in 0..MaxMishaps
    BY WeekType, MailAssumption DEF MailInit
  <2>3. /\ status \in [Notes -> States] /\ mailed \subseteq Notes
        /\ twice \subseteq Notes /\ repeats \subseteq Notes
    BY DEF MailInit, States
  <2> QED  BY <2>1, <2>2, <2>3 DEF MailInit, MailTypeOK
<1> QED  BY <1>1, MailTypeStep, PTL DEF MailSpec

-----------------------------------------------------------------------------
(* NotificationMail: nobody is mailed twice unnoticed.                     *)

\* What a pass recorded, or is about to record.
Records(s) == {hand[s]} \cup marks[s]
\* A notification is in the hands of one pass, or the overlap was noted.
OnePass ==
    \A n \in Notes \ repeats : \A s, q \in Senders :
        s # q => n \notin InHand(s) \/ n \notin InHand(q)
\* Within a pass a notification has one record, and after it no second mail:
\* neither the notification nor, for a digest, another one of its member.
Orderly(s) ==
    /\ mpc[s] = "idle" => batch[s] = {} /\ hand[s].notes = {} /\ marks[s] = {}
    /\ mpc[s] = "work" => hand[s].notes = {}
    /\ \A c, d \in Records(s) : \A n \in c.notes : n \in d.notes => c = d
    /\ \A d \in Records(s) : \A n \in d.notes :
         /\ n \notin batch[s]
         /\ ~Instant(Reader[n]) => \A k \in batch[s] : Reader[k] # Reader[n]
\* A mail that went out is still to be recorded as sent, or was; then the
\* notification is in nobody's hands and never waits again.
Settled ==
    \A n \in mailed \ repeats :
       \/ \E s \in Senders : \E d \in Records(s) : n \in d.notes /\ d.result = "sent"
       \/ status[n] \in {"sent", "none"} /\ \A s \in Senders : n \notin InHand(s)
\* A notification that was not created yet is known to nobody.
Uncreated ==
    \A n \in Notes : status[n] = "none" /\ ~seen[n] =>
                        n \notin mailed /\ \A s \in Senders : n \notin InHand(s)
MailInv ==
    /\ OnePass /\ Settled /\ Uncreated /\ MailedOnce
    /\ \A s \in Senders : Orderly(s)

\* Nothing of the passes changes: the invariant depends on the table.
LEMMA MailFrame ==
    ASSUME MailInv, UNCHANGED <<passes, outcome>>,
           \A n \in mailed : status[n] \in {"sent", "none"} /\ (status[n] = "none" => seen[n])
                               => status'[n] \in {"sent", "none"},
           \A n \in Notes : status'[n] = "none" /\ ~seen'[n] => status[n] = "none" /\ ~seen[n],
           mailed \subseteq Notes
    PROVE  MailInv'
<1>1. /\ \A s \in Senders : InHand(s)' = InHand(s) /\ Records(s)' = Records(s)
      /\ mailed' = mailed /\ twice' = twice /\ repeats' = repeats
  BY DEF passes, outcome, InHand, Records
<1>2. OnePass' /\ MailedOnce'
  BY <1>1 DEF MailInv, OnePass, MailedOnce
<1>3. ASSUME NEW s \in Senders PROVE Orderly(s)'
  BY <1>1 DEF MailInv, Orderly, passes, Instant
<1>4. Uncreated'
  BY <1>1 DEF MailInv, Uncreated
<1>5. Settled'
  BY <1>1 DEF MailInv, Settled, Uncreated
<1> QED  BY <1>2, <1>3, <1>4, <1>5 DEF MailInv

\* A pass lets go of some of what it has, and nothing else.
LEMMA ShareFewer ==
    ASSUME OnePass, repeats \subseteq repeats',
           \A s \in Senders : InHand(s)' \subseteq InHand(s)
    PROVE  OnePass'
BY DEF OnePass

\* What a pass takes in addition is noted if another pass has it.
LEMMA ShareMore ==
    ASSUME OnePass, NEW s \in Senders, NEW notes \in SUBSET Notes,
           InHand(s)' \subseteq InHand(s) \cup notes,
           \A q \in Senders \ {s} : InHand(q)' = InHand(q),
           repeats' = repeats \cup Shared(s, notes)
    PROVE  OnePass'
<1> SUFFICES ASSUME NEW n \in Notes, n \notin repeats', NEW p \in Senders, NEW q \in Senders,
                    p # q, n \in InHand(p)', n \in InHand(q)'
             PROVE  FALSE
  BY DEF OnePass
<1>1. ASSUME NEW r \in Senders, r # s, n \in InHand(s)', n \in InHand(r)' PROVE FALSE
  <2>1. n \in InHand(r) /\ n \notin repeats /\ n \notin Shared(s, notes)
    BY <1>1
  <2>2. n \notin notes
    BY <2>1, <1>1 DEF Shared
  <2>3. n \in InHand(s)
    BY <1>1, <2>2
  <2> QED  BY <1>1, <2>1, <2>3 DEF OnePass
<1>2. CASE p = s
  BY <1>1, <1>2
<1>3. CASE q = s
  BY <1>1, <1>3
<1>4. CASE p # s /\ q # s
  BY <1>4 DEF OnePass
<1> QED  BY <1>2, <1>3, <1>4

\* The selection of a pass.
LEMMA SelectInv ==
    ASSUME MailTypeOK, MailInv, NEW s \in Senders, Select(s) PROVE MailInv'
<1> DEFINE oldest == {n \in Notes : Waits(n)
                        /\ Cardinality({k \in Notes : Waits(k) /\ k < n}) < Batch}
           muted == {n \in oldest : ~wanted[Reader[n]]}
<1>a. \A n \in oldest : n \in Notes /\ status[n] = "pending"
  BY DEF Waits
<1>b. \A n \in muted, k \in oldest \ muted : n \in oldest /\ Reader[k] # Reader[n]
  OBVIOUS
<1>1. /\ mpc[s] = "idle" /\ mpc' = [mpc EXCEPT ![s] = IF muted = {} THEN "work" ELSE "record"]
      /\ batch' = [batch EXCEPT ![s] = oldest \ muted]
      /\ hand' = [hand EXCEPT ![s] = [EmptyHand EXCEPT !.notes = muted]]
      /\ repeats' = repeats \cup Shared(s, oldest)
      /\ UNCHANGED <<status, seen, marks, mailed, twice>>
  BY DEF Select, table
<1> HIDE DEF oldest, muted
<1>c. muted \subseteq oldest
  BY DEF muted
<1>2. batch[s] = {} /\ hand[s].notes = {} /\ marks[s] = {} /\ marks'[s] = {}
  BY <1>1 DEF MailInv, Orderly
<1>3. batch'[s] = oldest \ muted /\ hand'[s].notes = muted /\ mpc'[s] \in {"work", "record"}
      /\ (mpc'[s] = "work" => muted = {})
  BY <1>1 DEF MailTypeOK, EmptyHand
<1>4. InHand(s)' = oldest
  BY <1>2, <1>3, <1>c DEF InHand
<1>5. ASSUME NEW q \in Senders \ {s}
      PROVE  InHand(q)' = InHand(q) /\ Records(q)' = Records(q) /\ batch'[q] = batch[q]
             /\ mpc'[q] = mpc[q] /\ hand'[q] = hand[q] /\ marks'[q] = marks[q]
  BY <1>1, <1>5 DEF MailTypeOK, InHand, Records
<1>6. OnePass'
  <2>1. oldest \subseteq Notes
    BY <1>a
  <2> QED  BY <1>1, <1>4, <1>5, <2>1, ShareMore DEF MailInv
<1>7. ASSUME NEW q \in Senders PROVE Orderly(q)'
  <2>1. CASE q = s
    <3>1. Records(s)' = {hand'[s]}
      BY <1>2 DEF Records
    <3> QED  BY <2>1, <3>1, <1>2, <1>3, <1>b DEF Orderly
  <2>2. CASE q # s
    BY <1>5, <2>2 DEF MailInv, Orderly, Instant
  <2> QED  BY <2>1, <2>2
<1>8. Settled'
  <2> SUFFICES ASSUME NEW n \in mailed, n \notin repeats'
               PROVE  \/ \E q \in Senders : \E d \in Records(q)' : n \in d.notes /\ d.result = "sent"
                      \/ status[n] \in {"sent", "none"} /\ \A q \in Senders : n \notin InHand(q)'
    BY <1>1 DEF Settled
  <2>1. n \notin repeats
    BY <1>1
  <2>2. CASE \E q \in Senders : \E d \in Records(q) : n \in d.notes /\ d.result = "sent"
    <3>1. PICK q \in Senders : \E d \in Records(q) : n \in d.notes /\ d.result = "sent"
      BY <2>2
    <3>2. q # s
      BY <3>1, <1>2 DEF Records
    <3> QED  BY <3>1, <3>2, <1>5
  <2>3. CASE status[n] \in {"sent", "none"} /\ \A q \in Senders : n \notin InHand(q)
    BY <2>3, <1>a, <1>4, <1>5
  <2> QED  BY <2>1, <2>2, <2>3 DEF MailInv, Settled
<1>9. Uncreated'
  BY <1>1, <1>a, <1>4, <1>5 DEF MailInv, Uncreated
<1>10. MailedOnce'
  BY <1>1 DEF MailInv, MailedOnce
<1> QED  BY <1>6, <1>7, <1>8, <1>9, <1>10 DEF MailInv

\* A mail about notifications that the pass has, or that wait, and of which it
\* has no record.
LEMMA SendInv ==
    ASSUME MailTypeOK, MailInv, NEW s \in Senders, NEW notes \in SUBSET Notes, NEW result,
           Send(s, notes, result), mpc[s] = "work",
           NEW rest \in SUBSET batch[s], batch' = [batch EXCEPT ![s] = rest],
           \A d \in marks[s] : \A n \in notes : n \notin d.notes,
           \A n \in notes : /\ n \in batch[s] \/ Waits(n)
                            /\ n \notin rest
                            /\ ~Instant(Reader[n]) => \A k \in rest : Reader[k] # Reader[n]
    PROVE  MailInv'
<1>1. hand[s].notes = {}
  BY DEF MailInv, Orderly
<1>2. /\ hand'[s] = [notes |-> notes, result |-> result] /\ mpc'[s] = "record"
      /\ marks' = marks /\ status' = status /\ seen' = seen /\ batch'[s] = rest
      /\ repeats' = repeats \cup Shared(s, notes)
      /\ mailed \subseteq mailed' /\ mailed' \subseteq mailed \cup notes
      /\ (result = "sent" \/ mailed' = mailed)
      /\ twice' \subseteq twice \cup (mailed \cap notes)
  BY DEF Send, MailTypeOK, table
<1>3. ASSUME NEW q \in Senders \ {s}
      PROVE  InHand(q)' = InHand(q) /\ Records(q)' = Records(q) /\ batch'[q] = batch[q]
             /\ mpc'[q] = mpc[q] /\ hand'[q] = hand[q] /\ marks'[q] = marks[q]
  BY <1>3 DEF Send, MailTypeOK, InHand, Records
<1>4. InHand(s)' \subseteq InHand(s) \cup notes /\ marks'[s] = marks[s]
  BY <1>2 DEF InHand
<1>5. OnePass'
  BY <1>2, <1>3, <1>4, ShareMore DEF MailInv
<1>6. ASSUME NEW n \in mailed, n \in notes PROVE n \in repeats'
  <2> SUFFICES ASSUME n \notin repeats PROVE n \in Shared(s, notes)
    BY <1>2
  <2>1. CASE \E q \in Senders : \E d \in Records(q) : n \in d.notes /\ d.result = "sent"
    <3>1. PICK q \in Senders : \E d \in Records(q) : n \in d.notes
      BY <2>1
    <3>2. q # s
      BY <3>1, <1>1, <1>6 DEF Records
    <3>3. n \in InHand(q)
      BY <3>1 DEF Records, InHand
    <3> QED  BY <3>2, <3>3, <1>6 DEF Shared
  <2>2. CASE status[n] \in {"sent", "none"} /\ \A q \in Senders : n \notin InHand(q)
    BY <2>2, <1>6 DEF InHand, Waits
  <2> QED  BY <2>1, <2>2 DEF MailInv, Settled
<1>7. ASSUME NEW q \in Senders PROVE Orderly(q)'
  <2>1. CASE q = s
    <3>1. Records(s)' = {hand'[s]} \cup marks[s]
      BY <1>4 DEF Records
    <3>2. \A c, d \in Records(s)' : \A n \in c.notes : n \in d.notes => c = d
      BY <3>1, <1>2 DEF MailInv, Orderly, Records
    <3>3. \A d \in Records(s)' : \A n \in d.notes :
             /\ n \notin rest
             /\ ~Instant(Reader[n]) => \A k \in rest : Reader[k] # Reader[n]
      BY <3>1, <1>2 DEF MailInv, Orderly, Records
    <3> QED  BY <2>1, <3>2, <3>3, <1>2 DEF Orderly, Instant
  <2>2. CASE q # s
    BY <1>3, <2>2 DEF MailInv, Orderly, Instant
  <2> QED  BY <2>1, <2>2
<1>8. Settled'
  <2> SUFFICES ASSUME NEW n \in mailed', n \notin repeats'
               PROVE  \/ \E q \in Senders : \E d \in Records(q)' : n \in d.notes /\ d.result = "sent"
                      \/ status[n] \in {"sent", "none"} /\ \A q \in Senders : n \notin InHand(q)'
    BY <1>2 DEF Settled
  <2>1. n \notin repeats
    BY <1>2
  <2>2. CASE n \in notes
    <3>1. result = "sent"
      BY <2>2, <1>2, <1>6
    <3>2. hand'[s] \in Records(s)' /\ n \in hand'[s].notes /\ hand'[s].result = "sent"
      BY <2>2, <3>1, <1>2 DEF Records
    <3> QED  BY <3>2
  <2>3. CASE n \notin notes
    <3>1. n \in mailed
      BY <2>3, <1>2
    <3>2. CASE \E q \in Senders : \E d \in Records(q) : n \in d.notes /\ d.result = "sent"
      <4>1. PICK q \in Senders : \E d \in Records(q) : n \in d.notes /\ d.result = "sent"
        BY <3>2
      <4>2. PICK d \in Records(q) : n \in d.notes /\ d.result = "sent"
        BY <4>1
      <4>3. d \in Records(q)'
        BY <4>2, <1>1, <1>3, <1>4 DEF Records
      <4> QED  BY <4>2, <4>3
    <3>3. CASE status[n] \in {"sent", "none"} /\ \A q \in Senders : n \notin InHand(q)
      BY <2>3, <3>3, <1>3, <1>4
    <3> QED  BY <2>1, <3>1, <3>2, <3>3 DEF MailInv, Settled
  <2> QED  BY <2>2, <2>3
<1>9. Uncreated'
  <2> SUFFICES ASSUME NEW n \in Notes, status[n] = "none", ~seen[n]
               PROVE  n \notin mailed' /\ \A q \in Senders : n \notin InHand(q)'
    BY <1>2 DEF Uncreated
  <2>1. n \notin mailed /\ \A q \in Senders : n \notin InHand(q)
    BY DEF MailInv, Uncreated
  <2>2. n \notin notes
    BY <2>1 DEF InHand, Waits
  <2> QED  BY <2>1, <2>2, <1>2, <1>3, <1>4
<1>10. MailedOnce'
  BY <1>2, <1>6 DEF MailInv, MailedOnce
<1> QED  BY <1>5, <1>7, <1>8, <1>9, <1>10 DEF MailInv

\* The invariant of the mails is inductive.
LEMMA MailInvStep == MailTypeOK /\ MailInv /\ [MailNext]_mailVars => MailInv'
<1> SUFFICES ASSUME MailTypeOK, MailInv, [MailNext]_mailVars PROVE MailInv'
  OBVIOUS
<1>a. mailed \subseteq Notes
  BY DEF MailTypeOK
<1>1. CASE Later
  BY <1>1, <1>a, MailFrame DEF Later, table
<1>2. ASSUME NEW n \in Notes, Notify(n) PROVE MailInv'
  <2>1. UNCHANGED <<passes, outcome, seen>> /\ status[n] = "none" /\ ~seen[n]
    BY <1>2 DEF Notify, Unlocked
  <2>2. \A k \in Notes : status'[k] = IF k = n THEN IF wanted[Reader[n]] THEN "pending" ELSE "off"
                                       ELSE status[k]
    BY <1>2 DEF Notify, MailTypeOK
  <2> QED  BY <2>1, <2>2, <1>a, MailFrame
<1>3. ASSUME NEW n \in Notes, MarkRead(n) PROVE MailInv'
  <2>1. UNCHANGED <<passes, outcome>> /\ status[n] # "none"
    BY <1>3 DEF MarkRead, Unlocked
  <2>2. \A k \in Notes : /\ status'[k] = IF k = n /\ status[n] = "pending" THEN "off" ELSE status[k]
                         /\ seen'[k] = (k = n \/ seen[k])
    BY <1>3 DEF MarkRead, MailTypeOK
  <2> QED  BY <2>1, <2>2, <1>a, MailFrame
<1>4. ASSUME NEW n \in Notes, DeleteNote(n) PROVE MailInv'
  <2>1. UNCHANGED <<passes, outcome>>
    BY <1>4 DEF DeleteNote, Unlocked
  <2>2. \A k \in Notes : /\ status'[k] = IF k = n THEN "none" ELSE status[k]
                         /\ seen'[k] = (k = n \/ seen[k])
    BY <1>4 DEF DeleteNote, MailTypeOK
  <2> QED  BY <2>1, <2>2, <1>a, MailFrame
<1>5. ASSUME NEW n \in Notes, RetryMail(n) PROVE MailInv'
  <2>1. UNCHANGED <<passes, outcome, seen>> /\ status[n] = "failed"
    BY <1>5 DEF RetryMail, Unlocked
  <2>2. \A k \in Notes : status'[k] = IF k = n THEN "pending" ELSE status[k]
    BY <1>5 DEF RetryMail, MailTypeOK
  <2> QED  BY <2>1, <2>2, <1>a, MailFrame
<1>6. ASSUME NEW m \in Readers, SwitchOff(m) PROVE MailInv'
  BY <1>6, <1>a, MailFrame DEF SwitchOff, Unlocked
<1>7. ASSUME NEW s \in Senders, Select(s) PROVE MailInv'
  BY <1>7, SelectInv
<1>8. ASSUME NEW s \in Senders, NEW m \in Readers, Defer(s, m) PROVE MailInv'
  <2> USE <1>8
  <2>1. /\ UNCHANGED <<status, seen, hand, marks, mpc, mailed, twice, repeats>>
        /\ batch' = [batch EXCEPT ![s] = batch[s] \ Left(s, m)]
    BY DEF Defer, table, outcome
  <2>2. \A q \in Senders : batch'[q] \subseteq batch[q] /\ InHand(q)' \subseteq InHand(q)
                           /\ Records(q)' = Records(q)
    BY <2>1 DEF MailTypeOK, InHand, Records
  <2>3. OnePass' /\ MailedOnce'
    BY <2>1, <2>2, ShareFewer DEF MailInv, MailedOnce
  <2>4. ASSUME NEW q \in Senders PROVE Orderly(q)'
    BY <2>1, <2>2 DEF MailInv, Orderly, Instant
  <2>5. Settled' /\ Uncreated'
    BY <2>1, <2>2 DEF MailInv, Settled, Uncreated
  <2> QED  BY <2>3, <2>4, <2>5 DEF MailInv
<1>9. ASSUME NEW s \in Senders, NEW m \in Readers, NEW result \in {"sent", "failed", "off"},
             SendDigest(s, m, result)
      PROVE  MailInv'
  <2> DEFINE all == {n \in Notes : Waits(n) /\ Reader[n] = m}
             rest == batch[s] \ Left(s, m)
  <2>a. mpc[s] = "work" /\ Left(s, m) # {} /\ ~Instant(m)
        /\ batch' = [batch EXCEPT ![s] = rest]
    BY <1>9 DEF SendDigest
  <2>b. \A q \in Senders : batch'[q] \subseteq batch[q]
    BY <2>a DEF MailTypeOK
  <2>1. CASE all = {}
    <3>1. UNCHANGED <<status, seen, hand, marks, mpc, mailed, twice, repeats>>
      BY <1>9, <2>1 DEF SendDigest, table, outcome
    <3>2. \A q \in Senders : InHand(q)' \subseteq InHand(q) /\ Records(q)' = Records(q)
      BY <3>1, <2>b DEF InHand, Records
    <3>3. OnePass' /\ MailedOnce'
      BY <3>1, <3>2, ShareFewer DEF MailInv, MailedOnce
    <3>4. ASSUME NEW q \in Senders PROVE Orderly(q)'
      BY <3>1, <3>2, <2>b DEF MailInv, Orderly, Instant
    <3>5. Settled' /\ Uncreated'
      BY <3>1, <3>2 DEF MailInv, Settled, Uncreated
    <3> QED  BY <3>3, <3>4, <3>5 DEF MailInv
  <2>2. CASE all # {}
    <3>1. Send(s, all, result)
      BY <1>9, <2>2 DEF SendDigest
    <3>2. PICK k \in batch[s] : Reader[k] = m
      BY <2>a DEF Left
    <3>3. \A d \in marks[s] : \A n \in all : n \notin d.notes
      BY <3>2, <2>a DEF MailInv, Orderly, Records
    <3>4. \A n \in all : /\ n \in batch[s] \/ Waits(n)
                         /\ n \notin rest
                         /\ ~Instant(Reader[n]) => \A j \in rest : Reader[j] # Reader[n]
      BY DEF Left
    <3>5. rest \in SUBSET batch[s] /\ all \in SUBSET Notes
      OBVIOUS
    <3> HIDE DEF all, rest
    <3> QED  BY <2>a, <3>1, <3>3, <3>4, <3>5, SendInv
  <2> QED  BY <2>1, <2>2
<1>10. ASSUME NEW s \in Senders, NEW n \in Notes, NEW result \in {"sent", "failed"},
              SendOne(s, n, result)
       PROVE  MailInv'
  <2> DEFINE rest == batch[s] \ {n}
  <2>1. /\ mpc[s] = "work" /\ n \in batch[s] /\ Instant(Reader[n]) /\ Send(s, {n}, result)
        /\ batch' = [batch EXCEPT ![s] = rest]
    BY <1>10 DEF SendOne
  <2>2. \A d \in marks[s] : n \notin d.notes
    BY <2>1 DEF MailInv, Orderly, Records
  <2>3. rest \in SUBSET batch[s] /\ {n} \in SUBSET Notes /\ n \notin rest
    OBVIOUS
  <2>4. /\ \A d \in marks[s] : \A k \in {n} : k \notin d.notes
        /\ \A k \in {n} : /\ k \in batch[s] \/ Waits(k)
                          /\ k \notin rest
                          /\ ~Instant(Reader[k]) => \A j \in rest : Reader[j] # Reader[k]
    BY <2>1, <2>2, <2>3
  <2> HIDE DEF rest
  <2> QED  BY <2>1, <2>3, <2>4, SendInv
<1>11. ASSUME NEW s \in Senders, Record(s) PROVE MailInv'
  <2>1. /\ UNCHANGED <<status, seen, batch, mailed, twice, repeats>>
        /\ mpc' = [mpc EXCEPT ![s] = "work"]
        /\ marks' = [marks EXCEPT ![s] = marks[s] \cup {hand[s]}]
        /\ hand' = [hand EXCEPT ![s] = EmptyHand]
    BY <1>11 DEF Record, table, outcome
  <2>2. /\ marks'[s] = Records(s) /\ hand'[s] = EmptyHand /\ mpc'[s] = "work"
        /\ EmptyHand.notes = {} /\ Records(s)' = Records(s) \cup {EmptyHand}
    BY <2>1 DEF Records, MailTypeOK, EmptyHand
  <2>3. \A q \in Senders \ {s} : Records(q)' = Records(q) /\ InHand(q)' = InHand(q)
                                 /\ mpc'[q] = mpc[q] /\ hand'[q] = hand[q] /\ marks'[q] = marks[q]
    BY <2>1 DEF MailTypeOK, Records, InHand
  <2>4. InHand(s)' = InHand(s)
    BY <2>1, <2>2 DEF InHand, Records
  <2>5. OnePass' /\ MailedOnce'
    BY <2>1, <2>3, <2>4, ShareFewer DEF MailInv, MailedOnce
  <2>6. ASSUME NEW q \in Senders PROVE Orderly(q)'
    <3>1. CASE q = s
      BY <3>1, <2>1, <2>2 DEF MailInv, Orderly, Instant
    <3>2. CASE q # s
      BY <3>2, <2>1, <2>3 DEF MailInv, Orderly, Instant
    <3> QED  BY <3>1, <3>2
  <2>7. \A q \in Senders : Records(q) \subseteq Records(q)' /\ InHand(q)' = InHand(q)
    BY <2>2, <2>3, <2>4
  <2>8. Settled' /\ Uncreated'
    BY <2>1, <2>7 DEF MailInv, Settled, Uncreated
  <2> QED  BY <2>5, <2>6, <2>8 DEF MailInv
<1>12. ASSUME NEW s \in Senders, Commit(s) \/ CutShort(s) PROVE MailInv'
  <2>1. /\ seen' = seen /\ mailed' = mailed /\ twice' = twice /\ repeats \subseteq repeats'
        /\ Ended(s)
    BY <1>12 DEF Commit, CutShort, table, outcome
  <2>2. /\ batch'[s] = {} /\ hand'[s].notes = {} /\ marks'[s] = {} /\ mpc'[s] = "idle"
        /\ Records(s)' = {EmptyHand} /\ InHand(s)' = {}
    BY <2>1 DEF Ended, MailTypeOK, EmptyHand, Records, InHand
  <2>3. \A q \in Senders \ {s} : /\ Records(q)' = Records(q) /\ InHand(q)' = InHand(q)
                                 /\ mpc'[q] = mpc[q] /\ hand'[q] = hand[q]
                                 /\ marks'[q] = marks[q] /\ batch'[q] = batch[q]
    BY <2>1 DEF Ended, MailTypeOK, Records, InHand
  <2>4. OnePass' /\ MailedOnce'
    BY <2>1, <2>2, <2>3, ShareFewer DEF MailInv, MailedOnce
  <2>5. ASSUME NEW q \in Senders PROVE Orderly(q)'
    <3>1. CASE q = s
      BY <3>1, <2>2 DEF Orderly, EmptyHand
    <3>2. CASE q # s
      BY <3>2, <2>3 DEF MailInv, Orderly, Instant
    <3> QED  BY <3>1, <3>2
  <2>6. \A n \in Notes : status'[n] = "none" => status[n] = "none"
    <3>1. CASE CutShort(s)
      BY <3>1 DEF CutShort, table
    <3>2. ASSUME Commit(s), NEW n \in Notes, status[n] # "none" PROVE status'[n] # "none"
      <4>1. status'[n] = Final(s, n)
        BY <3>2 DEF Commit
      <4>2. CASE \E d \in marks[s] : n \in d.notes
        <5>1. (CHOOSE d \in marks[s] : n \in d.notes) \in Mails
          BY <4>2 DEF MailTypeOK
        <5> QED  BY <3>2, <4>1, <4>2, <5>1 DEF Final, Mails
      <4> QED  BY <3>2, <4>1, <4>2 DEF Final
    <3> QED  BY <1>12, <3>1, <3>2
  <2>7. Uncreated'
    BY <2>1, <2>2, <2>3, <2>6 DEF MailInv, Uncreated
  <2>8. Settled'
    <3> SUFFICES ASSUME NEW n \in mailed, n \notin repeats'
                 PROVE  \/ \E q \in Senders : \E d \in Records(q)' : n \in d.notes /\ d.result = "sent"
                        \/ status'[n] \in {"sent", "none"} /\ \A q \in Senders : n \notin InHand(q)'
      BY <2>1 DEF Settled
    <3>a. n \in Notes /\ n \notin repeats
      BY <2>1, <1>a
    <3>1. ASSUME NEW d \in Records(s), n \in d.notes, d.result = "sent"
          PROVE  status'[n] \in {"sent", "none"} /\ \A q \in Senders : n \notin InHand(q)'
      <4>1. Commit(s) /\ d \in marks[s]
        <5>1. CASE CutShort(s)
          BY <5>1, <3>1 DEF CutShort, Records
        <5>2. CASE Commit(s)
          BY <5>2, <3>1 DEF Commit, MailInv, Orderly, Records
        <5> QED  BY <1>12, <5>1, <5>2
      <4>2. d = (CHOOSE c \in marks[s] : n \in c.notes)
        BY <4>1, <3>1 DEF MailInv, Orderly, Records
      <4>3. status'[n] \in {"sent", "none"}
        BY <3>a, <3>1, <4>1, <4>2 DEF Commit, Final
      <4>4. n \in InHand(s)
        BY <4>1, <3>1 DEF InHand
      <4> QED  BY <3>a, <4>3, <4>4, <2>2, <2>3 DEF MailInv, OnePass
    <3>2. ASSUME NEW q \in Senders \ {s}, NEW d \in Records(q), n \in d.notes, d.result = "sent"
          PROVE  \E p \in Senders : \E c \in Records(p)' : n \in c.notes /\ c.result = "sent"
      BY <3>2, <2>3
    <3>3. CASE status[n] \in {"sent", "none"} /\ \A q \in Senders : n \notin InHand(q)
      <4>1. status'[n] = status[n]
        BY <1>12, <3>a, <3>3 DEF Commit, CutShort, Final, InHand, table
      <4> QED  BY <3>3, <4>1, <2>2, <2>3
    <3> QED  BY <3>a, <3>1, <3>2, <3>3 DEF MailInv, Settled
  <2> QED  BY <2>4, <2>5, <2>7, <2>8 DEF MailInv
<1>13. CASE UNCHANGED mailVars
  BY <1>13, <1>a, MailFrame DEF mailVars, passes, outcome
<1> QED
  BY <1>1, <1>2, <1>3, <1>4, <1>5, <1>6, <1>7, <1>8, <1>9, <1>10, <1>11, <1>12, <1>13
  DEF MailNext, PassStep

\* Whatever passes, outages, replays and switches interleave: a member gets one
\* mail about a notification, but for the overlaps and cuts that are noted.
THEOREM MailedOnceCorrect == MailSpec => []MailedOnce
<1>1. MailInit => MailInv
  <2> SUFFICES ASSUME MailInit PROVE MailInv
    OBVIOUS
  <2>1. \A s \in Senders : InHand(s) = {} /\ Records(s) = {EmptyHand} /\ EmptyHand.notes = {}
    BY DEF MailInit, InHand, Records, EmptyHand
  <2> QED  BY <2>1 DEF MailInit, MailInv, OnePass, Settled, Uncreated, Orderly, MailedOnce
<1>2. MailInv => MailedOnce
  BY DEF MailInv
<1> QED  BY <1>1, <1>2, MailInvStep, MailTypeCorrect, PTL DEF MailSpec

-----------------------------------------------------------------------------
(* Webhooks: typing.                                                       *)

\* The endpoints an event is for are finitely many, and their ranks are among
\* the new ids.
LEMMA TargetsType ==
    ASSUME WebhooksTypeOK, NEW targets \in SUBSET Hooks
    PROVE  /\ IsFiniteSet(targets) /\ Cardinality(targets) \in Nat
           /\ \A k \in targets : Cardinality({j \in targets : j <= k}) \in 1..Cardinality(targets)
<1>1. IsFiniteSet(targets) /\ Cardinality(targets) \in Nat
  BY WebhooksAssumption, FS_Subset, FS_CardinalityType
<1>2. ASSUME NEW k \in targets
      PROVE  Cardinality({j \in targets : j <= k}) \in 1..Cardinality(targets)
  <2> DEFINE below == {j \in targets : j <= k}
  <2>1. below \subseteq targets /\ k \in below
    BY WebhooksAssumption
  <2>2. IsFiniteSet(below) /\ Cardinality(below) \in Nat /\ Cardinality(below) <= Cardinality(targets)
    BY <1>1, <2>1, FS_Subset, FS_CardinalityType
  <2>3. Cardinality(below) # 0
    BY <2>1, <2>2, FS_EmptySet
  <2> QED  BY <1>1, <2>2, <2>3
<1> QED  BY <1>1, <1>2

\* A new event fills only ids that are new.
LEMMA QueuedRows ==
    ASSUME WebhooksTypeOK, NEW kind \in Happenings, QueueEvent(kind)
    PROVE  /\ queued' \in 0..MaxDeliveries /\ queued < queued'
           /\ \A d \in DeliveryIds :
                \/ deliveries'[d] = deliveries[d]
                \/ /\ queued < d /\ d <= queued' /\ deliveries'[d].status = "pending"
                   /\ deliveries'[d].hook \in {k \in Hooks : hooks[k] = "live"}
                   /\ deliveries'[d] \in Delivery
           /\ deliveries' \in [DeliveryIds -> Delivery]
<1> DEFINE targets == {k \in Hooks : hooks[k] = "live" /\ kind \in Listens[k]}
           IdOf(k) == queued + Cardinality({j \in targets : j <= k})
           n == Cardinality(targets)
<1>1. /\ n > 0 /\ queued + n <= MaxDeliveries /\ queued' = queued + n
      /\ deliveries' = [d \in DeliveryIds |->
                          IF \E k \in targets : d = IdOf(k)
                          THEN [hook |-> CHOOSE k \in targets : d = IdOf(k), status |-> "pending"]
                          ELSE deliveries[d]]
  BY DEF QueueEvent
<1>2. n \in Nat /\ \A k \in targets : IdOf(k) \in (queued + 1)..(queued + n)
  BY TargetsType DEF WebhooksTypeOK
<1>3. targets \subseteq {k \in Hooks : hooks[k] = "live"}
  OBVIOUS
<1> HIDE DEF targets, n, IdOf
<1>4. queued' \in 0..MaxDeliveries /\ queued < queued' /\ queued \in Nat
  BY <1>1, <1>2, WebhooksAssumption DEF WebhooksTypeOK
<1>5. ASSUME NEW d \in DeliveryIds
      PROVE  \/ deliveries'[d] = deliveries[d]
             \/ /\ queued < d /\ d <= queued' /\ deliveries'[d].status = "pending"
                /\ deliveries'[d].hook \in {k \in Hooks : hooks[k] = "live"}
                /\ deliveries'[d] \in Delivery
  <2>1. CASE \E k \in targets : d = IdOf(k)
    <3>1. PICK k \in targets : k = (CHOOSE j \in targets : d = IdOf(j)) /\ d = IdOf(k)
      BY <2>1
    <3>2. d \in (queued + 1)..(queued + n)
      BY <1>2, <3>1
    <3>3. deliveries'[d] = [hook |-> k, status |-> "pending"]
      BY <1>1, <2>1, <3>1
    <3> QED  BY <3>2, <3>3, <1>1, <1>2, <1>3, <1>4 DEF Delivery, DeliveryIds
  <2>2. CASE ~\E k \in targets : d = IdOf(k)
    BY <1>1, <2>2
  <2> QED  BY <2>1, <2>2
<1>6. deliveries' \in [DeliveryIds -> Delivery]
  <2>1. DOMAIN deliveries' = DeliveryIds /\ deliveries' = [d \in DeliveryIds |-> deliveries'[d]]
    BY <1>1
  <2>2. \A d \in DeliveryIds : deliveries'[d] \in Delivery
    BY <1>5 DEF WebhooksTypeOK
  <2> QED  BY <2>1, <2>2
<1> QED  BY <1>4, <1>5, <1>6

\* The tables of webhooks and the memory of their passes keep their types.
LEMMA WebhooksTypeStep == WebhooksTypeOK /\ [WebhooksNext]_hookVars => WebhooksTypeOK'
<1> SUFFICES ASSUME WebhooksTypeOK, [WebhooksNext]_hookVars PROVE WebhooksTypeOK'
  OBVIOUS
<1>a. ASSUME NEW d \in DeliveryIds
      PROVE  [deliveries[d] EXCEPT !.status = "none"] \in Delivery
  <2>1. deliveries[d] \in Delivery
    BY DEF WebhooksTypeOK
  <2> QED  BY <2>1 DEF Delivery
<1>1. ASSUME NEW k \in Hooks, CreateHook(k) PROVE WebhooksTypeOK'
  BY <1>1 DEF CreateHook, Free, courierVars, callHistory, WebhooksTypeOK
<1>2. ASSUME NEW k \in Hooks, DeleteHook(k) PROVE WebhooksTypeOK'
  <2>1. deliveries' \in [DeliveryIds -> Delivery]
    BY <1>2, <1>a DEF DeleteHook, WebhooksTypeOK
  <2> QED  BY <1>2, <2>1 DEF DeleteHook, Free, courierVars, callHistory, WebhooksTypeOK
<1>3. ASSUME NEW k \in Hooks, TestHook(k) PROVE WebhooksTypeOK'
  <2>1. [hook |-> k, status |-> "pending"] \in Delivery
    BY DEF Delivery
  <2>2. queued' \in 0..MaxDeliveries
    BY <1>3, WebhooksAssumption DEF TestHook, WebhooksTypeOK
  <2> QED  BY <1>3, <2>1, <2>2 DEF TestHook, Free, courierVars, callHistory, WebhooksTypeOK
<1>4. ASSUME NEW kind \in Happenings, QueueEvent(kind) PROVE WebhooksTypeOK'
  BY <1>4, QueuedRows DEF QueueEvent, Free, courierVars, callHistory, WebhooksTypeOK
<1>5. CASE SetAccess \/ BanOwner
  BY <1>5 DEF SetAccess, BanOwner, Free, courierVars, callHistory, WebhooksTypeOK
<1>6. ASSUME NEW c \in Couriers, SelectRound(c) PROVE WebhooksTypeOK'
  <2>1. OldestPending(CallBatch) \subseteq DeliveryIds
    BY DEF OldestPending
  <2>2. redone' \subseteq DeliveryIds
    BY <1>6, <2>1 DEF SelectRound, WebhooksTypeOK
  <2>3. round' \in [Couriers -> SUBSET DeliveryIds] /\ cpos' \in [Couriers -> {"idle", "call", "record"}]
    BY <1>6, <2>1 DEF SelectRound, WebhooksTypeOK
  <2> QED  BY <1>6, <2>2, <2>3 DEF SelectRound, WebhooksTypeOK
<1>7. ASSUME NEW c \in Couriers, NEW d \in DeliveryIds, NEW result \in {"sent", "failed"},
             Note(c, d, result)
      PROVE  /\ round' \in [Couriers -> SUBSET DeliveryIds] /\ noted' \in [Couriers -> SUBSET Outcome]
             /\ cpos' \in [Couriers -> {"idle", "call", "record"}]
  BY <1>7 DEF Note, WebhooksTypeOK, Outcome
<1>8. ASSUME NEW c \in Couriers, NEW d \in DeliveryIds, NEW result \in {"sent", "failed"},
             CallHook(c, d, result)
      PROVE  WebhooksTypeOK'
  <2>1. calls' \in [Hooks -> SUBSET DeliveryIds] /\ astray' \subseteq DeliveryIds
    BY <1>8 DEF CallHook, WebhooksTypeOK
  <2> QED  BY <1>7, <1>8, <2>1 DEF CallHook, WebhooksTypeOK
<1>9. ASSUME NEW c \in Couriers, NEW d \in DeliveryIds, RefuseCall(c, d) PROVE WebhooksTypeOK'
  BY <1>7, <1>9 DEF RefuseCall, callHistory, WebhooksTypeOK
<1>10. ASSUME NEW c \in Couriers, TakeLock(c) PROVE WebhooksTypeOK'
  BY <1>10 DEF TakeLock, callHistory, WebhooksTypeOK
<1>11. ASSUME NEW c \in Couriers, EndRound(c)
       PROVE  /\ cpos' \in [Couriers -> {"idle", "call", "record"}]
              /\ round' \in [Couriers -> SUBSET DeliveryIds]
              /\ noted' \in [Couriers -> SUBSET Outcome] /\ locker' \in Couriers \cup {NoCourier}
  BY <1>11 DEF EndRound, WebhooksTypeOK
<1>12. ASSUME NEW c \in Couriers, CommitRound(c) PROVE WebhooksTypeOK'
  <2>1. ASSUME NEW d \in DeliveryIds PROVE WrittenBy(c, d) \in Delivery
    <3>1. deliveries[d] \in Delivery
      BY DEF WebhooksTypeOK
    <3>2. CASE \E o \in noted[c] : o.id = d
      <4>1. (CHOOSE o \in noted[c] : o.id = d) \in Outcome
        BY <3>2 DEF WebhooksTypeOK
      <4> QED  BY <3>1, <4>1 DEF WrittenBy, Outcome, Delivery
    <3> QED  BY <3>1, <3>2 DEF WrittenBy
  <2>2. deliveries' \in [DeliveryIds -> Delivery]
    BY <1>12, <2>1 DEF CommitRound
  <2> QED  BY <1>11, <1>12, <2>2 DEF CommitRound, callHistory, WebhooksTypeOK
<1>13. ASSUME NEW c \in Couriers, SpillRound(c) PROVE WebhooksTypeOK'
  <2>1. redone' \subseteq DeliveryIds
    BY <1>13 DEF SpillRound, WebhooksTypeOK, Outcome
  <2>2. spills' \in 0..MaxSpills
    BY <1>13, WebhooksAssumption DEF SpillRound, WebhooksTypeOK
  <2> QED  BY <1>11, <1>13, <2>1, <2>2 DEF SpillRound, WebhooksTypeOK
<1>14. CASE UNCHANGED hookVars
  BY <1>14 DEF hookVars, WebhooksTypeOK
<1> QED
  BY <1>1, <1>2, <1>3, <1>4, <1>5, <1>6, <1>8, <1>9, <1>10, <1>12, <1>13, <1>14
  DEF WebhooksNext, CourierStep

\* Whatever members, administrators and passes do, the tables keep their types.
THEOREM WebhooksTypeCorrect == WebhooksSpec => []WebhooksTypeOK
<1>1. WebhooksInit => WebhooksTypeOK
  BY WebhooksAssumption DEF WebhooksInit, WebhooksTypeOK, NoDelivery, Delivery
<1> QED  BY <1>1, WebhooksTypeStep, PTL DEF WebhooksSpec


-----------------------------------------------------------------------------
(* Webhooks: an endpoint is called in the order of its deliveries.         *)

\* What a pass recorded and has not committed.
Noted(c) == {o.id : o \in noted[c]}
HookOf(d) == deliveries[d].hook
Pending(d) == deliveries[d].status = "pending"
\* An id not yet given has no row; a delivery without a row lost it with its
\* endpoint; what passes have or called are rows of an endpoint.
Numbered ==
    /\ \A d \in DeliveryIds : d > queued => deliveries[d] = NoDelivery
    /\ \A d \in DeliveryIds : IF HookOf(d) \in Hooks
                               THEN deliveries[d].status = "none" => hooks[HookOf(d)] = "deleted"
                               ELSE deliveries[d].status = "none"
    /\ \A c \in Couriers : \A d \in Has(c) : d <= queued /\ HookOf(d) \in Hooks
    /\ \A k \in Hooks : \A d \in calls[k] : d <= queued /\ HookOf(d) = k
\* A delivery belongs to one pass, or the overlap was noted.
OneCourier ==
    \A d \in DeliveryIds \ redone : \A b, c \in Couriers :
        b # c => d \notin Has(b) \/ d \notin Has(c)
\* A pass that is idle has nothing; what it recorded it does not call again.
Tidy(c) ==
    /\ cpos[c] = "idle" => round[c] = {} /\ noted[c] = {}
    /\ round[c] \cap Noted(c) = {}
\* What a pass has stays pending, or went with its endpoint.
HooksKept ==
    \A c \in Couriers : \A d \in Has(c) \ redone :
        Pending(d) \/ hooks[HookOf(d)] = "deleted"
\* Nobody has what is finished or was never selected.
Nobody(d) == \A b \in Couriers : d \notin Has(b)
\* A pass that has a delivery to call has every earlier one of the endpoint
\* too, or that one is over.
Prior ==
    \A c \in Couriers : \A e \in round[c] : \A d \in DeliveryIds \ redone :
        d < e /\ HookOf(d) = HookOf(e) => d \in Has(c) \/ (~Pending(d) /\ Nobody(d))
\* After a call, neither that delivery nor an earlier one is still to be called.
Past ==
    \A k \in Hooks : \A e \in calls[k] : \A d \in DeliveryIds \ redone :
        d <= e /\ HookOf(d) = k =>
            /\ \A c \in Couriers : d \notin round[c]
            /\ ~Pending(d) \/ \E c \in Couriers : d \in Noted(c)
HookInv ==
    /\ Numbered /\ OneCourier /\ HooksKept /\ Prior /\ Past /\ CalledInOrder
    /\ \A c \in Couriers : Tidy(c)

\* Members and administrators change neither what the passes have nor the
\* endpoint of a delivery.
LEMMA HookFrame ==
    ASSUME WebhooksTypeOK, HookInv, UNCHANGED <<courierVars, callHistory>>, Numbered',
           \A d \in DeliveryIds : d <= queued =>
              /\ deliveries'[d].hook = deliveries[d].hook
              /\ deliveries'[d].status \in {deliveries[d].status, "none"},
           \A k \in Hooks : hooks[k] = "deleted" => hooks'[k] = "deleted"
    PROVE  HookInv'
<1>1. /\ round' = round /\ noted' = noted /\ cpos' = cpos /\ calls' = calls
      /\ astray' = astray /\ redone' = redone
  BY DEF courierVars, callHistory
<1>2. \A c \in Couriers : Has(c)' = Has(c) /\ Noted(c)' = Noted(c)
  BY <1>1 DEF Has, Noted
<1>3. \A d \in DeliveryIds : d <= queued =>
         HookOf(d)' = HookOf(d) /\ (Pending(d)' => Pending(d))
         /\ (~Pending(d)' => ~Pending(d) \/ hooks'[HookOf(d)] = "deleted")
  BY DEF HookOf, Pending, HookInv, Numbered
<1>4. \A c \in Couriers : \A d \in Has(c) :
         d <= queued /\ d \in DeliveryIds /\ HookOf(d) \in Hooks
  BY DEF HookInv, Numbered, Has, WebhooksTypeOK, Outcome
<1>5. \A k \in Hooks : \A d \in calls[k] : d <= queued /\ d \in DeliveryIds
  BY DEF HookInv, Numbered, WebhooksTypeOK
<1>6. OneCourier' /\ CalledInOrder'
  BY <1>1, <1>2 DEF HookInv, OneCourier, CalledInOrder
<1>7. ASSUME NEW c \in Couriers PROVE Tidy(c)'
  BY <1>1, <1>2 DEF HookInv, Tidy
<1>8. HooksKept'
  BY <1>1, <1>2, <1>3, <1>4 DEF HookInv, HooksKept
<1>9. Prior'
  <2> SUFFICES ASSUME NEW c \in Couriers, NEW e \in round[c], NEW d \in DeliveryIds, d \notin redone,
                      d < e, HookOf(d)' = HookOf(e)'
               PROVE  d \in Has(c) \/ (~Pending(d)' /\ Nobody(d))
    BY <1>1, <1>2 DEF Prior, Nobody
  <2>1. e \in DeliveryIds /\ e <= queued /\ d <= queued
    BY <1>4 DEF Has, WebhooksTypeOK, DeliveryIds
  <2> QED  BY <1>3, <2>1 DEF HookInv, Prior
<1>10. Past'
  <2> SUFFICES ASSUME NEW k \in Hooks, NEW e \in calls[k], NEW d \in DeliveryIds, d \notin redone,
                      d <= e, HookOf(d)' = k
               PROVE  /\ \A c \in Couriers : d \notin round[c]
                      /\ ~Pending(d)' \/ \E c \in Couriers : d \in Noted(c)
    BY <1>1, <1>2 DEF Past
  <2>1. d <= queued
    BY <1>5 DEF WebhooksTypeOK, DeliveryIds
  <2> QED  BY <1>3, <2>1 DEF HookInv, Past
<1> QED  BY <1>6, <1>7, <1>8, <1>9, <1>10 DEF HookInv

\* Numbers when passes do not change what calls there were, and have nothing new.
LEMMA NumberedFewer ==
    ASSUME WebhooksTypeOK, Numbered, queued' = queued, hooks' = hooks, calls' = calls,
           \A c \in Couriers : Has(c)' \subseteq Has(c),
           \A d \in DeliveryIds :
              /\ deliveries'[d].hook = deliveries[d].hook
              /\ deliveries[d].status = "none" => deliveries'[d] = deliveries[d]
              /\ deliveries'[d].status = "none" => deliveries[d].status = "none"
    PROVE  Numbered'
<1>1. \A d \in DeliveryIds : HookOf(d)' = HookOf(d)
  BY DEF HookOf
<1>2. \A d \in DeliveryIds : d > queued => deliveries'[d] = NoDelivery
  BY DEF Numbered, NoDelivery
<1>3. \A k \in Hooks : \A d \in calls[k] : d \in DeliveryIds
  BY DEF WebhooksTypeOK
<1>4. \A d \in DeliveryIds : IF HookOf(d)' \in Hooks
                             THEN deliveries'[d].status = "none" => hooks'[HookOf(d)'] = "deleted"
                             ELSE deliveries'[d].status = "none"
  BY <1>1 DEF Numbered
<1>5. \A k \in Hooks : \A d \in calls'[k] : d <= queued' /\ HookOf(d)' = k
  BY <1>1, <1>3 DEF Numbered
<1>6. \A c \in Couriers : \A d \in Has(c)' : d <= queued' /\ HookOf(d)' \in Hooks
  <2>1. \A c \in Couriers : Has(c) \subseteq DeliveryIds
    BY DEF Has, WebhooksTypeOK, Outcome
  <2> QED  BY <1>1, <2>1 DEF Numbered
<1> QED  BY <1>2, <1>4, <1>5, <1>6 DEF Numbered

\* A later delivery among the oldest that are pending takes the earlier along.
LEMMA OldestTakesEarlier ==
    ASSUME NEW e \in OldestPending(CallBatch), NEW d \in DeliveryIds, d < e, Undelivered(d),
           WebhooksTypeOK
    PROVE  d \in OldestPending(CallBatch)
<1> DEFINE before(x) == {f \in DeliveryIds : Undelivered(f) /\ f < x}
<1>1. before(d) \subseteq before(e)
  BY DEF OldestPending, DeliveryIds
<1>2. IsFiniteSet(before(e))
  <2>1. IsFiniteSet(DeliveryIds)
    BY WebhooksAssumption, FS_Interval DEF DeliveryIds
  <2> QED  BY <2>1, FS_Subset
<1>3. /\ Cardinality(before(d)) <= Cardinality(before(e))
      /\ Cardinality(before(d)) \in Nat /\ Cardinality(before(e)) \in Nat
  BY <1>1, <1>2, FS_Subset, FS_CardinalityType
<1>4. Cardinality(before(e)) < CallBatch
  BY DEF OldestPending
<1> QED  BY <1>3, <1>4, WebhooksAssumption DEF OldestPending

\* The selection of a pass.
LEMMA SelectRoundInv ==
    ASSUME WebhooksTypeOK, HookInv, NEW b \in Couriers, SelectRound(b) PROVE HookInv'
<1> DEFINE picked == OldestPending(CallBatch)
<1>1. /\ cpos[b] = "idle" /\ cpos' = [cpos EXCEPT ![b] = "call"]
      /\ round' = [round EXCEPT ![b] = picked]
      /\ redone' = redone \cup UNION {picked \cap Has(c) : c \in Couriers \ {b}}
      /\ UNCHANGED <<hooks, deliveries, queued, noted, calls, astray>>
  BY DEF SelectRound
<1>2. \A d \in picked : d \in DeliveryIds /\ Undelivered(d)
  BY DEF OldestPending
<1>3. round[b] = {} /\ noted[b] = {} /\ Has(b) = {}
  BY <1>1 DEF HookInv, Tidy, Has
<1>4. Has(b)' = picked /\ Noted(b)' = {} /\ round'[b] = picked /\ cpos'[b] = "call"
  BY <1>1, <1>3 DEF Has, Noted, WebhooksTypeOK
<1>5. \A c \in Couriers \ {b} : /\ Has(c)' = Has(c) /\ Noted(c)' = Noted(c)
                                /\ round'[c] = round[c] /\ cpos'[c] = cpos[c]
  BY <1>1 DEF Has, Noted, WebhooksTypeOK
<1>6. \A d \in DeliveryIds : HookOf(d)' = HookOf(d) /\ Pending(d)' = Pending(d)
  BY <1>1 DEF HookOf, Pending
<1>7. \A d \in picked : d <= queued /\ HookOf(d) \in Hooks /\ Pending(d) /\ hooks[HookOf(d)] = "live"
  <2> SUFFICES ASSUME NEW d \in picked
               PROVE  d <= queued /\ HookOf(d) \in Hooks /\ Pending(d) /\ hooks[HookOf(d)] = "live"
    OBVIOUS
  <2>1. Pending(d) /\ hooks[HookOf(d)] = "live" /\ d \in DeliveryIds
    BY <1>2 DEF Undelivered, Pending, HookOf
  <2>2. deliveries[d] # NoDelivery
    BY <2>1 DEF Pending, NoDelivery
  <2>3. d <= queued
    BY <2>1, <2>2 DEF HookInv, Numbered, WebhooksTypeOK, DeliveryIds
  <2> QED  BY <2>1, <2>3 DEF HookInv, Numbered, Pending
<1> HIDE DEF picked
<1>8. Numbered'
  <2>1. \A c \in Couriers : \A d \in Has(c)' : d <= queued' /\ HookOf(d)' \in Hooks
    BY <1>1, <1>4, <1>5, <1>7 DEF HookInv, Numbered, HookOf
  <2>2. \A k \in Hooks : \A d \in calls'[k] : d <= queued' /\ HookOf(d)' = k
    BY <1>1 DEF HookInv, Numbered, HookOf
  <2>3. \A d \in DeliveryIds : IF HookOf(d)' \in Hooks
                              THEN deliveries'[d].status = "none" => hooks'[HookOf(d)'] = "deleted"
                              ELSE deliveries'[d].status = "none"
    BY <1>1 DEF HookInv, Numbered, HookOf
  <2> QED  BY <2>1, <2>2, <2>3, <1>1 DEF HookInv, Numbered
<1>9. OneCourier'
  <2> SUFFICES ASSUME NEW d \in DeliveryIds, d \notin redone', NEW p \in Couriers, NEW q \in Couriers,
                      p # q, d \in Has(p)', d \in Has(q)'
               PROVE  FALSE
    BY DEF OneCourier
  <2>1. \A c \in Couriers \ {b} : d \in picked => d \notin Has(c)
    BY <1>1
  <2> QED  BY <2>1, <1>1, <1>4, <1>5 DEF HookInv, OneCourier
<1>10. ASSUME NEW c \in Couriers PROVE Tidy(c)'
  <2>1. CASE c = b
    BY <1>1, <1>4, <2>1 DEF Tidy
  <2>2. CASE c # b
    BY <1>1, <1>5, <2>2 DEF HookInv, Tidy
  <2> QED  BY <2>1, <2>2
<1>11. HooksKept'
  BY <1>1, <1>4, <1>5, <1>7, <1>6 DEF HookInv, HooksKept, HookOf, Pending
<1>12. Prior'
  <2> SUFFICES ASSUME NEW c \in Couriers, NEW e \in round'[c], NEW d \in DeliveryIds, d \notin redone',
                      d < e, HookOf(d)' = HookOf(e)'
               PROVE  d \in Has(c)' \/ (~Pending(d)' /\ Nobody(d)')
    BY DEF Prior
  <2>e. e \in DeliveryIds /\ HookOf(d) = HookOf(e) /\ Pending(d)' = Pending(d)
        /\ (Nobody(d)' <=> \A a \in Couriers : d \notin Has(a)')
    <3>1. e \in DeliveryIds
      BY <1>2, <1>4, <1>5 DEF WebhooksTypeOK
    <3> QED  BY <3>1, <1>6 DEF Nobody
  <2>1. d \notin redone
    BY <1>1
  <2>2. CASE c = b
    <3>1. e \in picked
      BY <1>4, <2>2
    <3>2. CASE Pending(d)
      <4>1. Undelivered(d)
        BY <3>1, <3>2, <2>e, <1>7 DEF Undelivered, Pending, HookOf
      <4> QED  BY <4>1, <3>1, <2>2, <1>4, OldestTakesEarlier DEF picked
    <3>3. CASE ~Pending(d)
      <4>1. hooks[HookOf(d)] # "deleted"
        BY <3>1, <2>e, <1>7
      <4>2. \A a \in Couriers : d \notin Has(a)
        BY <4>1, <3>3, <2>1 DEF HookInv, HooksKept
      <4>3. d \notin picked
        BY <3>3, <1>7
      <4> QED  BY <2>e, <3>3, <4>2, <4>3, <1>4, <1>5
    <3> QED  BY <3>2, <3>3
  <2>3. CASE c # b
    <3>1. e \in round[c]
      BY <1>5, <2>3
    <3>2. d \in Has(c) \/ (~Pending(d) /\ Nobody(d))
      BY <3>1, <2>1, <2>e DEF HookInv, Prior
    <3> QED  BY <2>e, <3>2, <2>3, <1>4, <1>5, <1>7 DEF Nobody
  <2> QED  BY <2>2, <2>3
<1>13. Past'
  <2> SUFFICES ASSUME NEW k \in Hooks, NEW e \in calls[k], NEW d \in DeliveryIds, d \notin redone',
                      d <= e, HookOf(d) = k
               PROVE  /\ \A c \in Couriers : d \notin round'[c]
                      /\ ~Pending(d) \/ \E c \in Couriers : d \in Noted(c)'
    BY <1>1, <1>6 DEF Past, HookOf, Pending
  <2>1. /\ \A c \in Couriers : d \notin round[c]
        /\ ~Pending(d) \/ \E c \in Couriers : d \in Noted(c)
    BY <1>1 DEF HookInv, Past
  <2>2. \A c \in Couriers : d \in Noted(c) => c # b /\ d \in Has(c)
    BY <1>3 DEF Noted, Has
  <2>3. d \notin picked
    <3> SUFFICES ASSUME d \in picked PROVE FALSE
      OBVIOUS
    <3>1. PICK c \in Couriers : d \in Noted(c)
      BY <2>1, <1>7
    <3> QED  BY <3>1, <2>2, <1>1
  <2> QED  BY <2>1, <2>2, <2>3, <1>4, <1>5
<1>14. CalledInOrder'
  BY <1>1 DEF HookInv, CalledInOrder
<1> QED  BY <1>8, <1>9, <1>10, <1>11, <1>12, <1>13, <1>14 DEF HookInv

\* A delivery is recorded, called or refused.
LEMMA NoteInv ==
    ASSUME WebhooksTypeOK, HookInv, NEW c \in Couriers, NEW d \in DeliveryIds,
           NEW result \in {"sent", "failed"}, First(c, d), Note(c, d, result),
           NEW k, k = HookOf(d),
           UNCHANGED <<hooks, deliveries, queued, redone>>,
           \/ UNCHANGED <<calls, astray>>
           \/ /\ calls' = [calls EXCEPT ![k] = @ \cup {d}]
              /\ astray' = IF \E e \in calls[k] : e >= d THEN astray \cup {d} ELSE astray
    PROVE  HookInv'
<1>1. /\ round'[c] = round[c] \ {d} /\ noted'[c] = noted[c] \cup {[id |-> d, result |-> result]}
      /\ cpos'[c] = "record" /\ d \in round[c] /\ \A e \in round[c] : d <= e
  BY DEF First, Note, WebhooksTypeOK
<1>2. \A b \in Couriers \ {c} : /\ Has(b)' = Has(b) /\ Noted(b)' = Noted(b) /\ round'[b] = round[b]
                                /\ noted'[b] = noted[b] /\ cpos'[b] = cpos[b]
  BY DEF Note, WebhooksTypeOK, Has, Noted
<1>3. Noted(c)' = Noted(c) \cup {d}
  <2>1. PICK x : x = [id |-> d, result |-> result]
    OBVIOUS
  <2>2. x.id = d /\ noted'[c] = noted[c] \cup {x}
    BY <2>1, <1>1
  <2>3. \A i : i \in Noted(c)' <=> \E o \in noted'[c] : o.id = i
    BY DEF Noted
  <2>4. \A i : i \in Noted(c) <=> \E o \in noted[c] : o.id = i
    BY DEF Noted
  <2> QED  BY <2>2, <2>3, <2>4
<1>4. Has(c)' = Has(c) /\ d \in Has(c)
  <2>1. Has(c) = round[c] \cup Noted(c) /\ Has(c)' = round'[c] \cup Noted(c)'
    BY DEF Has, Noted
  <2> QED  BY <2>1, <1>1, <1>3
<1>a. \A b \in Couriers : Has(b)' = Has(b) /\ Noted(b) \subseteq Noted(b)' /\ round'[b] \subseteq round[b]
  BY <1>1, <1>2, <1>3, <1>4
<1>5. \A e \in DeliveryIds : HookOf(e)' = HookOf(e) /\ Pending(e)' = Pending(e)
  BY DEF HookOf, Pending
<1>6. d <= queued /\ k \in Hooks
  BY <1>4 DEF HookInv, Numbered
<1>7. \A j \in Hooks : \A e \in calls'[j] : e \in calls[j] \/ (e = d /\ j = k)
  BY <1>6 DEF WebhooksTypeOK
<1>8. Numbered'
  <2>1. \A b \in Couriers : \A e \in Has(b)' : e <= queued' /\ HookOf(e)' \in Hooks
    BY <1>a DEF HookInv, Numbered, HookOf
  <2>2. \A j \in Hooks : \A e \in calls'[j] : e <= queued' /\ HookOf(e)' = j
    BY <1>5, <1>6, <1>7 DEF HookInv, Numbered, WebhooksTypeOK
  <2>3. \A e \in DeliveryIds : IF HookOf(e)' \in Hooks
                              THEN deliveries'[e].status = "none" => hooks'[HookOf(e)'] = "deleted"
                              ELSE deliveries'[e].status = "none"
    BY <1>5 DEF HookInv, Numbered
  <2> QED  BY <2>1, <2>2, <2>3 DEF HookInv, Numbered
<1>9. OneCourier'
  BY <1>a DEF HookInv, OneCourier
<1>10. ASSUME NEW b \in Couriers PROVE Tidy(b)'
  <2>1. CASE b = c
    BY <2>1, <1>1, <1>3 DEF HookInv, Tidy
  <2>2. CASE b # c
    BY <1>2, <2>2 DEF HookInv, Tidy
  <2> QED  BY <2>1, <2>2
<1>11. HooksKept'
  <2>1. \A b \in Couriers : Has(b) \subseteq DeliveryIds
    BY DEF Has, WebhooksTypeOK, Outcome
  <2> QED  BY <1>a, <1>5, <2>1 DEF HookInv, HooksKept
<1>12. Prior'
  <2>1. \A b \in Couriers : round'[b] \subseteq round[b] /\ round[b] \subseteq DeliveryIds
    BY <1>a DEF WebhooksTypeOK
  <2>2. \A e \in DeliveryIds : Nobody(e)' <=> Nobody(e)
    BY <1>a DEF Nobody
  <2> QED  BY <1>a, <1>5, <2>1, <2>2 DEF HookInv, Prior
<1>13. ASSUME NEW e \in DeliveryIds, e \notin redone, e <= d, HookOf(e) = k
       PROVE  /\ \A b \in Couriers : e \notin round'[b]
              /\ ~Pending(e) \/ \E b \in Couriers : e \in Noted(b)'
  <2>1. CASE e = d
    <3>1. \A b \in Couriers \ {c} : e \notin Has(b)
      BY <1>4, <1>13, <2>1 DEF HookInv, OneCourier
    <3> QED  BY <1>1, <1>2, <1>3, <2>1, <3>1 DEF Has
  <2>2. CASE e # d /\ e \in Has(c)
    <3>1. e \notin round[c]
      <4>1. ~(d <= e)
        BY <1>13, <2>2 DEF DeliveryIds
      <4> QED  BY <1>1, <4>1
    <3>2. e \in Noted(c)
      BY <2>2, <3>1 DEF Has, Noted
    <3>3. \A b \in Couriers \ {c} : e \notin round[b]
      BY <1>13, <2>2 DEF HookInv, OneCourier, Has
    <3> QED  BY <3>1, <3>2, <3>3, <1>a
  <2>3. CASE e # d /\ e \notin Has(c)
    <3>1. e < d
      BY <1>13, <2>3 DEF DeliveryIds
    <3>2. ~Pending(e) /\ Nobody(e)
      BY <1>1, <1>13, <2>3, <3>1 DEF HookInv, Prior
    <3> QED  BY <3>2, <1>a DEF Nobody, Has
  <2> QED  BY <2>1, <2>2, <2>3
<1>14. Past'
  <2> SUFFICES ASSUME NEW j \in Hooks, NEW f \in calls'[j], NEW e \in DeliveryIds, e \notin redone,
                      e <= f, HookOf(e) = j
               PROVE  /\ \A b \in Couriers : e \notin round'[b]
                      /\ ~Pending(e) \/ \E b \in Couriers : e \in Noted(b)'
    BY <1>5 DEF Past
  <2>1. CASE f \in calls[j]
    BY <2>1, <1>a DEF HookInv, Past
  <2>2. CASE f = d /\ j = k
    BY <2>2, <1>13
  <2> QED  BY <1>7, <2>1, <2>2
<1>15. CalledInOrder'
  <2>1. ASSUME NEW e \in calls[k], e >= d, d \notin redone PROVE FALSE
    <3>1. d <= e
      BY <2>1, <1>6 DEF WebhooksTypeOK, DeliveryIds
    <3> QED  BY <2>1, <3>1, <1>1, <1>6 DEF HookInv, Past
  <2> QED  BY <2>1 DEF HookInv, CalledInOrder
<1> QED  BY <1>8, <1>9, <1>10, <1>11, <1>12, <1>14, <1>15 DEF HookInv

\* A pass ends: what it recorded is written, or noted as to be done again.
LEMMA EndRoundInv ==
    ASSUME WebhooksTypeOK, HookInv, NEW c \in Couriers, EndRound(c), Numbered',
           UNCHANGED <<queued, hooks, calls, astray>>, redone \subseteq redone',
           \A d \in DeliveryIds :
              /\ HookOf(d)' = HookOf(d) /\ (Pending(d)' => Pending(d))
              /\ d \notin Noted(c) => Pending(d)' = Pending(d)
              /\ d \in Noted(c) => d \in redone' \/ ~Pending(d)'
    PROVE  HookInv'
<1>1. /\ round'[c] = {} /\ noted'[c] = {} /\ cpos'[c] = "idle"
      /\ \A b \in Couriers \ {c} : round'[b] = round[b] /\ noted'[b] = noted[b] /\ cpos'[b] = cpos[b]
  BY DEF EndRound, WebhooksTypeOK
<1>2. /\ Has(c)' = {} /\ Noted(c)' = {}
      /\ \A b \in Couriers \ {c} : Has(b)' = Has(b) /\ Noted(b)' = Noted(b)
  BY <1>1 DEF Has, Noted
<1>3. \A b \in Couriers : Has(b) \subseteq DeliveryIds /\ Noted(b) \subseteq Has(b) /\ round[b] \subseteq Has(b)
  BY DEF Has, Noted, WebhooksTypeOK, Outcome
<1>4. OneCourier'
  BY <1>2 DEF HookInv, OneCourier
<1>5. ASSUME NEW b \in Couriers PROVE Tidy(b)'
  <2>1. CASE b = c
    BY <2>1, <1>1, <1>2 DEF Tidy
  <2>2. CASE b # c
    BY <1>1, <1>2, <2>2 DEF HookInv, Tidy
  <2> QED  BY <2>1, <2>2
<1>6. HooksKept'
  <2> SUFFICES ASSUME NEW b \in Couriers, NEW d \in Has(b)', d \notin redone'
               PROVE  Pending(d)' \/ hooks[HookOf(d)'] = "deleted"
    BY DEF HooksKept
  <2>1. b # c /\ d \in Has(b) /\ d \in DeliveryIds /\ d \notin redone
    BY <1>2, <1>3
  <2>2. d \notin Noted(c)
    BY <2>1, <1>3 DEF HookInv, OneCourier
  <2> QED  BY <2>1, <2>2 DEF HookInv, HooksKept
<1>7. Prior'
  <2> SUFFICES ASSUME NEW b \in Couriers, NEW e \in round'[b], NEW d \in DeliveryIds, d \notin redone',
                      d < e, HookOf(d)' = HookOf(e)'
               PROVE  d \in Has(b)' \/ (~Pending(d)' /\ Nobody(d)')
    BY DEF Prior
  <2>1. b # c /\ e \in round[b] /\ e \in DeliveryIds
    BY <1>1, <1>3
  <2>2. d \in Has(b) \/ (~Pending(d) /\ Nobody(d))
    BY <2>1 DEF HookInv, Prior
  <2> QED  BY <2>1, <2>2, <1>2 DEF Nobody
<1>8. Past'
  <2> SUFFICES ASSUME NEW k \in Hooks, NEW e \in calls[k], NEW d \in DeliveryIds, d \notin redone',
                      d <= e, HookOf(d)' = k
               PROVE  /\ \A b \in Couriers : d \notin round'[b]
                      /\ ~Pending(d)' \/ \E b \in Couriers : d \in Noted(b)'
    BY DEF Past
  <2>1. /\ \A b \in Couriers : d \notin round[b]
        /\ ~Pending(d) \/ \E b \in Couriers : d \in Noted(b)
    BY DEF HookInv, Past
  <2>2. \A b \in Couriers : d \notin round'[b]
    BY <1>1, <2>1
  <2>3. ~Pending(d)' \/ \E b \in Couriers : d \in Noted(b)'
    BY <1>2, <2>1
  <2> QED  BY <2>2, <2>3
<1>9. CalledInOrder'
  BY DEF HookInv, CalledInOrder
<1> QED  BY <1>4, <1>5, <1>6, <1>7, <1>8, <1>9 DEF HookInv

\* The invariant of the calls is inductive.
LEMMA HookInvStep ==
    ASSUME WebhooksTypeOK, WebhooksTypeOK', HookInv, [WebhooksNext]_hookVars PROVE HookInv'
<1>q. queued \in Nat /\ DeliveryIds \subseteq Nat /\ \A c \in Couriers : Has(c) \subseteq DeliveryIds
  BY WebhooksAssumption DEF WebhooksTypeOK, DeliveryIds, Has, Outcome
<1>n. Numbered
  BY DEF HookInv
\* Numbers, when members and administrators act.
<1>f. ASSUME UNCHANGED <<courierVars, callHistory>>, queued <= queued',
             \A d \in DeliveryIds : d <= queued =>
                /\ deliveries'[d].hook = deliveries[d].hook
                /\ deliveries'[d].status \in {deliveries[d].status, "none"}
                /\ deliveries'[d].status = "none" => \/ deliveries[d].status = "none"
                                                     \/ hooks'[deliveries[d].hook] = "deleted",
             \A d \in DeliveryIds : d > queued =>
                \/ deliveries'[d] = NoDelivery
                \/ d <= queued' /\ deliveries'[d].hook \in Hooks /\ deliveries'[d].status # "none",
             \A k \in Hooks : hooks[k] = "deleted" => hooks'[k] = "deleted"
      PROVE  HookInv'
  <2>1. queued' \in Nat
    BY WebhooksAssumption DEF WebhooksTypeOK
  <2>2. \A d \in DeliveryIds : IF HookOf(d)' \in Hooks
                              THEN deliveries'[d].status = "none" => hooks'[HookOf(d)'] = "deleted"
                              ELSE deliveries'[d].status = "none"
    <3> SUFFICES ASSUME NEW d \in DeliveryIds
                 PROVE  IF deliveries'[d].hook \in Hooks
                        THEN deliveries'[d].status = "none" => hooks'[deliveries'[d].hook] = "deleted"
                        ELSE deliveries'[d].status = "none"
      BY DEF HookOf
    <3>1. CASE d <= queued
      BY <1>f, <1>n, <3>1 DEF Numbered, HookOf
    <3>2. CASE d > queued
      <4>1. NoDelivery.hook \notin Hooks /\ NoDelivery.status = "none"
        BY WebhooksAssumption DEF NoDelivery
      <4> QED  BY <1>f, <3>2, <4>1
    <3> QED  BY <1>q, <3>1, <3>2
  <2>3. \A c \in Couriers : \A d \in Has(c)' : d <= queued' /\ HookOf(d)' \in Hooks
    <3>1. \A c \in Couriers : Has(c)' = Has(c)
      BY <1>f DEF courierVars, Has
    <3> SUFFICES ASSUME NEW c \in Couriers, NEW d \in Has(c)
                 PROVE  d <= queued' /\ deliveries'[d].hook \in Hooks
      BY <3>1 DEF HookOf
    <3>2. d <= queued /\ d \in Nat /\ d \in DeliveryIds /\ deliveries[d].hook \in Hooks
      BY <1>n, <1>q DEF Numbered, HookOf
    <3> QED  BY <1>f, <1>q, <2>1, <3>2
  <2>4. \A k \in Hooks : \A d \in calls'[k] : d <= queued' /\ HookOf(d)' = k
    <3>1. calls' = calls /\ \A k \in Hooks : calls[k] \subseteq DeliveryIds
      BY <1>f DEF callHistory, WebhooksTypeOK
    <3> SUFFICES ASSUME NEW k \in Hooks, NEW d \in calls[k]
                 PROVE  d <= queued' /\ deliveries'[d].hook = k
      BY <3>1 DEF HookOf
    <3>2. d <= queued /\ d \in Nat /\ d \in DeliveryIds /\ deliveries[d].hook = k
      BY <1>n, <1>q, <3>1 DEF Numbered, HookOf
    <3> QED  BY <1>f, <1>q, <2>1, <3>2
  <2>5. ASSUME NEW d \in DeliveryIds, d > queued' PROVE deliveries'[d] = NoDelivery
    <3>1. d \in Nat /\ d > queued /\ ~(d <= queued')
      BY <1>f, <1>q, <2>1, <2>5
    <3> QED  BY <1>f, <3>1
  <2>6. Numbered'
    BY <2>2, <2>3, <2>4, <2>5 DEF Numbered
  <2> QED  BY <1>f, <2>6, HookFrame
<1>1. ASSUME NEW k \in Hooks, CreateHook(k) PROVE HookInv'
  <2>1. \A j \in Hooks : hooks[j] = "deleted" => hooks'[j] = "deleted"
    BY <1>1 DEF CreateHook, WebhooksTypeOK
  <2> QED  BY <1>1, <1>f, <1>n, <1>q, <2>1 DEF CreateHook, Free, Numbered
<1>2. ASSUME NEW k \in Hooks, DeleteHook(k) PROVE HookInv'
  <2>1. \A j \in Hooks : hooks[j] = "deleted" => hooks'[j] = "deleted"
    BY <1>2 DEF DeleteHook, WebhooksTypeOK
  <2>2. hooks'[k] = "deleted"
    BY <1>2 DEF DeleteHook, WebhooksTypeOK
  <2>3. \A d \in DeliveryIds :
          /\ deliveries'[d].hook = deliveries[d].hook
          /\ deliveries'[d].status \in {deliveries[d].status, "none"}
          /\ deliveries[d].hook # k => deliveries'[d] = deliveries[d]
    BY <1>2 DEF DeleteHook, WebhooksTypeOK, Delivery
  <2>4. \A d \in DeliveryIds : d > queued => deliveries'[d] = NoDelivery
    <3> SUFFICES ASSUME NEW d \in DeliveryIds, d > queued PROVE deliveries'[d] = NoDelivery
      OBVIOUS
    <3>1. deliveries[d].hook = 0 /\ 0 \notin Hooks
      BY <1>n, WebhooksAssumption DEF Numbered, NoDelivery
    <3> QED  BY <1>n, <2>3, <3>1 DEF Numbered
  <2> QED  BY <1>2, <1>f, <1>q, <2>1, <2>2, <2>3, <2>4 DEF DeleteHook, Free
<1>3. ASSUME NEW k \in Hooks, TestHook(k) PROVE HookInv'
  <2>1. /\ queued' = queued + 1
        /\ \A d \in DeliveryIds : d # queued + 1 => deliveries'[d] = deliveries[d]
        /\ deliveries'[queued + 1] = [hook |-> k, status |-> "pending"]
    BY <1>3, <1>q, WebhooksAssumption DEF TestHook, WebhooksTypeOK, DeliveryIds
  <2> QED  BY <1>3, <1>f, <1>n, <1>q, <2>1 DEF TestHook, Free, Numbered
<1>4. ASSUME NEW kind \in Happenings, QueueEvent(kind) PROVE HookInv'
  <2>1. /\ queued < queued' /\ queued' \in Nat
        /\ \A d \in DeliveryIds :
             \/ deliveries'[d] = deliveries[d]
             \/ /\ queued < d /\ d <= queued' /\ deliveries'[d].status = "pending"
                /\ deliveries'[d].hook \in Hooks
    BY <1>4, QueuedRows, WebhooksAssumption
  <2>2. ASSUME NEW d \in DeliveryIds, d <= queued PROVE deliveries'[d] = deliveries[d]
    <3>1. d \in Nat /\ ~(queued < d)
      BY <1>q, <2>2
    <3> QED  BY <2>1, <3>1
  <2>3. ASSUME NEW d \in DeliveryIds, d > queued
        PROVE  \/ deliveries'[d] = NoDelivery
               \/ d <= queued' /\ deliveries'[d].hook \in Hooks /\ deliveries'[d].status # "none"
    BY <1>n, <2>1, <2>3 DEF Numbered
  <2>4. UNCHANGED <<courierVars, callHistory>> /\ hooks' = hooks
    BY <1>4 DEF QueueEvent, Free
  <2>5. queued <= queued'
    BY <1>q, <2>1
  <2>6. \A d \in DeliveryIds : d <= queued =>
          /\ deliveries'[d].hook = deliveries[d].hook
          /\ deliveries'[d].status \in {deliveries[d].status, "none"}
          /\ deliveries'[d].status = "none" => \/ deliveries[d].status = "none"
                                               \/ hooks'[deliveries[d].hook] = "deleted"
    BY <2>2
  <2> QED  BY <1>f, <2>3, <2>4, <2>5, <2>6
<1>5. CASE SetAccess \/ BanOwner
  <2>1. \A j \in Hooks : hooks[j] = "deleted" => hooks'[j] = "deleted"
    BY <1>5 DEF SetAccess, BanOwner, WebhooksTypeOK
  <2> QED  BY <1>5, <1>f, <1>n, <1>q, <2>1 DEF SetAccess, BanOwner, Free, Numbered
<1>6. ASSUME NEW c \in Couriers, SelectRound(c) PROVE HookInv'
  BY <1>6, SelectRoundInv
<1>7. ASSUME NEW c \in Couriers, NEW d \in DeliveryIds, NEW result \in {"sent", "failed"},
             CallHook(c, d, result)
      PROVE  HookInv'
  <2>1. PICK k : k = HookOf(d)
    OBVIOUS
  <2> QED  BY <1>7, <2>1, NoteInv DEF CallHook, HookOf
<1>8. ASSUME NEW c \in Couriers, NEW d \in DeliveryIds, RefuseCall(c, d) PROVE HookInv'
  <2>1. PICK k : k = HookOf(d)
    OBVIOUS
  <2> QED  BY <1>8, <2>1, NoteInv DEF RefuseCall, callHistory
<1>9. ASSUME NEW c \in Couriers, TakeLock(c) PROVE HookInv'
  <2>1. /\ cpos' = [cpos EXCEPT ![c] = "call"] /\ cpos[c] = "record"
        /\ UNCHANGED <<hooks, deliveries, queued, round, noted, calls, astray, redone>>
    BY <1>9 DEF TakeLock, callHistory
  <2>2. \A b \in Couriers : Has(b)' = Has(b) /\ Noted(b)' = Noted(b) /\ (cpos'[b] = "idle" => cpos[b] = "idle")
    BY <2>1 DEF Has, Noted, WebhooksTypeOK
  <2>3. \A b \in Couriers : Tidy(b)'
    BY <2>1, <2>2 DEF HookInv, Tidy
  <2>4. Numbered' /\ OneCourier' /\ HooksKept' /\ Prior' /\ Past' /\ CalledInOrder'
    BY <2>1, <2>2 DEF HookInv, Numbered, OneCourier, HooksKept, Prior, Past, CalledInOrder, HookOf, Pending, Nobody
  <2> QED  BY <2>3, <2>4 DEF HookInv
<1>10. ASSUME NEW c \in Couriers, CommitRound(c) PROVE HookInv'
  <2>1. \A d \in DeliveryIds :
          /\ WrittenBy(c, d).hook = deliveries[d].hook
          /\ deliveries[d].status = "none" => WrittenBy(c, d) = deliveries[d]
          /\ d \notin Noted(c) => WrittenBy(c, d) = deliveries[d]
          /\ d \in Noted(c) => WrittenBy(c, d).status \in {"none", "sent", "failed"}
          /\ WrittenBy(c, d).status = "none" => deliveries[d].status = "none"
    <3> SUFFICES ASSUME NEW d \in DeliveryIds
                 PROVE  /\ WrittenBy(c, d).hook = deliveries[d].hook
                        /\ deliveries[d].status = "none" => WrittenBy(c, d) = deliveries[d]
                        /\ d \notin Noted(c) => WrittenBy(c, d) = deliveries[d]
                        /\ d \in Noted(c) => WrittenBy(c, d).status \in {"none", "sent", "failed"}
                        /\ WrittenBy(c, d).status = "none" => deliveries[d].status = "none"
      OBVIOUS
    <3>1. deliveries[d] \in Delivery /\ noted[c] \subseteq Outcome
      BY DEF WebhooksTypeOK
    <3>2. d \in Noted(c) <=> \E o \in noted[c] : o.id = d
      BY DEF Noted
    <3>3. CASE d \in Noted(c) /\ deliveries[d].status # "none"
      <4>1. PICK o : o = (CHOOSE x \in noted[c] : x.id = d)
        OBVIOUS
      <4>2. o \in Outcome
        BY <3>1, <3>2, <3>3, <4>1
      <4>3. WrittenBy(c, d) = [deliveries[d] EXCEPT !.status = o.result]
        BY <3>2, <3>3, <4>1 DEF WrittenBy
      <4> QED  BY <3>1, <3>3, <4>2, <4>3 DEF Delivery, Outcome
    <3>4. CASE ~(d \in Noted(c) /\ deliveries[d].status # "none")
      BY <3>2, <3>4 DEF WrittenBy
    <3> QED  BY <3>3, <3>4
  <2>2. /\ deliveries' = [d \in DeliveryIds |-> WrittenBy(c, d)] /\ EndRound(c)
        /\ UNCHANGED <<hooks, queued, calls, astray, redone>>
    BY <1>10 DEF CommitRound, callHistory
  <2>3. \A d \in DeliveryIds : deliveries'[d] = WrittenBy(c, d)
    BY <2>2
  <2>4. \A b \in Couriers : Has(b)' \subseteq Has(b)
    BY <2>2 DEF EndRound, Has, WebhooksTypeOK
  <2>5. Numbered'
    BY <1>n, <2>1, <2>2, <2>3, <2>4, NumberedFewer
  <2>6. \A d \in DeliveryIds :
          /\ HookOf(d)' = HookOf(d) /\ (Pending(d)' => Pending(d))
          /\ d \notin Noted(c) => Pending(d)' = Pending(d)
          /\ d \in Noted(c) => d \in redone' \/ ~Pending(d)'
    BY <2>1, <2>3 DEF HookOf, Pending
  <2> QED  BY <2>2, <2>5, <2>6, EndRoundInv
<1>11. ASSUME NEW c \in Couriers, SpillRound(c) PROVE HookInv'
  <2>1. /\ EndRound(c) /\ redone' = redone \cup Noted(c)
        /\ UNCHANGED <<hooks, deliveries, queued, calls, astray>>
    BY <1>11 DEF SpillRound, Noted
  <2>2. \A b \in Couriers : Has(b)' \subseteq Has(b)
    BY <2>1 DEF EndRound, Has, WebhooksTypeOK
  <2>3. Numbered'
    BY <1>n, <2>1, <2>2, NumberedFewer
  <2> QED  BY <2>1, <2>3, EndRoundInv DEF HookOf, Pending
<1>12. CASE UNCHANGED hookVars
  BY <1>12, <1>f, <1>n, <1>q DEF hookVars, courierVars, callHistory, Numbered
<1> QED
  BY <1>1, <1>2, <1>3, <1>4, <1>5, <1>6, <1>7, <1>8, <1>9, <1>10, <1>11, <1>12
  DEF WebhooksNext, CourierStep

\* No call of an endpoint goes out twice or after a later one, however members
\* and passes interleave, other than the noted overlaps and lost commits.
THEOREM CalledInOrderCorrect == WebhooksSpec => []CalledInOrder
<1>1. WebhooksInit => HookInv
  <2> SUFFICES ASSUME WebhooksInit PROVE HookInv
    OBVIOUS
  <2>1. \A c \in Couriers : Has(c) = {} /\ Noted(c) = {} /\ round[c] = {} /\ noted[c] = {}
    BY DEF WebhooksInit, Has, Noted
  <2>2. \A d \in DeliveryIds : deliveries[d] = NoDelivery /\ HookOf(d) \notin Hooks
    BY WebhooksAssumption DEF WebhooksInit, HookOf, NoDelivery
  <2>3. \A k \in Hooks : calls[k] = {}
    BY DEF WebhooksInit
  <2>4. Numbered
    BY <2>1, <2>2, <2>3 DEF Numbered, NoDelivery
  <2>5. OneCourier /\ HooksKept /\ Prior /\ Past /\ CalledInOrder
    BY <2>1, <2>3 DEF WebhooksInit, OneCourier, HooksKept, Prior, Past, CalledInOrder
  <2>6. \A c \in Couriers : Tidy(c)
    BY <2>1 DEF Tidy
  <2> QED  BY <2>4, <2>5, <2>6 DEF HookInv
<1>2. HookInv => CalledInOrder
  BY DEF HookInv
<1> QED  BY <1>1, <1>2, HookInvStep, WebhooksTypeCorrect, PTL DEF WebhooksSpec
=============================================================================
