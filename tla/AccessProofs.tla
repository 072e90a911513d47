---------------------------- MODULE AccessProofs ----------------------------
(***************************************************************************)
(* Proofs about RateLimits and Backups, for any limit and number of calls, *)
(* and any number of administrators, rows, archives and stops; and that    *)
(* whatever is proved of a component alone holds where all of them run.    *)
(***************************************************************************)
EXTENDS MCAccess, SignInProofs, MembershipProofs, FiniteSetTheorems, TLAPS

-----------------------------------------------------------------------------
(* Rate limits.                                                            *)

\* A call that waits has not waited longer than it may, and its time has come.
Waiting ==
    \A c \in Callers : cpc[c] # "idle" =>
        asked[c] \in Nat /\ asked[c] <= clock /\ clock <= asked[c] + Patience
\* An admitted call whose row is gone is too old for any call still to count.
Forgotten ==
    /\ \A e \in passed : e \in rows \/ e.at < clock - Window - Patience
    /\ \A e \in spared : e \in memory \/ e.at <= clock - Window
Few(events) == \A t \in Nat : Cardinality(Within(events, t)) <= Limit
RateInv ==
    /\ RateTypeOK /\ Waiting /\ Forgotten
    /\ rows \subseteq passed /\ memory \subseteq spared
    /\ IsFiniteSet(passed) /\ IsFiniteSet(spared)
    /\ Few(passed) /\ (~slow => Few(spared))

-----------------------------------------------------------------------------
\* An event is added to few, when fewer than the limit are counted after the
\* start of its window: every window still holds few.
LEMMA OneMore ==
    ASSUME NEW events \in SUBSET Event, IsFiniteSet(events), Few(events),
           NEW e \in Event, Cardinality(Since(events, e.at)) < Limit
    PROVE  IsFiniteSet(events \cup {e}) /\ Few(events \cup {e})
<1> DEFINE all == events \cup {e}
<1>1. IsFiniteSet(all)
  BY FS_AddElement
<1>2. ASSUME NEW x \in Nat PROVE Cardinality(Within(all, x)) <= Limit
  <2>0. e.at \in Nat
    BY DEF Event
  <2>1. CASE e.at > x
    <3>1. Within(all, x) = Within(events, x)
      BY <2>0, <2>1 DEF Within, Since
    <3> QED  BY <3>1 DEF Few
  <2>2. CASE e.at <= x
    <3>1. Since(events, e.at) \subseteq events
      BY DEF Since
    <3>2. IsFiniteSet(Since(events, e.at)) /\ Cardinality(Since(events, e.at)) \in Nat
      BY <3>1, FS_Subset, FS_CardinalityType
    <3>3. /\ IsFiniteSet(Since(events, e.at) \cup {e})
          /\ Cardinality(Since(events, e.at) \cup {e}) <= Cardinality(Since(events, e.at)) + 1
      <4>1. /\ IsFiniteSet(Since(events, e.at) \cup {e})
            /\ Cardinality(Since(events, e.at) \cup {e})
               = IF e \in Since(events, e.at) THEN Cardinality(Since(events, e.at))
                 ELSE Cardinality(Since(events, e.at)) + 1
        BY <3>2, FS_AddElement
      <4> QED  BY <3>2, <4>1
    <3>4. Within(all, x) \subseteq Since(events, e.at) \cup {e}
      <4>1. ASSUME NEW y \in events, y.at > x - Window PROVE y.at > e.at - Window
        BY <2>0, <2>2, <4>1, RateAssumption DEF Event
      <4> QED  BY <4>1 DEF Within, Since
    <3>5. /\ Cardinality(Within(all, x)) <= Cardinality(Since(events, e.at) \cup {e})
          /\ Cardinality(Within(all, x)) \in Nat
          /\ Cardinality(Since(events, e.at) \cup {e}) \in Nat
      BY <3>3, <3>4, FS_Subset, FS_CardinalityType
    <3> QED  BY <3>2, <3>3, <3>5, RateAssumption
  <2> QED  BY <2>0, <2>1, <2>2
<1> QED  BY <1>1, <1>2 DEF Few

\* What is counted among the rows that are kept is all that was admitted.
LEMMA AllCounted ==
    ASSUME NEW events \in SUBSET Event, NEW left \in SUBSET Event, NEW t \in Nat,
           \A e \in events : e \in left \/ e.at <= t - Window,
           IsFiniteSet(left)
    PROVE  /\ IsFiniteSet(Since(left, t))
           /\ Cardinality(Since(events, t)) <= Cardinality(Since(left, t))
           /\ Cardinality(Since(events, t)) \in Nat /\ Cardinality(Since(left, t)) \in Nat
<1>1. Since(events, t) \subseteq Since(left, t)
  <2>1. ASSUME NEW e \in events, e.at > t - Window PROVE e \in left
    BY <2>1, RateAssumption DEF Event
  <2> QED  BY <2>1 DEF Since
<1>2. IsFiniteSet(Since(left, t))
  BY FS_Subset DEF Since
<1> QED  BY <1>1, <1>2, FS_Subset, FS_CardinalityType

-----------------------------------------------------------------------------
LEMMA AnsweredWaits ==
    ASSUME RateInv, NEW c \in Callers, Answered(c), UNCHANGED clock
    PROVE  /\ Waiting' /\ calls' \in Nat
           /\ cpc' \in [Callers -> {"idle", "table", "memory"}]
           /\ asked' \in [Callers -> Nat \cup {Never}]
BY DEF RateInv, RateTypeOK, Waiting, Answered

\* A call decided on the rows of the table.
LEMMA TableStep ==
    ASSUME RateInv, NEW c \in Callers, DecideInTable(c)
    PROVE  RateInv'
<1> DEFINE t    == asked[c]
           mine == [id |-> calls, at |-> t]
           kept == {e \in rows : e.at >= t - Retained}
<1>1. /\ t \in Nat /\ t <= clock /\ clock <= t + Patience /\ clock \in Nat /\ mine \in Event
      /\ mine.at = t
  BY DEF RateInv, RateTypeOK, Waiting, DecideInTable, Event
<1>2. /\ rows \subseteq passed /\ passed \subseteq Event /\ IsFiniteSet(passed) /\ Few(passed)
      /\ kept \subseteq rows
  BY DEF RateInv, RateTypeOK
<1>3. ASSUME NEW e \in passed
      PROVE  /\ e \in kept \/ e.at < clock - Window - Patience
             /\ e \in kept \/ e.at <= t - Window
  <2>1. e.at \in Nat /\ (e \in rows \/ e.at < clock - Window - Patience)
    BY <1>2 DEF Event, RateInv, Forgotten
  <2>2. CASE e \notin rows
    BY <1>1, <2>1, <2>2, RateAssumption
  <2>3. CASE e \in rows /\ e.at < t - Retained
    <3>1. e.at < clock - Window - Patience
      BY <1>1, <2>1, <2>3, RateAssumption
    <3>2. e.at <= t - Window
      BY <1>1, <2>1, <2>3, RateAssumption
    <3> QED  BY <3>1, <3>2
  <2>4. CASE e \in rows /\ e.at >= t - Retained
    BY <2>4
  <2> QED  BY <1>1, <2>1, <2>2, <2>3, <2>4, RateAssumption
<1>4. /\ UNCHANGED <<clock, memory, spared, slow>> /\ Answered(c)
      /\ \/ /\ Cardinality(Since(kept, t)) >= Limit
            /\ rows' = kept /\ passed' = passed
         \/ /\ ~(Cardinality(Since(kept, t)) >= Limit)
            /\ rows' = kept \cup {mine} /\ passed' = passed \cup {mine}
  BY DEF DecideInTable
<1>5. /\ Cardinality(Since(passed, t)) <= Cardinality(Since(kept, t))
      /\ Cardinality(Since(passed, t)) \in Nat /\ Cardinality(Since(kept, t)) \in Nat
  <2>1. IsFiniteSet(kept) /\ kept \in SUBSET Event
    BY <1>2, FS_Subset
  <2> HIDE DEF kept, t
  <2> QED  BY <1>1, <1>2, <1>3, <2>1, AllCounted
<1> HIDE DEF kept, mine, t
<1>6. IsFiniteSet(passed') /\ Few(passed)' /\ passed' \subseteq Event
  <2>1. CASE passed' = passed
    BY <1>2, <2>1 DEF Few, Within, Since
  <2>2. CASE passed' = passed \cup {mine} /\ ~(Cardinality(Since(kept, t)) >= Limit)
    <3>1. Cardinality(Since(passed, mine.at)) < Limit
      BY <1>1, <1>5, <2>2, RateAssumption
    <3>2. IsFiniteSet(passed \cup {mine}) /\ Few(passed \cup {mine})
      BY <1>1, <1>2, <3>1, OneMore
    <3> QED  BY <1>1, <1>2, <2>2, <3>2 DEF Few, Within, Since
  <2> QED  BY <1>4, <2>1, <2>2
<1>7. rows' \subseteq passed' /\ rows' \subseteq Event
      /\ \A e \in passed' : e \in rows' \/ e.at < clock' - Window - Patience
  BY <1>2, <1>3, <1>4, <1>6
<1>8. UNCHANGED clock
  BY <1>4
<1> QED  BY <1>4, <1>6, <1>7, <1>8, AnsweredWaits
         DEF RateInv, RateTypeOK, Forgotten, Few, Within, Since

\* A call decided in memory.
LEMMA MemoryStep ==
    ASSUME RateInv, NEW c \in Callers, DecideInMemory(c)
    PROVE  RateInv'
<1> DEFINE t    == asked[c]
           mine == [id |-> calls, at |-> t]
           kept == Since(memory, t)
<1>1. /\ t \in Nat /\ t <= clock /\ clock \in Nat /\ mine \in Event /\ mine.at = t
  BY DEF RateInv, RateTypeOK, Waiting, DecideInMemory, Event
<1>2. /\ memory \subseteq spared /\ spared \subseteq Event /\ IsFiniteSet(spared)
      /\ (~slow => Few(spared)) /\ kept \subseteq memory /\ slow \in BOOLEAN
  BY DEF RateInv, RateTypeOK, Since
<1>3. \A e \in spared : e \in kept \/ e.at <= clock - Window
  <2>1. ASSUME NEW e \in spared PROVE e \in kept \/ e.at <= clock - Window
    <3>1. e.at \in Nat /\ (e \in memory \/ e.at <= clock - Window)
      BY <1>2 DEF Event, RateInv, Forgotten
    <3>2. CASE e \in memory /\ e.at <= t - Window
      BY <1>1, <3>1, <3>2, RateAssumption
    <3>3. CASE e \in memory /\ e.at > t - Window
      BY <3>3 DEF Since
    <3> QED  BY <1>1, <3>1, <3>2, <3>3, RateAssumption
  <2> QED  BY <2>1
<1>4. /\ UNCHANGED <<clock, rows, passed>> /\ Answered(c) /\ slow' = (slow \/ t < clock)
      /\ \/ /\ Cardinality(kept) >= Limit
            /\ memory' = kept /\ spared' = spared
         \/ /\ ~(Cardinality(kept) >= Limit)
            /\ memory' = kept \cup {mine} /\ spared' = spared \cup {mine}
  BY DEF DecideInMemory
<1>5. IsFiniteSet(memory) /\ memory \in SUBSET Event
  BY <1>2, FS_Subset
<1>6. IsFiniteSet(spared') /\ spared' \subseteq Event
  <2>1. IsFiniteSet(spared \cup {mine})
    BY <1>2, FS_AddElement
  <2> QED  BY <1>1, <1>2, <1>4, <2>1
<1>7. ASSUME ~slow' PROVE Few(spared')
  <2>1. ~slow /\ t = clock /\ Few(spared)
    <3>1. ~slow /\ ~(t < clock)
      BY <1>4, <1>7
    <3> QED  BY <1>1, <1>2, <3>1
  <2>2. CASE spared' = spared
    BY <2>1, <2>2
  <2>3. CASE spared' = spared \cup {mine} /\ ~(Cardinality(kept) >= Limit)
    <3>1. \A e \in spared : e \in memory \/ e.at <= t - Window
      BY <1>3, <1>2, <2>1
    <3>2. /\ Cardinality(Since(spared, t)) <= Cardinality(Since(memory, t))
          /\ Cardinality(Since(spared, t)) \in Nat /\ Cardinality(Since(memory, t)) \in Nat
      <4> HIDE DEF t
      <4> QED  BY <1>1, <1>2, <1>5, <3>1, AllCounted
    <3>3. Cardinality(Since(spared, mine.at)) < Limit
      BY <1>1, <2>3, <3>2, RateAssumption
    <3>4. Few(spared \cup {mine})
      <4> HIDE DEF mine
      <4> QED  BY <1>1, <1>2, <2>1, <3>3, OneMore
    <3> QED  BY <2>3, <3>4
  <2> QED  BY <1>4, <2>2, <2>3
<1> HIDE DEF kept, mine, t
<1>8. memory' \subseteq spared' /\ memory' \subseteq Event /\ slow' \in BOOLEAN
      /\ \A e \in spared' : e \in memory' \/ e.at <= clock' - Window
  BY <1>2, <1>3, <1>4, <1>6
<1>9. UNCHANGED clock
  BY <1>4
<1> QED  BY <1>4, <1>6, <1>7, <1>8, <1>9, AnsweredWaits
         DEF RateInv, RateTypeOK, Forgotten, Few, Within, Since

LEMMA RateInductive ==
    ASSUME RateInv, [RateNext]_rateVars
    PROVE  RateInv'
<1> USE DEF Few, Within, Since
<1>1. CASE Tick
  <2>1. Waiting'
    BY <1>1, RateAssumption DEF RateInv, RateTypeOK, Waiting, Tick
  <2>2. Forgotten'
    <3>1. clock \in Nat /\ clock' = clock + 1 /\ passed \subseteq Event /\ spared \subseteq Event
      BY <1>1 DEF RateInv, RateTypeOK, Tick
    <3>2. \A e \in passed : e \in rows \/ e.at < clock' - Window - Patience
      BY <3>1, RateAssumption DEF RateInv, Forgotten, Event
    <3>3. \A e \in spared : e \in memory \/ e.at <= clock' - Window
      BY <3>1, RateAssumption DEF RateInv, Forgotten, Event
    <3> QED  BY <1>1, <3>2, <3>3 DEF Forgotten, Tick
  <2> QED  BY <1>1, <2>1, <2>2 DEF RateInv, RateTypeOK, Tick
<1>2. CASE LimiterRestarts
  <2>1. IsFiniteSet({})
    BY FS_EmptySet
  <2>2. \A t \in Nat : Within({}, t) = {} /\ Cardinality({}) = 0
    BY FS_EmptySet
  <2>3. Few({})
    BY <2>2, RateAssumption DEF Few
  <2>4. RateTypeOK' /\ Waiting' /\ Forgotten'
    BY <1>2 DEF RateInv, RateTypeOK, Waiting, Forgotten, LimiterRestarts
  <2> QED  BY <1>2, <2>1, <2>3, <2>4 DEF RateInv, LimiterRestarts
<1>3. ASSUME NEW c \in Callers, Call(c) \/ TableFails(c) PROVE RateInv'
  <2>1. Waiting'
    BY <1>3, RateAssumption DEF RateInv, RateTypeOK, Waiting, Call, TableFails
  <2> QED  BY <1>3, <2>1 DEF RateInv, RateTypeOK, Forgotten, Call, TableFails
<1>4. CASE UNCHANGED rateVars
  BY <1>4 DEF rateVars, RateInv, RateTypeOK, Waiting, Forgotten
<1> QED  BY <1>1, <1>2, <1>3, <1>4, TableStep, MemoryStep DEF RateNext

LEMMA RateInvariant == RateSpec => []RateInv
<1>1. RateInit => RateInv
  <2> SUFFICES ASSUME RateInit PROVE RateInv
    OBVIOUS
  <2>1. IsFiniteSet({}) /\ Cardinality({}) = 0
    BY FS_EmptySet
  <2>2. \A t \in Nat : Within({}, t) = {}
    BY DEF Within, Since
  <2>3. Few({})
    BY <2>1, <2>2, RateAssumption DEF Few
  <2>4. RateTypeOK /\ Waiting /\ Forgotten
    BY DEF RateInit, RateTypeOK, Waiting, Forgotten
  <2> QED  BY <2>1, <2>3, <2>4 DEF RateInit, RateInv
<1> QED  BY <1>1, RateInductive, PTL DEF RateSpec

\* The rows, the list in memory and the calls in progress stay of their type.
THEOREM RateTypeCorrect == RateSpec => []RateTypeOK
<1>1. RateInv => RateTypeOK
  BY DEF RateInv
<1> QED  BY <1>1, RateInvariant, PTL

\* No window holds more admissions than the limit: by the table, and, between
\* two starts and without calls decided on an old time, in memory.
THEOREM WindowRespectedCorrect == RateSpec => []WindowRespected
<1>1. RateInv => WindowRespected
  <2> SUFFICES ASSUME RateInv, NEW e \in passed \cup spared
               PROVE  /\ Cardinality(Within(passed, e.at)) <= Limit
                      /\ ~slow => Cardinality(Within(spared, e.at)) <= Limit
    BY DEF WindowRespected
  <2>1. e.at \in Nat
    BY DEF RateInv, RateTypeOK, Event
  <2> QED  BY <2>1 DEF RateInv, Few
<1> QED  BY <1>1, RateInvariant, PTL

-----------------------------------------------------------------------------
(* Backups: the invariant.                                                 *)

Writing(k) == kpc[k] = "zip"
Pruning(k) == kpc[k] = "prune"
\* An archive not begun has no kind; only automatic archives are ever removed;
\* no time lies ahead of the clock of files.
FilesInv ==
    \A f \in Archives :
        /\ files[f].state = "none" => files[f].kind = "none"
        /\ files[f].state = "gone" => files[f].kind = "auto"
        /\ files[f].at <= mtimes
\* A keeper writes a file of its own, of the kind of its order, that is not
\* whole; it removes automatic archives; it replaces the database to restore.
KeeperInv(k) ==
    /\ Writing(k) =>
         /\ order[k].file \in Archives /\ files[order[k].file].state \in {"open", "gone"}
         /\ files[order[k].file].kind = KindOf(order[k].op)
    /\ Pruning(k) => \A f \in order[k].victims : files[f].kind = "auto"
    /\ kpc[k] = "replace" => order[k].op = "restore"
OwnFile ==
    \A k, l \in Keepers : k # l /\ Writing(k) /\ Writing(l) => order[k].file # order[l].file
\* The shape of the disk and of the orders.
ShapeInv == FilesInv /\ OwnFile /\ \A k \in Keepers : KeeperInv(k)

\* Retention has never removed what is being written, and is not about to.
WritersUndisturbed ==
    \A k \in Keepers : Writing(k) =>
        /\ files[order[k].file].state = "open"
        /\ \A l \in Keepers : Pruning(l) => order[k].file \notin order[l].victims
\* The newest archive that can be read is on nobody's list of removals.
NewestIsSafe ==
    Readable # {} =>
        \E f \in Readable :
            /\ \A g \in Readable : files[g].at <= files[f].at
            /\ \A l \in Keepers : Pruning(l) => f \notin order[l].victims
\* An automatic run that wrote its archive, and may report success soon.
Wrote(k) == order[k].op = "auto" /\ kpc[k] \in {"list", "prune"}
SomeReadable == proven \/ (\E k \in Keepers : Wrote(k)) => Readable # {}
RetentionInv == ~muddled => WritersUndisturbed /\ NewestIsSafe /\ SomeReadable

\* A row that is in a safety copy that can be read.
Saved(n) ==
    \E f \in Archives : files[f].kind = "safety" /\ files[f].state = "whole" /\ n \in files[f].holds
\* What a restore is about to replace is in its safety copy, or came after it.
CopiedFirst(k) ==
    order[k].op = "restore" =>
        /\ kpc[k] = "zip" => \A n \in 1..lastRow :
              n \in amid \/ Saved(n) \/ n \in files[order[k].file].holds
        /\ kpc[k] = "replace" => \A n \in 1..lastRow : n \in amid \/ Saved(n)
RestoreInv == RestoreLosesNothing /\ \A k \in Keepers : CopiedFirst(k)

-----------------------------------------------------------------------------
(* Typing.                                                                 *)

\* The new order of a keeper.
LEMMA StartsType ==
    ASSUME BackupsTypeOK, NEW k \in Keepers, NEW op \in {"auto", "manual"}, Starts(k, op)
    PROVE  order' \in [Keepers -> Order]
BY DEF Starts, BackupsTypeOK, NoOrder, Order

\* The order of a keeper that is idle.
LEMMA NoOrderType == NoOrder \in Order
BY BackupsAssumption DEF NoOrder, Order

\* The database, the disk and the orders keep their types.
LEMMA BackupsTypeStep == BackupsTypeOK /\ [BackupsNext]_backupVars => BackupsTypeOK'
<1> SUFFICES ASSUME BackupsTypeOK, [BackupsNext]_backupVars PROVE BackupsTypeOK'
  OBVIOUS
<1>1. CASE CommitRow
  <2>1. lastRow + 1 \in Rows /\ lastRow' \in 0..MaxRows
    BY <1>1, BackupsAssumption DEF CommitRow, BackupsTypeOK, Rows
  <2> QED  BY <1>1, <2>1 DEF CommitRow, BackupsTypeOK
<1>2. CASE IntervalPasses
  BY <1>2 DEF IntervalPasses, BackupsTypeOK
<1>3. ASSUME NEW k \in Keepers, KeeperNext(k) PROVE BackupsTypeOK'
  <2>1. ASSUME NEW force \in BOOLEAN, StartAuto(k, force) PROVE BackupsTypeOK'
    BY <2>1, StartsType DEF StartAuto, idleHistory, BackupsTypeOK
  <2>2. CASE StartManual(k)
    BY <2>2, StartsType DEF StartManual, idleHistory, BackupsTypeOK
  <2>3. ASSUME NEW f \in Archives, StartRestore(k, f) PROVE BackupsTypeOK'
    <3>1. order' \in [Keepers -> Order]
      <4>1. files[f].holds \subseteq Rows
        BY DEF BackupsTypeOK, Archive
      <4>2. [NoOrder EXCEPT !.op = "restore", !.upload = files[f].holds] \in Order
        BY <4>1, NoOrderType DEF Order
      <4> QED  BY <2>3, <4>2 DEF StartRestore, BackupsTypeOK
    <3> QED  BY <2>3, <3>1 DEF StartRestore, idleHistory, BackupsTypeOK
  <2>4. ASSUME NEW f \in Archives, CopyDatabase(k, f) PROVE BackupsTypeOK'
    <3>1. [kind |-> KindOf(order[k].op), state |-> "open", holds |-> stored, at |-> mtimes + 1]
             \in Archive
      BY DEF BackupsTypeOK, Archive, KindOf
    <3>2. order[k] \in Order
      BY DEF BackupsTypeOK
    <3>3. order' \in [Keepers -> Order]
      BY <2>4, <3>2 DEF CopyDatabase, BackupsTypeOK, Order
    <3> QED  BY <2>4, <3>1, <3>3 DEF CopyDatabase, idleHistory, BackupsTypeOK
  <2>5. ASSUME NEW f \in Archives, Remove(k, f) PROVE BackupsTypeOK'
    <3>1. order[k] \in Order /\ files[f] \in Archive
      BY DEF BackupsTypeOK
    <3>2. PICK less : less = [order EXCEPT ![k].victims = @ \ {f}]
      OBVIOUS
    <3>3. order' \in [Keepers -> Order]
      <4>1. less \in [Keepers -> Order]
        BY <3>1, <3>2 DEF BackupsTypeOK, Order
      <4>2. order' = [less EXCEPT ![k].kept = {}]
        BY <2>5, <3>2 DEF Remove
      <4> QED  BY <4>1, <4>2 DEF Order
    <3>4. files' \in [Archives -> Archive]
      BY <2>5, <3>1 DEF Remove, BackupsTypeOK, Archive
    <3> QED  BY <2>5, <3>3, <3>4 DEF Remove, idleHistory, BackupsTypeOK
  <2>6. ASSUME NEW n \in 1..MaxRetained, SaveSettings(k, n) PROVE BackupsTypeOK'
    <3>1. [NoOrder EXCEPT !.op = "settings", !.retained = n] \in Order
      BY NoOrderType DEF Order
    <3> QED  BY <2>6, <3>1 DEF SaveSettings, idleHistory, BackupsTypeOK
  <2>7. CASE FinishArchive(k)
    <3>1. PICK f : f = order[k].file
      OBVIOUS
    <3>2. files' \in [Archives -> Archive]
      <4>1. CASE files' = files
        BY <4>1 DEF BackupsTypeOK
      <4>2. ASSUME files' = [files EXCEPT ![f].state = "whole", ![f].at = mtimes + 1]
            PROVE  files' \in [Archives -> Archive]
        <5>1. PICK closed : closed = [files EXCEPT ![f].state = "whole"]
          OBVIOUS
        <5>2. closed \in [Archives -> Archive]
          BY <5>1 DEF BackupsTypeOK, Archive
        <5>3. files' = [closed EXCEPT ![f].at = mtimes + 1]
          BY <4>2, <5>1
        <5>4. mtimes + 1 \in Nat
          BY DEF BackupsTypeOK
        <5>5. ASSUME NEW g \in Archives PROVE files'[g] \in Archive
          <6>1. closed[g] \in Archive
            BY <5>2
          <6>2. files'[g] = IF g = f THEN [closed[g] EXCEPT !.at = mtimes + 1] ELSE closed[g]
            BY <5>2, <5>3
          <6> QED  BY <5>4, <6>1, <6>2 DEF Archive
        <5> QED  BY <5>2, <5>3, <5>5
      <4> QED  BY <2>7, <3>1, <4>1, <4>2 DEF FinishArchive
    <3>3. order' \in [Keepers -> Order]
      BY <2>7, NoOrderType DEF FinishArchive, BackupsTypeOK
    <3>4. kpc' \in [Keepers -> {"idle", "copy", "zip", "replace", "list", "prune"}]
      BY <2>7 DEF FinishArchive, BackupsTypeOK
    <3> QED  BY <2>7, <3>2, <3>3, <3>4 DEF FinishArchive, idleHistory, BackupsTypeOK
  <2>8. CASE ReplaceDatabase(k)
    <3>1. order[k] \in Order
      BY DEF BackupsTypeOK
    <3> QED  BY <2>8, <3>1, NoOrderType DEF ReplaceDatabase, idleHistory, BackupsTypeOK, Order
  <2>9. CASE ListArchives(k)
    <3> DEFINE kept == Newest(order[k].retained)
               others == Listed \ kept
    <3>1. kept \subseteq Archives /\ others \subseteq Archives /\ order[k] \in Order
      BY DEF Newest, Listed, BackupsTypeOK
    <3>2. order' = [order EXCEPT ![k].kept = kept, ![k].victims = others] /\ muddled' \in BOOLEAN
      BY <2>9 DEF ListArchives, BackupsTypeOK
    <3> HIDE DEF kept, others
    <3>3. order' \in [Keepers -> Order]
      BY <3>1, <3>2 DEF BackupsTypeOK, Order
    <3> QED  BY <2>9, <3>2, <3>3 DEF ListArchives, BackupsTypeOK
  <2>10. CASE EndPrune(k)
    BY <2>10, NoOrderType DEF EndPrune, BackupsTypeOK
  <2>11. CASE PruneFails(k)
    BY <2>11, NoOrderType DEF PruneFails, idleHistory, BackupsTypeOK
  <2>12. CASE Stop(k)
    <3>1. stops' \in 0..MaxStops
      BY <2>12, BackupsAssumption DEF Stop, BackupsTypeOK
    <3> QED  BY <2>12, <3>1, NoOrderType DEF Stop, BackupsTypeOK
  <2> QED
    BY <1>3, <2>1, <2>2, <2>3, <2>4, <2>5, <2>6, <2>7, <2>8, <2>9, <2>10, <2>11, <2>12 DEF KeeperNext
<1>4. CASE UNCHANGED backupVars
  BY <1>4 DEF backupVars, BackupsTypeOK
<1> QED  BY <1>1, <1>2, <1>3, <1>4 DEF BackupsNext

\* Whatever administrators and the job do, and wherever they stop, the
\* database, the archives and the orders keep their types.
THEOREM BackupsTypeCorrect == BackupsSpec => []BackupsTypeOK
<1>1. BackupsInit => BackupsTypeOK
  <2>1. [kind |-> "none", state |-> "none", holds |-> {}, at |-> 0] \in Archive
    BY DEF Archive
  <2>2. MaxRetained \in 1..MaxRetained /\ 0 \in 0..MaxRows /\ 0 \in 0..MaxStops
    BY BackupsAssumption
  <2> SUFFICES ASSUME BackupsInit PROVE BackupsTypeOK
    OBVIOUS
  <2>3. files \in [Archives -> Archive] /\ order \in [Keepers -> Order]
    BY <2>1, NoOrderType DEF BackupsInit
  <2> QED  BY <2>2, <2>3 DEF BackupsInit, BackupsTypeOK
<1> QED  BY <1>1, BackupsTypeStep, PTL DEF BackupsSpec

-----------------------------------------------------------------------------
(* What a step changes.                                                    *)

\* A step of one keeper leaves the others where they are.
Elsewhere(k) == \A l \in Keepers \ {k} : kpc'[l] = kpc[l] /\ order'[l] = order[l]
\* A keeper begins, gives up, or is through: no file is touched.
Begins(k) ==
    \/ \E force \in BOOLEAN : StartAuto(k, force)
    \/ StartManual(k) \/ (\E f \in Archives : StartRestore(k, f))
    \/ \E n \in 1..MaxRetained : SaveSettings(k, n)
Leaves(k) == ReplaceDatabase(k) \/ EndPrune(k) \/ PruneFails(k) \/ Stop(k)
\* The beginning and the end of an order.
LEMMA QuietEffect ==
    ASSUME BackupsTypeOK, NEW k \in Keepers, Begins(k) \/ Leaves(k)
    PROVE  /\ files' = files /\ mtimes' = mtimes /\ muddled' = muddled
           /\ lastRow' = lastRow /\ amid' = amid /\ Elsewhere(k)
           /\ kpc'[k] \in {"idle", "copy", "list"} /\ (kpc'[k] = "list" => order'[k].op = "settings")
           /\ proven' => proven \/ Wrote(k)
           /\ stored' = stored \/ kpc[k] = "replace"
<1>1. CASE Begins(k)
  <2>1. /\ files' = files /\ mtimes' = mtimes /\ lastRow' = lastRow /\ amid' = amid
        /\ stored' = stored /\ muddled' = muddled /\ proven' = proven
    BY <1>1 DEF Begins, StartAuto, StartManual, StartRestore, SaveSettings, idleHistory
  <2>2. /\ Elsewhere(k) /\ kpc'[k] \in {"idle", "copy", "list"}
        /\ kpc'[k] = "list" => order'[k].op = "settings"
    BY <1>1 DEF Begins, StartAuto, StartManual, StartRestore, SaveSettings, Starts, Elsewhere,
       BackupsTypeOK, NoOrder
  <2> QED  BY <2>1, <2>2
<1>2. CASE ReplaceDatabase(k) \/ PruneFails(k) \/ Stop(k)
  <2>1. /\ files' = files /\ mtimes' = mtimes /\ lastRow' = lastRow /\ amid' = amid
        /\ muddled' = muddled /\ proven' = proven
    BY <1>2 DEF ReplaceDatabase, PruneFails, Stop, idleHistory
  <2>2. /\ Elsewhere(k) /\ kpc'[k] = "idle" /\ (stored' = stored \/ kpc[k] = "replace")
    BY <1>2 DEF ReplaceDatabase, PruneFails, Stop, Elsewhere, BackupsTypeOK
  <2> QED  BY <2>1, <2>2
<1>3. CASE EndPrune(k)
  BY <1>3 DEF EndPrune, Elsewhere, BackupsTypeOK, Wrote
<1> QED  BY <1>1, <1>2, <1>3 DEF Leaves

\* An archive is begun.
LEMMA CopyEffect ==
    ASSUME BackupsTypeOK, NEW k \in Keepers, NEW f \in Archives, CopyDatabase(k, f)
    PROVE  /\ kpc[k] = "copy" /\ kpc'[k] = "zip" /\ Elsewhere(k)
           /\ order'[k].op = order[k].op /\ order'[k].file = f
           /\ files[f].state = "none" /\ files'[f].state = "open" /\ files'[f].holds = stored
           /\ files'[f].kind = KindOf(order[k].op) /\ files'[f].at = mtimes + 1
           /\ \A g \in Archives \ {f} : files'[g] = files[g]
           /\ mtimes' = mtimes + 1 /\ mtimes \in Nat
           /\ UNCHANGED <<stored, lastRow, proven, muddled, amid>>
<1>1. order[k] \in Order
  BY DEF BackupsTypeOK
<1> QED  BY <1>1 DEF CopyDatabase, Elsewhere, idleHistory, BackupsTypeOK, Order

\* An archive is closed, if it was not removed.
LEMMA FinishEffect ==
    ASSUME BackupsTypeOK, NEW k \in Keepers, FinishArchive(k), KeeperInv(k)
    PROVE  /\ kpc[k] = "zip" /\ kpc'[k] \in {"idle", "list", "replace"} /\ Elsewhere(k)
           /\ order[k].file \in Archives
           /\ kpc'[k] = "list" => order[k].op = "auto"
           /\ kpc'[k] = "replace" => order[k].op = "restore" /\ order'[k].op = "restore"
           /\ files[order[k].file].state = "open" =>
                /\ files'[order[k].file].state = "whole" /\ files'[order[k].file].at = mtimes + 1
                /\ files'[order[k].file].kind = files[order[k].file].kind
                /\ files'[order[k].file].holds = files[order[k].file].holds
           /\ files[order[k].file].state # "open" => files' = files
           /\ \A g \in Archives : g # order[k].file => files'[g] = files[g]
           /\ mtimes' = mtimes + 1 /\ mtimes \in Nat
           /\ UNCHANGED <<stored, lastRow, proven, muddled, amid>>
<1>1. PICK f : f = order[k].file
  OBVIOUS
<1>2. f \in Archives /\ kpc[k] = "zip" /\ files[f] \in Archive
  BY <1>1 DEF FinishArchive, KeeperInv, Writing, BackupsTypeOK
<1>3. files' = IF files[f].state = "open"
               THEN [files EXCEPT ![f].state = "whole", ![f].at = mtimes + 1] ELSE files
  BY <1>1 DEF FinishArchive
<1>4. /\ files[f].state = "open" =>
           /\ files'[f].state = "whole" /\ files'[f].at = mtimes + 1
           /\ files'[f].kind = files[f].kind /\ files'[f].holds = files[f].holds
      /\ \A g \in Archives : g # f => files'[g] = files[g]
  BY <1>2, <1>3 DEF BackupsTypeOK, Archive
<1>5. /\ kpc'[k] \in {"idle", "list", "replace"} /\ Elsewhere(k)
      /\ kpc'[k] = "list" => order[k].op = "auto"
      /\ kpc'[k] = "replace" => order[k].op = "restore" /\ order'[k].op = "restore"
      /\ mtimes' = mtimes + 1 /\ mtimes \in Nat
      /\ UNCHANGED <<stored, lastRow, proven, muddled, amid>>
  BY DEF FinishArchive, Elsewhere, idleHistory, BackupsTypeOK
<1> QED  BY <1>1, <1>2, <1>3, <1>4, <1>5

\* A file is removed.
LEMMA RemoveEffect ==
    ASSUME BackupsTypeOK, NEW k \in Keepers, NEW f \in Archives, Remove(k, f)
    PROVE  /\ kpc' = kpc /\ kpc[k] = "prune" /\ f \in order[k].victims /\ Elsewhere(k)
           /\ order'[k].op = order[k].op /\ order'[k].victims = order[k].victims \ {f}
           /\ files'[f].state = "gone" /\ files'[f].kind = files[f].kind /\ files'[f].at = files[f].at
           /\ \A g \in Archives \ {f} : files'[g] = files[g]
           /\ mtimes' = mtimes /\ UNCHANGED <<stored, lastRow, proven, muddled, amid>>
<1>1. order[k] \in Order /\ files[f] \in Archive
  BY DEF BackupsTypeOK
<1>2. PICK less : less = [order EXCEPT ![k].victims = @ \ {f}]
  OBVIOUS
<1>3. order' = [less EXCEPT ![k].kept = {}]
  BY <1>2 DEF Remove
<1>4. /\ order'[k].op = order[k].op /\ order'[k].victims = order[k].victims \ {f}
      /\ \A l \in Keepers \ {k} : order'[l] = order[l]
  BY <1>1, <1>2, <1>3 DEF BackupsTypeOK, Order
<1> QED  BY <1>1, <1>4 DEF Remove, Elsewhere, idleHistory, BackupsTypeOK, Archive

\* The archives are listed.
LEMMA ListEffect ==
    ASSUME BackupsTypeOK, NEW k \in Keepers, ListArchives(k)
    PROVE  /\ kpc[k] = "list" /\ kpc'[k] = "prune" /\ Elsewhere(k)
           /\ order'[k].op = order[k].op
           /\ order'[k].victims = Listed \ Newest(order[k].retained)
           /\ order[k].retained \in Nat
           /\ ~muddled' => /\ ~muddled /\ ~Crowded(order[k].retained)
                           /\ \A f \in order'[k].victims : ~BeingWritten(f)
           /\ UNCHANGED <<files, mtimes, stored, lastRow, proven, amid>>
<1> DEFINE kept == Newest(order[k].retained)
           others == Listed \ kept
<1>1. /\ kpc[k] = "list" /\ kpc' = [kpc EXCEPT ![k] = "prune"]
      /\ order' = [order EXCEPT ![k].kept = kept, ![k].victims = others]
      /\ muddled' = (muddled \/ Crowded(order[k].retained) \/ \E f \in others : BeingWritten(f))
      /\ UNCHANGED <<files, mtimes, stored, lastRow, proven, amid>>
  BY DEF ListArchives
<1>2. order[k] \in Order
  BY DEF BackupsTypeOK
<1> HIDE DEF kept, others
<1>3. PICK more : more = [order EXCEPT ![k].kept = kept]
  OBVIOUS
<1>4. order' = [more EXCEPT ![k].victims = others]
  BY <1>1, <1>3
<1>5. /\ order'[k].op = order[k].op /\ order'[k].victims = others
      /\ \A l \in Keepers \ {k} : order'[l] = order[l]
  BY <1>2, <1>3, <1>4 DEF BackupsTypeOK, Order
<1>6. order[k].retained \in Nat
  BY <1>2, BackupsAssumption DEF Order
<1>7. ~muddled' => /\ ~muddled /\ ~Crowded(order[k].retained)
                   /\ \A f \in order'[k].victims : ~BeingWritten(f)
  BY <1>1, <1>5
<1> QED  BY <1>1, <1>5, <1>6, <1>7 DEF Elsewhere, BackupsTypeOK, kept, others

-----------------------------------------------------------------------------
(* The shape of the disk and of the orders is kept.                        *)

\* A keeper that neither takes up a file nor is about to replace the database.
LEMMA ShapeFrame ==
    ASSUME ShapeInv, NEW k \in Keepers, files' = files, mtimes' = mtimes, Elsewhere(k),
           kpc'[k] \notin {"zip", "replace"},
           kpc'[k] = "prune" => \A f \in order'[k].victims : files[f].kind = "auto"
    PROVE  ShapeInv'
<1>1. FilesInv'
  BY DEF ShapeInv, FilesInv
<1>2. OwnFile'
  BY DEF ShapeInv, OwnFile, Writing, Elsewhere
<1>3. ASSUME NEW l \in Keepers PROVE KeeperInv(l)'
  <2>1. CASE l = k
    BY <2>1 DEF KeeperInv, Writing, Pruning
  <2>2. CASE l # k
    BY <2>2 DEF ShapeInv, KeeperInv, Writing, Pruning, Elsewhere
  <2> QED  BY <2>1, <2>2
<1> QED  BY <1>1, <1>2, <1>3 DEF ShapeInv

\* Every step keeps the shape.
LEMMA ShapeStep ==
    ASSUME BackupsTypeOK, ShapeInv, [BackupsNext]_backupVars PROVE ShapeInv'
<1>v. \A k \in Keepers : Pruning(k) => order[k].victims \subseteq Archives
  BY DEF BackupsTypeOK, Order
<1>1. CASE CommitRow \/ IntervalPasses \/ UNCHANGED backupVars
  <2>1. files' = files /\ mtimes' = mtimes /\ kpc' = kpc /\ order' = order
    BY <1>1 DEF CommitRow, IntervalPasses, backupVars
  <2> QED  BY <2>1 DEF ShapeInv, FilesInv, OwnFile, KeeperInv, Writing, Pruning
<1>2. ASSUME NEW k \in Keepers, Begins(k) \/ Leaves(k) PROVE ShapeInv'
  <2>1. /\ files' = files /\ mtimes' = mtimes /\ Elsewhere(k) /\ kpc'[k] \in {"idle", "copy", "list"}
    BY <1>2, QuietEffect
  <2> QED  BY <2>1, ShapeFrame
<1>3. ASSUME NEW k \in Keepers, ListArchives(k) PROVE ShapeInv'
  <2>1. /\ kpc'[k] = "prune" /\ Elsewhere(k) /\ order'[k].victims \subseteq Listed
        /\ files' = files /\ mtimes' = mtimes
    BY <1>3, ListEffect
  <2> QED  BY <2>1, ShapeFrame DEF Listed
<1>4. ASSUME NEW k \in Keepers, NEW f \in Archives, CopyDatabase(k, f) PROVE ShapeInv'
  <2>1. /\ kpc[k] = "copy" /\ kpc'[k] = "zip" /\ Elsewhere(k)
        /\ order'[k].op = order[k].op /\ order'[k].file = f
        /\ files[f].state = "none" /\ files'[f].state = "open"
        /\ files'[f].kind = KindOf(order[k].op) /\ files'[f].at = mtimes + 1
        /\ \A g \in Archives \ {f} : files'[g] = files[g]
        /\ mtimes' = mtimes + 1 /\ mtimes \in Nat
    BY <1>4, CopyEffect
  <2>2. FilesInv'
    <3> SUFFICES ASSUME NEW g \in Archives
                 PROVE  /\ files'[g].state = "none" => files'[g].kind = "none"
                        /\ files'[g].state = "gone" => files'[g].kind = "auto"
                        /\ files'[g].at <= mtimes'
      BY DEF FilesInv
    <3>1. files[g].at \in Nat
      BY DEF BackupsTypeOK, Archive
    <3> QED  BY <2>1, <3>1 DEF ShapeInv, FilesInv
  <2>3. \A l \in Keepers : Writing(l) => order[l].file # f
    BY <2>1 DEF ShapeInv, KeeperInv
  <2>4. OwnFile'
    BY <2>1, <2>3 DEF ShapeInv, OwnFile, Writing, Elsewhere
  <2>5. ASSUME NEW l \in Keepers PROVE KeeperInv(l)'
    <3>1. CASE l = k
      BY <2>1, <3>1 DEF KeeperInv, Writing, Pruning
    <3>2. CASE l # k
      <4>1. kpc'[l] = kpc[l] /\ order'[l] = order[l]
        BY <2>1, <3>2 DEF Elsewhere
      <4>2. Writing(l) => files'[order[l].file] = files[order[l].file]
        BY <2>1, <2>3 DEF ShapeInv, KeeperInv
      <4>3. Pruning(l) => \A g \in order[l].victims : files'[g].kind = "auto"
        BY <1>v, <2>1 DEF ShapeInv, KeeperInv, FilesInv
      <4> QED  BY <4>1, <4>2, <4>3 DEF ShapeInv, KeeperInv, Writing, Pruning
    <3> QED  BY <3>1, <3>2
  <2> QED  BY <2>2, <2>4, <2>5 DEF ShapeInv
<1>5. ASSUME NEW k \in Keepers, FinishArchive(k) PROVE ShapeInv'
  <2>0. PICK f : f = order[k].file
    OBVIOUS
  <2>1. /\ kpc[k] = "zip" /\ kpc'[k] \in {"idle", "list", "replace"} /\ Elsewhere(k)
        /\ kpc'[k] = "replace" => order'[k].op = "restore"
        /\ f \in Archives /\ files'[f].kind = files[f].kind
        /\ files[f].state = "open" => files'[f].state = "whole" /\ files'[f].at = mtimes + 1
        /\ files[f].state # "open" => files' = files
        /\ \A g \in Archives : g # f => files'[g] = files[g]
        /\ mtimes' = mtimes + 1 /\ mtimes \in Nat
    BY <1>5, <2>0, FinishEffect DEF ShapeInv
  <2>2. FilesInv'
    <3> SUFFICES ASSUME NEW g \in Archives
                 PROVE  /\ files'[g].state = "none" => files'[g].kind = "none"
                        /\ files'[g].state = "gone" => files'[g].kind = "auto"
                        /\ files'[g].at <= mtimes'
      BY DEF FilesInv
    <3>1. files[g].at \in Nat
      BY DEF BackupsTypeOK, Archive
    <3> QED  BY <2>1, <3>1 DEF ShapeInv, FilesInv
  <2>3. \A l \in Keepers \ {k} : Writing(l) => order[l].file # f /\ order[l].file \in Archives
    BY <2>0, <2>1 DEF ShapeInv, OwnFile, KeeperInv, Writing
  <2>4. OwnFile'
    BY <2>1 DEF ShapeInv, OwnFile, Writing, Elsewhere
  <2>5. ASSUME NEW l \in Keepers PROVE KeeperInv(l)'
    <3>1. CASE l = k
      BY <2>1, <3>1 DEF KeeperInv, Writing, Pruning
    <3>2. CASE l # k
      <4>1. kpc'[l] = kpc[l] /\ order'[l] = order[l]
        BY <2>1, <3>2 DEF Elsewhere
      <4>2. Writing(l) => files'[order[l].file] = files[order[l].file]
        BY <2>1, <2>3, <3>2
      <4>3. Pruning(l) => \A g \in order[l].victims : files'[g].kind = "auto"
        BY <1>v, <2>1 DEF ShapeInv, KeeperInv
      <4> QED  BY <4>1, <4>2, <4>3 DEF ShapeInv, KeeperInv, Writing, Pruning
    <3> QED  BY <3>1, <3>2
  <2> QED  BY <2>2, <2>4, <2>5 DEF ShapeInv
<1>6. ASSUME NEW k \in Keepers, NEW f \in Archives, Remove(k, f) PROVE ShapeInv'
  <2>1. /\ kpc' = kpc /\ kpc[k] = "prune" /\ f \in order[k].victims /\ Elsewhere(k)
        /\ order'[k].victims = order[k].victims \ {f}
        /\ files'[f].state = "gone" /\ files'[f].kind = files[f].kind /\ files'[f].at = files[f].at
        /\ \A g \in Archives \ {f} : files'[g] = files[g]
        /\ mtimes' = mtimes
    BY <1>6, RemoveEffect
  <2>2. files[f].kind = "auto"
    BY <2>1 DEF ShapeInv, KeeperInv, Pruning
  <2>3. FilesInv'
    BY <2>1, <2>2 DEF ShapeInv, FilesInv
  <2>4. OwnFile'
    BY <2>1 DEF ShapeInv, OwnFile, Writing, Elsewhere
  <2>5. ASSUME NEW l \in Keepers PROVE KeeperInv(l)'
    <3>1. CASE l = k
      BY <1>v, <2>1, <2>2, <3>1 DEF ShapeInv, KeeperInv, Writing, Pruning
    <3>2. CASE l # k
      BY <1>v, <2>1, <2>2, <3>2 DEF ShapeInv, KeeperInv, Writing, Pruning, Elsewhere
    <3> QED  BY <3>1, <3>2
  <2> QED  BY <2>3, <2>4, <2>5 DEF ShapeInv
<1> QED
  BY <1>1, <1>2, <1>3, <1>4, <1>5, <1>6 DEF BackupsNext, KeeperNext, Begins, Leaves

-----------------------------------------------------------------------------
(* Retention leaves an archive that can be read.                           *)

\* A keeper that lists nothing, and has not written an automatic archive.
LEMMA RetentionFrame ==
    ASSUME RetentionInv, NEW k \in Keepers, files' = files, muddled' = muddled, Elsewhere(k),
           kpc'[k] \notin {"zip", "prune"}, Wrote(k)' => Wrote(k), proven' => proven \/ Wrote(k)
    PROVE  RetentionInv'
<1> SUFFICES ASSUME ~muddled PROVE (WritersUndisturbed /\ NewestIsSafe /\ SomeReadable)'
  BY DEF RetentionInv
<1>1. WritersUndisturbed /\ NewestIsSafe /\ SomeReadable
  BY DEF RetentionInv
<1>2. Readable' = Readable
  BY DEF Readable, Listed, Present
<1>3. WritersUndisturbed'
  BY <1>1 DEF WritersUndisturbed, Writing, Pruning, Elsewhere
<1>4. NewestIsSafe'
  BY <1>1, <1>2 DEF NewestIsSafe, Pruning, Elsewhere
<1>5. \A l \in Keepers : Wrote(l)' => Wrote(l)
  BY DEF Wrote, Elsewhere
<1>6. SomeReadable'
  BY <1>1, <1>2, <1>5 DEF SomeReadable
<1> QED  BY <1>3, <1>4, <1>6

\* What is listed is finite.
LEMMA ListedFinite ==
    ASSUME NEW S \in SUBSET Listed PROVE IsFiniteSet(S) /\ Cardinality(S) \in Nat
<1>1. IsFiniteSet(Archives)
  BY BackupsAssumption, FS_Interval DEF Archives
<1>2. S \subseteq Archives
  BY DEF Listed
<1> QED  BY <1>1, <1>2, FS_Subset, FS_CardinalityType

\* The newest that can be read is kept, unless others take all places.
LEMMA NewestKept ==
    ASSUME NEW n \in Nat, ~Crowded(n), NEW f \in Readable,
           \A g \in Readable : files[g].at <= files[f].at, BackupsTypeOK
    PROVE  f \in Newest(n)
<1> DEFINE above == {g \in Listed : files[g].at > files[f].at}
           taking == {g \in Listed : \A h \in Readable : files[g].at > files[h].at}
<1>1. \A g \in Listed : files[g].at \in Nat
  BY DEF Listed, BackupsTypeOK, Archive
<1>2. above = taking
  <2>1. taking \subseteq above
    OBVIOUS
  <2>2. ASSUME NEW g \in above, NEW h \in Readable PROVE files[g].at > files[h].at
    <3>1. files[h].at \in Nat /\ files[f].at \in Nat /\ files[g].at \in Nat
      BY <1>1 DEF Readable
    <3>2. files[h].at <= files[f].at /\ files[g].at > files[f].at
      OBVIOUS
    <3> QED  BY <3>1, <3>2
  <2> QED  BY <2>1, <2>2
<1>3. ~(n <= Cardinality(taking)) /\ Cardinality(taking) \in Nat
  BY ListedFinite DEF Crowded
<1> HIDE DEF above, taking
<1>4. Cardinality(above) < n
  BY <1>2, <1>3
<1>5. f \in Listed
  BY DEF Readable
<1> QED  BY <1>4, <1>5 DEF Newest, above

\* Every step keeps what retention must leave.
LEMMA RetentionStep ==
    ASSUME BackupsTypeOK, ShapeInv, RetentionInv, [BackupsNext]_backupVars PROVE RetentionInv'
<1>v. \A k \in Keepers : Pruning(k) => order[k].victims \subseteq Archives
  BY DEF BackupsTypeOK, Order
<1>1. CASE CommitRow \/ IntervalPasses \/ UNCHANGED backupVars
  <2>1. files' = files /\ muddled' = muddled /\ kpc' = kpc /\ order' = order /\ proven' = proven
    BY <1>1 DEF CommitRow, IntervalPasses, backupVars
  <2> QED  BY <2>1 DEF RetentionInv, WritersUndisturbed, NewestIsSafe, SomeReadable, Readable, Listed,
                       Present, Writing, Pruning, Wrote
<1>2. ASSUME NEW k \in Keepers, Begins(k) \/ Leaves(k) PROVE RetentionInv'
  <2>1. /\ files' = files /\ muddled' = muddled /\ Elsewhere(k) /\ kpc'[k] \in {"idle", "copy", "list"}
        /\ kpc'[k] = "list" => order'[k].op = "settings"
        /\ proven' => proven \/ Wrote(k)
    BY <1>2, QuietEffect
  <2>2. ~Wrote(k)'
    BY <2>1 DEF Wrote
  <2> QED  BY <2>1, <2>2, RetentionFrame
<1>3. ASSUME NEW k \in Keepers, ListArchives(k) PROVE RetentionInv'
  <2> SUFFICES ASSUME ~muddled' PROVE (WritersUndisturbed /\ NewestIsSafe /\ SomeReadable)'
    BY DEF RetentionInv
  <2>1. /\ kpc[k] = "list" /\ kpc'[k] = "prune" /\ Elsewhere(k)
        /\ order'[k].op = order[k].op
        /\ order'[k].victims = Listed \ Newest(order[k].retained)
        /\ order[k].retained \in Nat /\ ~muddled /\ ~Crowded(order[k].retained)
        /\ \A f \in order'[k].victims : ~BeingWritten(f)
        /\ files' = files /\ proven' = proven
    BY <1>3, ListEffect
  <2>2. WritersUndisturbed /\ NewestIsSafe /\ SomeReadable
    BY <2>1 DEF RetentionInv
  <2>3. Readable' = Readable
    BY <2>1 DEF Readable, Listed, Present
  <2>4. \A l \in Keepers : Writing(l)' => Writing(l) /\ order'[l] = order[l]
    BY <2>1 DEF Writing, Elsewhere
  <2>5. WritersUndisturbed'
    <3> SUFFICES ASSUME NEW w \in Keepers, Writing(w)'
                 PROVE  /\ files'[order'[w].file].state = "open"
                        /\ \A l \in Keepers : Pruning(l)' => order'[w].file \notin order'[l].victims
      BY DEF WritersUndisturbed
    <3>1. Writing(w) /\ order'[w] = order[w] /\ files[order[w].file].state = "open"
      BY <2>2, <2>4 DEF WritersUndisturbed
    <3>2. ASSUME NEW l \in Keepers, Pruning(l)' PROVE order[w].file \notin order'[l].victims
      <4>1. CASE l = k
        BY <2>1, <3>1, <4>1 DEF BeingWritten, Writing
      <4>2. CASE l # k
        BY <2>1, <2>2, <3>1, <3>2, <4>2 DEF Elsewhere, WritersUndisturbed, Pruning
      <4> QED  BY <4>1, <4>2
    <3> QED  BY <2>1, <3>1, <3>2
  <2>6. NewestIsSafe'
    <3> SUFFICES ASSUME Readable # {}
                 PROVE  \E f \in Readable :
                          /\ \A g \in Readable : files[g].at <= files[f].at
                          /\ \A l \in Keepers : Pruning(l)' => f \notin order'[l].victims
      BY <2>1, <2>3 DEF NewestIsSafe
    <3>1. PICK f \in Readable : /\ \A g \in Readable : files[g].at <= files[f].at
                                /\ \A l \in Keepers : Pruning(l) => f \notin order[l].victims
      BY <2>2 DEF NewestIsSafe
    <3>2. f \in Newest(order[k].retained)
      BY <2>1, <3>1, NewestKept
    <3>3. \A l \in Keepers : Pruning(l)' => f \notin order'[l].victims
      BY <2>1, <3>1, <3>2 DEF Elsewhere, Pruning
    <3> QED  BY <3>1, <3>3
  <2>7. \A l \in Keepers : Wrote(l)' => Wrote(l)
    BY <2>1 DEF Wrote, Elsewhere
  <2>8. SomeReadable'
    BY <2>1, <2>2, <2>3, <2>7 DEF SomeReadable
  <2> QED  BY <2>5, <2>6, <2>8
<1>4. ASSUME NEW k \in Keepers, NEW f \in Archives, CopyDatabase(k, f) PROVE RetentionInv'
  <2>1. /\ kpc[k] = "copy" /\ kpc'[k] = "zip" /\ Elsewhere(k) /\ order'[k].file = f
        /\ files[f].state = "none" /\ files'[f].state = "open"
        /\ \A g \in Archives \ {f} : files'[g] = files[g]
        /\ proven' = proven /\ muddled' = muddled
    BY <1>4, CopyEffect
  <2> SUFFICES ASSUME ~muddled PROVE (WritersUndisturbed /\ NewestIsSafe /\ SomeReadable)'
    BY <2>1 DEF RetentionInv
  <2>2. WritersUndisturbed /\ NewestIsSafe /\ SomeReadable
    BY DEF RetentionInv
  <2>3. Readable' = Readable /\ \A g \in Readable : files'[g] = files[g]
    BY <2>1 DEF Readable, Listed, Present
  <2>4. \A l \in Keepers : Pruning(l)' => l # k /\ Pruning(l) /\ order'[l] = order[l]
    BY <2>1 DEF Pruning, Elsewhere
  <2>5. \A l \in Keepers : Pruning(l) => f \notin order[l].victims
    BY <2>1 DEF ShapeInv, KeeperInv, FilesInv
  <2>6. WritersUndisturbed'
    <3> SUFFICES ASSUME NEW w \in Keepers, Writing(w)'
                 PROVE  /\ files'[order'[w].file].state = "open"
                        /\ \A l \in Keepers : Pruning(l)' => order'[w].file \notin order'[l].victims
      BY DEF WritersUndisturbed
    <3>1. CASE w = k
      BY <2>1, <2>4, <2>5, <3>1
    <3>2. CASE w # k
      <4>1. Writing(w) /\ order'[w] = order[w]
        BY <2>1, <3>2 DEF Elsewhere, Writing
      <4>2. order[w].file \in Archives /\ files[order[w].file].state = "open"
        BY <2>2, <4>1 DEF WritersUndisturbed, ShapeInv, KeeperInv
      <4>3. \A l \in Keepers : Pruning(l) => order[w].file \notin order[l].victims
        BY <2>2, <4>1 DEF WritersUndisturbed
      <4> QED  BY <2>1, <2>4, <4>1, <4>2, <4>3
    <3> QED  BY <3>1, <3>2
  <2>7. NewestIsSafe'
    BY <2>2, <2>3, <2>4 DEF NewestIsSafe
  <2>8. \A l \in Keepers : Wrote(l)' => Wrote(l)
    BY <2>1 DEF Wrote, Elsewhere
  <2>9. SomeReadable'
    BY <2>1, <2>2, <2>3, <2>8 DEF SomeReadable
  <2> QED  BY <2>6, <2>7, <2>9
<1>5. ASSUME NEW k \in Keepers, FinishArchive(k) PROVE RetentionInv'
  <2>0. PICK f : f = order[k].file
    OBVIOUS
  <2>1. /\ kpc[k] = "zip" /\ kpc'[k] \in {"idle", "list", "replace"} /\ Elsewhere(k)
        /\ kpc'[k] = "list" => order[k].op = "auto"
        /\ f \in Archives
        /\ files[f].state = "open" => /\ files'[f].state = "whole" /\ files'[f].at = mtimes + 1
                                      /\ files'[f].kind = files[f].kind
        /\ \A g \in Archives : g # f => files'[g] = files[g]
        /\ mtimes \in Nat /\ proven' = proven /\ muddled' = muddled
    BY <1>5, <2>0, FinishEffect DEF ShapeInv
  <2> SUFFICES ASSUME ~muddled PROVE (WritersUndisturbed /\ NewestIsSafe /\ SomeReadable)'
    BY <2>1 DEF RetentionInv
  <2>2. WritersUndisturbed /\ NewestIsSafe /\ SomeReadable
    BY DEF RetentionInv
  <2>3. /\ Writing(k) /\ files[f].state = "open" /\ files[f].kind = KindOf(order[k].op)
        /\ \A l \in Keepers : Pruning(l) => f \notin order[l].victims
    BY <2>0, <2>1, <2>2 DEF WritersUndisturbed, ShapeInv, KeeperInv, Writing
  <2>4. \A l \in Keepers : Pruning(l)' => Pruning(l) /\ order'[l] = order[l]
    BY <2>1 DEF Pruning, Elsewhere
  <2>5. WritersUndisturbed'
    <3> SUFFICES ASSUME NEW w \in Keepers, Writing(w)'
                 PROVE  /\ files'[order'[w].file].state = "open"
                        /\ \A l \in Keepers : Pruning(l)' => order'[w].file \notin order'[l].victims
      BY DEF WritersUndisturbed
    <3>1. w # k /\ Writing(w) /\ order'[w] = order[w]
      BY <2>1 DEF Elsewhere, Writing
    <3>2. order[w].file \in Archives /\ order[w].file # f
      BY <2>0, <2>3, <3>1 DEF ShapeInv, OwnFile, KeeperInv
    <3> QED  BY <2>1, <2>2, <2>4, <3>1, <3>2 DEF WritersUndisturbed
  <2>6. CASE files[f].kind = "auto"
    <3>1. f \in Readable' /\ \A g \in Readable' : g # f => g \in Readable /\ files'[g] = files[g]
      BY <2>1, <2>3, <2>6 DEF Readable, Listed, Present
    <3>2. \A g \in Readable' : files'[g].at <= files'[f].at
      <4> SUFFICES ASSUME NEW g \in Readable', g # f PROVE files'[g].at <= files'[f].at
        BY <2>1, <2>3
      <4>1. g \in Archives /\ files'[g] = files[g] /\ files[g].at <= mtimes /\ files[g].at \in Nat
        BY <3>1 DEF ShapeInv, FilesInv, Readable, Listed, BackupsTypeOK, Archive
      <4> QED  BY <2>1, <2>3, <4>1
    <3>3. NewestIsSafe'
      BY <2>3, <2>4, <3>1, <3>2 DEF NewestIsSafe
    <3> QED  BY <2>5, <3>1, <3>3 DEF SomeReadable
  <2>7. CASE files[f].kind # "auto"
    <3>1. Readable' = Readable /\ \A g \in Readable : files'[g] = files[g]
      BY <2>1, <2>3, <2>7 DEF Readable, Listed, Present
    <3>2. NewestIsSafe'
      BY <2>2, <2>4, <3>1 DEF NewestIsSafe
    <3>3. \A l \in Keepers : Wrote(l)' => Wrote(l)
      BY <2>1, <2>3, <2>7 DEF Wrote, Elsewhere, KindOf
    <3>4. SomeReadable'
      BY <2>1, <2>2, <3>1, <3>3 DEF SomeReadable
    <3> QED  BY <2>5, <3>2, <3>4
  <2> QED  BY <2>6, <2>7
<1>6. ASSUME NEW k \in Keepers, NEW f \in Archives, Remove(k, f) PROVE RetentionInv'
  <2>1. /\ kpc' = kpc /\ kpc[k] = "prune" /\ f \in order[k].victims /\ Elsewhere(k)
        /\ order'[k].op = order[k].op /\ order'[k].victims = order[k].victims \ {f}
        /\ files'[f].state = "gone"
        /\ \A g \in Archives \ {f} : files'[g] = files[g]
        /\ proven' = proven /\ muddled' = muddled
    BY <1>6, RemoveEffect
  <2> SUFFICES ASSUME ~muddled PROVE (WritersUndisturbed /\ NewestIsSafe /\ SomeReadable)'
    BY <2>1 DEF RetentionInv
  <2>2. WritersUndisturbed /\ NewestIsSafe /\ SomeReadable
    BY DEF RetentionInv
  <2>3. \A l \in Keepers : Pruning(l)' => Pruning(l) /\ order'[l].victims \subseteq order[l].victims
    BY <2>1 DEF Pruning, Elsewhere
  <2>4. Readable' = Readable \ {f} /\ \A g \in Readable' : files'[g] = files[g]
    BY <2>1 DEF Readable, Listed, Present
  <2>5. WritersUndisturbed'
    <3> SUFFICES ASSUME NEW w \in Keepers, Writing(w)'
                 PROVE  /\ files'[order'[w].file].state = "open"
                        /\ \A l \in Keepers : Pruning(l)' => order'[w].file \notin order'[l].victims
      BY DEF WritersUndisturbed
    <3>1. w # k /\ Writing(w) /\ order'[w] = order[w]
      BY <2>1 DEF Elsewhere, Writing
    <3>2. order[w].file \in Archives /\ order[w].file # f
      BY <2>1, <2>2, <3>1 DEF WritersUndisturbed, ShapeInv, KeeperInv, Pruning
    <3> QED  BY <2>1, <2>2, <2>3, <3>1, <3>2 DEF WritersUndisturbed
  <2>6. Readable # {} => \E h \in Readable' :
            /\ \A g \in Readable' : files'[g].at <= files'[h].at
            /\ \A l \in Keepers : Pruning(l)' => h \notin order'[l].victims
    <3> SUFFICES ASSUME Readable # {}
                 PROVE  \E h \in Readable' :
                          /\ \A g \in Readable' : files'[g].at <= files'[h].at
                          /\ \A l \in Keepers : Pruning(l)' => h \notin order'[l].victims
      OBVIOUS
    <3>1. PICK h \in Readable : /\ \A g \in Readable : files[g].at <= files[h].at
                                /\ \A l \in Keepers : Pruning(l) => h \notin order[l].victims
      BY <2>2 DEF NewestIsSafe
    <3>2. h \in Readable'
      BY <2>1, <2>4, <3>1 DEF Pruning
    <3> QED  BY <2>3, <2>4, <3>1, <3>2
  <2>7. NewestIsSafe'
    BY <2>4, <2>6 DEF NewestIsSafe
  <2>8. \A l \in Keepers : Wrote(l)' => Wrote(l)
    BY <2>1 DEF Wrote, Elsewhere
  <2>9. SomeReadable'
    BY <2>1, <2>2, <2>6, <2>8 DEF SomeReadable
  <2> QED  BY <2>5, <2>7, <2>9
<1> QED
  BY <1>1, <1>2, <1>3, <1>4, <1>5, <1>6 DEF BackupsNext, KeeperNext, Begins, Leaves

\* After an automatic run has succeeded there is always an automatic archive
\* that can be read, however many keepers prune, fail and stop, unless
\* retention counted or removed an unfinished file.
THEOREM BackupRemainsCorrect == BackupsSpec => []BackupRemains
<1>1. BackupsInit => ShapeInv
  BY BackupsAssumption DEF BackupsInit, ShapeInv, FilesInv, OwnFile, KeeperInv, Writing, Pruning
<1>2. BackupsInit => RetentionInv
  <2> SUFFICES ASSUME BackupsInit PROVE WritersUndisturbed /\ NewestIsSafe /\ SomeReadable
    BY DEF RetentionInv
  <2>1. Readable = {}
    BY DEF BackupsInit, Readable, Listed, Present
  <2>2. ~proven /\ \A k \in Keepers : ~Wrote(k) /\ ~Writing(k)
    BY DEF BackupsInit, Wrote, Writing
  <2> QED  BY <2>1, <2>2 DEF WritersUndisturbed, NewestIsSafe, SomeReadable
<1>3. RetentionInv => BackupRemains
  BY DEF RetentionInv, SomeReadable, BackupRemains
<1> QED
  BY <1>1, <1>2, <1>3, BackupsTypeCorrect, ShapeStep, RetentionStep, PTL DEF BackupsSpec

-----------------------------------------------------------------------------
(* A restore loses nothing.                                                *)

\* Neither the rows nor the safety copies become fewer, and no keeper is
\* nearer to replacing the database than before.
LEMMA RestoreFrame ==
    ASSUME RestoreInv, UNCHANGED <<stored, lastRow, amid>>, NEW k \in Keepers, Elsewhere(k),
           \A f \in Archives : files[f].state # "none" /\ files[f].kind = "safety" =>
              /\ files'[f].kind = "safety" /\ files'[f].holds = files[f].holds
              /\ files[f].state = "whole" => files'[f].state = "whole",
           \A l \in Keepers \ {k} : kpc[l] = "zip" /\ order[l].op = "restore" =>
              /\ order[l].file \in Archives /\ files[order[l].file].state # "none"
              /\ files[order[l].file].kind = "safety",
           (\A n \in 1..lastRow : n \in stored \/ n \in amid \/ Saved(n)') => CopiedFirst(k)'
    PROVE  RestoreInv'
<1>1. \A n \in 1..lastRow : Saved(n) => Saved(n)'
  BY DEF Saved
<1>2. \A n \in 1..lastRow : n \in stored \/ n \in amid \/ Saved(n)'
  BY <1>1 DEF RestoreInv, RestoreLosesNothing, Saved
<1>3. RestoreLosesNothing'
  BY <1>2 DEF RestoreLosesNothing, Saved
<1>4. ASSUME NEW l \in Keepers \ {k} PROVE CopiedFirst(l)'
  <2>1. kpc'[l] = kpc[l] /\ order'[l] = order[l] /\ CopiedFirst(l)
    BY DEF Elsewhere, RestoreInv
  <2>2. kpc[l] = "zip" /\ order[l].op = "restore" =>
           files'[order[l].file].holds = files[order[l].file].holds
    OBVIOUS
  <2> QED  BY <1>1, <2>1, <2>2 DEF CopiedFirst
<1> QED  BY <1>2, <1>3, <1>4 DEF RestoreInv

\* Every step keeps what restores must not lose.
LEMMA RestoreStep ==
    ASSUME BackupsTypeOK, ShapeInv, RestoreInv, [BackupsNext]_backupVars PROVE RestoreInv'
\* A safety copy that is being written.
<1>z. \A k \in Keepers : kpc[k] = "zip" /\ order[k].op = "restore" =>
         /\ order[k].file \in Archives /\ files[order[k].file].state = "open"
         /\ files[order[k].file].kind = "safety"
  BY DEF ShapeInv, FilesInv, KeeperInv, Writing, KindOf
<1>1. CASE CommitRow
  <2>1. /\ lastRow' = lastRow + 1 /\ lastRow \in Nat /\ stored' = stored \cup {lastRow + 1}
        /\ (\E k \in Keepers : Replacing(k)) => lastRow + 1 \in amid'
        /\ amid \subseteq amid' /\ UNCHANGED <<files, kpc, order>>
    BY <1>1, BackupsAssumption DEF CommitRow, BackupsTypeOK
  <2>2. \A n \in 1..lastRow' : n \in 1..lastRow \/ n = lastRow + 1
    BY <2>1
  <2>3. \A n : Saved(n)' <=> Saved(n)
    BY <2>1 DEF Saved
  <2>4. RestoreLosesNothing'
    BY <2>1, <2>2 DEF RestoreInv, RestoreLosesNothing
  <2>5. ASSUME NEW k \in Keepers PROVE CopiedFirst(k)'
    <3>1. CASE Replacing(k)
      BY <2>1, <2>2, <2>3, <3>1 DEF RestoreInv, CopiedFirst
    <3>2. CASE ~Replacing(k)
      BY <2>1, <3>2 DEF CopiedFirst, Replacing
    <3> QED  BY <3>1, <3>2
  <2> QED  BY <2>4, <2>5 DEF RestoreInv
<1>2. CASE IntervalPasses \/ UNCHANGED backupVars
  <2>1. UNCHANGED <<files, kpc, order, stored, lastRow, amid>>
    BY <1>2 DEF IntervalPasses, backupVars
  <2> QED  BY <2>1 DEF RestoreInv, RestoreLosesNothing, CopiedFirst, Saved
<1>3. ASSUME NEW k \in Keepers, Begins(k) \/ Leaves(k), ~ReplaceDatabase(k) PROVE RestoreInv'
  <2>1. /\ files' = files /\ lastRow' = lastRow /\ amid' = amid /\ Elsewhere(k)
        /\ kpc'[k] \in {"idle", "copy", "list"}
    BY <1>3, QuietEffect
  <2>2. stored' = stored
    BY <1>3 DEF Begins, Leaves, StartAuto, StartManual, StartRestore, SaveSettings, EndPrune,
                PruneFails, Stop
  <2>3. CopiedFirst(k)'
    BY <2>1 DEF CopiedFirst
  <2> QED  BY <1>z, <2>1, <2>2, <2>3, RestoreFrame
<1>4. ASSUME NEW k \in Keepers, ReplaceDatabase(k) PROVE RestoreInv'
  <2>1. /\ files' = files /\ lastRow' = lastRow /\ amid' = amid /\ Elsewhere(k)
        /\ kpc'[k] \in {"idle", "copy", "list"}
    BY <1>4, QuietEffect DEF Leaves
  <2>2. kpc[k] = "replace" /\ order[k].op = "restore"
    BY <1>4 DEF ReplaceDatabase, ShapeInv, KeeperInv
  <2>3. \A n : Saved(n)' <=> Saved(n)
    BY <2>1 DEF Saved
  <2>4. RestoreLosesNothing'
    BY <2>1, <2>2 DEF RestoreInv, CopiedFirst, RestoreLosesNothing, Saved
  <2>5. ASSUME NEW l \in Keepers PROVE CopiedFirst(l)'
    BY <2>1, <2>3 DEF RestoreInv, CopiedFirst, Elsewhere
  <2> QED  BY <2>4, <2>5 DEF RestoreInv
<1>5. ASSUME NEW k \in Keepers, ListArchives(k) PROVE RestoreInv'
  <2>1. /\ kpc'[k] = "prune" /\ Elsewhere(k) /\ UNCHANGED <<files, stored, lastRow, amid>>
    BY <1>5, ListEffect
  <2>2. CopiedFirst(k)'
    BY <2>1 DEF CopiedFirst
  <2> QED  BY <1>z, <2>1, <2>2, RestoreFrame
<1>6. ASSUME NEW k \in Keepers, NEW f \in Archives, CopyDatabase(k, f) PROVE RestoreInv'
  <2>1. /\ kpc'[k] = "zip" /\ Elsewhere(k) /\ order'[k].file = f
        /\ files[f].state = "none" /\ files'[f].holds = stored
        /\ \A g \in Archives \ {f} : files'[g] = files[g]
        /\ UNCHANGED <<stored, lastRow, amid>>
    BY <1>6, CopyEffect
  <2>2. ASSUME \A n \in 1..lastRow : n \in stored \/ n \in amid \/ Saved(n)' PROVE CopiedFirst(k)'
    BY <2>1, <2>2 DEF CopiedFirst
  <2> QED  BY <1>z, <2>1, <2>2, RestoreFrame
<1>7. ASSUME NEW k \in Keepers, FinishArchive(k) PROVE RestoreInv'
  <2>0. PICK f : f = order[k].file
    OBVIOUS
  <2>1. /\ kpc[k] = "zip" /\ kpc'[k] \in {"idle", "list", "replace"} /\ Elsewhere(k)
        /\ kpc'[k] = "replace" => order[k].op = "restore"
        /\ f \in Archives
        /\ files[f].state = "open" =>
             /\ files'[f].state = "whole" /\ files'[f].kind = files[f].kind
             /\ files'[f].holds = files[f].holds
        /\ files[f].state # "open" => files' = files
        /\ \A g \in Archives : g # f => files'[g] = files[g]
        /\ UNCHANGED <<stored, lastRow, amid>>
    BY <1>7, <2>0, FinishEffect DEF ShapeInv
  <2>2. files[f].state # "whole"
    BY <2>0, <2>1 DEF ShapeInv, KeeperInv, Writing
  <2>3. ASSUME NEW n \in 1..lastRow, Saved(n) PROVE Saved(n)'
    BY <2>1, <2>2, <2>3 DEF Saved
  <2>4. ASSUME kpc'[k] = "replace", NEW n \in 1..lastRow PROVE n \in amid \/ Saved(n)'
    <3>1. files[f].state = "open" /\ files[f].kind = "safety"
      BY <1>z, <2>0, <2>1, <2>4
    <3>2. n \in amid \/ Saved(n) \/ n \in files[f].holds
      BY <2>0, <2>1, <2>4 DEF RestoreInv, CopiedFirst
    <3>3. n \in files[f].holds => Saved(n)'
      BY <2>1, <3>1 DEF Saved
    <3> QED  BY <2>3, <3>2, <3>3
  <2>5. CopiedFirst(k)'
    BY <2>1, <2>4 DEF CopiedFirst
  <2> QED  BY <1>z, <2>1, <2>2, <2>5, RestoreFrame
<1>8. ASSUME NEW k \in Keepers, NEW f \in Archives, Remove(k, f) PROVE RestoreInv'
  <2>1. /\ kpc' = kpc /\ kpc[k] = "prune" /\ f \in order[k].victims /\ Elsewhere(k)
        /\ \A g \in Archives \ {f} : files'[g] = files[g]
        /\ UNCHANGED <<stored, lastRow, amid>>
    BY <1>8, RemoveEffect
  <2>2. files[f].kind = "auto"
    BY <2>1 DEF ShapeInv, KeeperInv, Pruning
  <2>3. CopiedFirst(k)'
    BY <2>1 DEF CopiedFirst
  <2> QED  BY <1>z, <2>1, <2>2, <2>3, RestoreFrame
<1> QED
  BY <1>1, <1>2, <1>3, <1>4, <1>5, <1>6, <1>7, <1>8 DEF BackupsNext, KeeperNext, Begins, Leaves

\* Whatever was committed is in the database or in a safety copy that can be
\* read, whoever restores, prunes and stops; only rows committed between the
\* safety copy of a restore and its end may be lost.
THEOREM RestoreLosesNothingCorrect == BackupsSpec => []RestoreLosesNothing
<1>1. BackupsInit => ShapeInv
  BY BackupsAssumption DEF BackupsInit, ShapeInv, FilesInv, OwnFile, KeeperInv, Writing, Pruning
<1>2. BackupsInit => RestoreInv
  BY DEF BackupsInit, RestoreInv, RestoreLosesNothing, CopiedFirst
<1>3. RestoreInv => RestoreLosesNothing
  BY DEF RestoreInv
<1> QED
  BY <1>1, <1>2, <1>3, BackupsTypeCorrect, ShapeStep, RestoreStep, PTL DEF BackupsSpec

-----------------------------------------------------------------------------
(* The components together.                                                *)

\* What happens where all of them run is, for each of them, what happens when
\* it runs alone: a step of its own or no step.
THEOREM AccessComposes ==
    AccessSpec => SignInSpec /\ MembersSpec /\ RateSpec /\ BackupsSpec
<1>1. AccessInit => SignInInit /\ MembersInit /\ RateInit /\ BackupsInit
  BY DEF AccessInit
<1>2. [AccessNext]_<<part, signInVars, memberVars, rateVars, backupVars>> =>
          [SignInNext]_signInVars /\ [MembersNext]_memberVars /\ [RateNext]_rateVars
            /\ [BackupsNext]_backupVars
  BY DEF AccessNext
<1> QED  BY <1>1, <1>2, PTL DEF AccessSpec, SignInSpec, MembersSpec, RateSpec, BackupsSpec

\* The variables of all four keep the types the code gives them.
THEOREM AccessTypeCorrect == AccessSpec => []AccessTypeOK
<1>1. SignInTypeOK /\ MembersTypeOK /\ RateTypeOK /\ BackupsTypeOK => AccessTypeOK
  BY DEF AccessTypeOK
<1> QED  BY <1>1, AccessComposes, SignInTypeCorrect, MembersTypeCorrect, RateTypeCorrect,
            BackupsTypeCorrect, PTL
=============================================================================
