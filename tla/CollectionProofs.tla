-------------------------- MODULE CollectionProofs --------------------------
(***************************************************************************)
(* Proofs about what is done to a member's collection by imports and their *)
(* undo, for any number of requests, batches, cards and rows and for files *)
(* of any length; and by decks and the merging of duplicates, for any      *)
(* number of decks, entries, rows and requests.  At the end, the types of  *)
(* all that MCQueues puts side by side.                                    *)
(***************************************************************************)
EXTENDS MCQueues, QueuesProofs, SumTheorems, SequenceTheorems, TLAPS

-----------------------------------------------------------------------------
(* Collections, and what an undo makes of them.                            *)

Collections == [RowIds -> Row]
\* What undo_collection_import_item makes of a collection.
Undone(i, s) ==
    IF s[i.id] = NoRow \/ (i.action = "updated" /\ i.old = NoRow) THEN s
    ELSE [s EXCEPT ![i.id] = IF i.action = "inserted" THEN NoRow ELSE i.old]
\* The undo of what was done, the newest first, leads from s back to `from`.
Trail(from, done, s) ==
    \E h \in [0..Len(done) -> Collections] :
        /\ h[0] = from /\ h[Len(done)] = s
        /\ \A j \in 1..Len(done) : h[j - 1] = Undone(done[j], h[j])
\* The undo of a list, from its head, leads from s to `goal`.
WayBack(s, undo, goal) ==
    \E h \in [0..Len(undo) -> Collections] :
        /\ h[0] = s /\ h[Len(undo)] = goal
        /\ \A j \in 1..Len(undo) : h[j] = Undone(undo[j], h[j - 1])

\* Rows and items are what their names say.
LEMMA RowTypes == NoRow \in Row /\ \A i \in Item : i.id \in RowIds /\ i.old \in Row
BY ImportAssumption DEF NoRow, Row, Item

\* An undone item leaves a collection.
LEMMA UndoneType ==
    ASSUME NEW i \in Item, NEW s \in Collections PROVE Undone(i, s) \in Collections
BY RowTypes DEF Undone, Collections

\* Nothing was done yet.
LEMMA TrailStarts == ASSUME NEW s \in Collections PROVE Trail(s, <<>>, s)
<1> DEFINE h == [j \in 0..Len(<<>>) |-> s]
<1>1. Len(<<>>) = 0
  OBVIOUS
<1>2. h \in [0..Len(<<>>) -> Collections] /\ h[0] = s /\ h[Len(<<>>)] = s
  BY <1>1
<1>3. \A j \in 1..Len(<<>>) : h[j - 1] = Undone(<<>>[j], h[j])
  BY <1>1
<1> QED  BY <1>2, <1>3 DEF Trail

\* One more thing was done, and its undo leads back to where the trail ended.
LEMMA TrailGrows ==
    ASSUME NEW from, NEW done \in Seq(Item), NEW s \in Collections, Trail(from, done, s),
           NEW i \in Item, NEW t \in Collections, Undone(i, t) = s
    PROVE  Trail(from, done \o <<i>>, t)
<1> DEFINE n == Len(done)
           more == done \o <<i>>
<1>0. n \in Nat /\ Len(more) = n + 1 /\ more[n + 1] = i /\ \A j \in 1..n : more[j] = done[j]
  OBVIOUS
<1>1. PICK h \in [0..n -> Collections] :
          /\ h[0] = from /\ h[n] = s
          /\ \A j \in 1..n : h[j - 1] = Undone(done[j], h[j])
  BY DEF Trail
<1> HIDE DEF n, more
<1> DEFINE g == [j \in 0..(n + 1) |-> IF j = n + 1 THEN t ELSE h[j]]
<1>2. g \in [0..Len(more) -> Collections]
  BY <1>0
<1>3. g[0] = from /\ g[Len(more)] = t
  BY <1>0, <1>1
<1>4. ASSUME NEW j \in 1..Len(more) PROVE g[j - 1] = Undone(more[j], g[j])
  <2>1. CASE j = n + 1
    <3>1. g[j - 1] = s /\ g[j] = t
      BY <1>0, <1>1, <2>1
    <3> QED  BY <1>0, <2>1, <3>1
  <2>2. CASE j \in 1..n
    <3>1. g[j - 1] = h[j - 1] /\ g[j] = h[j] /\ more[j] = done[j]
      BY <1>0, <2>2
    <3> QED  BY <1>1, <2>2, <3>1
  <2> QED  BY <1>0, <2>1, <2>2
<1> HIDE DEF g
<1> QED  BY <1>2, <1>3, <1>4 DEF Trail, more

\* The reversed list is the way back.
LEMMA TrailTurned ==
    ASSUME NEW from, NEW done \in Seq(Item), NEW s, Trail(from, done, s)
    PROVE  WayBack(s, Reverse(done), from)
<1> DEFINE n == Len(done)
           back == Reverse(done)
<1>0. n \in Nat /\ Len(back) = n /\ \A j \in 1..n : back[j] = done[(n - j) + 1]
  BY DEF Reverse
<1>1. PICK h \in [0..n -> Collections] :
          /\ h[0] = from /\ h[n] = s
          /\ \A j \in 1..n : h[j - 1] = Undone(done[j], h[j])
  BY DEF Trail
<1> HIDE DEF n, back
<1> DEFINE g == [j \in 0..n |-> h[n - j]]
<1>2. g \in [0..Len(back) -> Collections] /\ g[0] = s /\ g[Len(back)] = from
  BY <1>0, <1>1
<1>3. ASSUME NEW j \in 1..Len(back) PROVE g[j] = Undone(back[j], g[j - 1])
  <2> DEFINE k == (n - j) + 1
  <2>1. k \in 1..n /\ g[j] = h[k - 1] /\ g[j - 1] = h[k] /\ back[j] = done[k]
    BY <1>0
  <2> HIDE DEF k
  <2> QED  BY <1>1, <2>1
<1> HIDE DEF g
<1> QED  BY <1>2, <1>3 DEF WayBack, back

\* One item on the way back is undone.
LEMMA WayShortens ==
    ASSUME NEW s \in Collections, NEW undo \in Seq(Item), undo # <<>>, NEW goal,
           WayBack(s, undo, goal)
    PROVE  WayBack(Undone(Head(undo), s), Tail(undo), goal)
<1> DEFINE n == Len(undo)
           rest == Tail(undo)
<1>0. /\ n \in Nat \ {0} /\ Len(rest) = n - 1 /\ Head(undo) = undo[1]
      /\ \A j \in 1..(n - 1) : rest[j] = undo[j + 1]
  BY HeadTailProperties, EmptySeq
<1>1. PICK h \in [0..n -> Collections] :
          /\ h[0] = s /\ h[n] = goal
          /\ \A j \in 1..n : h[j] = Undone(undo[j], h[j - 1])
  BY DEF WayBack
<1> HIDE DEF n, rest
<1> DEFINE g == [j \in 0..(n - 1) |-> h[j + 1]]
<1>2. g \in [0..Len(rest) -> Collections] /\ g[Len(rest)] = goal
  BY <1>0, <1>1
<1>3. g[0] = Undone(Head(undo), s)
  <2>1. g[0] = h[1] /\ 1 \in 1..n
    BY <1>0
  <2> QED  BY <1>0, <1>1, <2>1
<1>4. ASSUME NEW j \in 1..Len(rest) PROVE g[j] = Undone(rest[j], g[j - 1])
  <2>1. j + 1 \in 1..n /\ g[j] = h[j + 1] /\ g[j - 1] = h[(j + 1) - 1] /\ rest[j] = undo[j + 1]
    BY <1>0
  <2> QED  BY <1>1, <2>1
<1> HIDE DEF g
<1> QED  BY <1>2, <1>3, <1>4 DEF WayBack, rest

\* At the end of the way is its goal.
LEMMA WayEnds == ASSUME NEW s, NEW goal, WayBack(s, <<>>, goal) PROVE s = goal
BY DEF WayBack

\* The row an import merges into is a row of the card.
LEMMA MatchFinds ==
    ASSUME NEW card, NEW merge \in BOOLEAN
    PROVE  /\ Match(card, merge) \in 0..MaxRowIds
           /\ Match(card, merge) # 0 =>
                Match(card, merge) \in RowIds /\ stock[Match(card, merge)].card = card
<1> DEFINE found == {r \in RowIds : stock[r].card = card}
<1>1. CASE merge /\ found # {}
  <2>1. found \in SUBSET Nat
    BY ImportAssumption DEF RowIds
  <2>2. \E r \in found : \A q \in found : r <= q
    BY <1>1, <2>1, LeastExists
  <2>3. (CHOOSE r \in found : \A q \in found : r <= q) \in found
    BY <2>2
  <2>4. Match(card, merge) \in found
    BY <1>1, <2>3 DEF Match
  <2> QED  BY <2>4, ImportAssumption DEF RowIds
<1>2. CASE ~(merge /\ found # {})
  BY <1>2, ImportAssumption DEF Match
<1> QED  BY <1>1, <1>2

-----------------------------------------------------------------------------
(* Typing.                                                                 *)

Busy(u) == ipc[u] # "idle"
\* A request that is busy has a batch that was created, and a row of the file
\* before it until the row is kept; a merge has the state it replaces.
Sound(u) ==
    LET l == load[u] IN
    /\ Busy(u) => l.batch \in Batches /\ batches[l.batch].status # "none"
    /\ ipc[u] \in {"match", "write", "keep"} => l.file # <<>>
    /\ ipc[u] = "write" /\ l.hit # 0 => Len(l.did) = 1
\* Ids above the newest are free.
Fresh == \A r \in RowIds : r > lastId => stock[r] = NoRow
ImportShape == ImportTypeOK /\ Fresh /\ \A u \in Movers : Sound(u)

LEMMA NoLoadType ==
    /\ NoLoad \in Load
    /\ \A b \in Batches, file \in Seq(Cards) :
         LET l == [NoLoad EXCEPT !.batch = b, !.file = file] IN
         l \in Load /\ l.batch = b /\ l.file = file /\ l.did = <<>>
    /\ \A b \in Batches, undo \in Seq(Item) :
         LET l == [NoLoad EXCEPT !.batch = b, !.undo = undo] IN
         l \in Load /\ l.batch = b /\ l.undo = undo
<1>1. <<>> \in Seq(Cards) /\ <<>> \in Seq(Item) /\ 0 \in 0..MaxRowIds
  BY ImportAssumption
<1> QED  BY <1>1, RowTypes DEF NoLoad, Load

\* A request moves on, to a place where its local variables are sound.
LEMMA MovesOn ==
    ASSUME ImportShape, NEW u \in Movers, NEW place, NEW local \in Load, Step(u, place, local),
           place \in {"idle", "look", "match", "write", "keep", "undo"},
           place # "idle" => local.batch \in Batches /\ batches'[local.batch].status # "none",
           place \in {"match", "write", "keep"} => local.file # <<>>,
           place = "write" /\ local.hit # 0 => Len(local.did) = 1,
           \A b \in Batches : batches[b].status # "none" => batches'[b].status # "none"
    PROVE  /\ ipc' \in [Movers -> {"idle", "look", "match", "write", "keep", "undo"}]
           /\ load' \in [Movers -> Load]
           /\ \A v \in Movers : Sound(v)'
<1>1. ipc' \in [Movers -> {"idle", "look", "match", "write", "keep", "undo"}]
      /\ load' \in [Movers -> Load]
  BY DEF Step, ImportShape, ImportTypeOK
<1>2. ASSUME NEW v \in Movers PROVE Sound(v)'
  <2>1. CASE v = u
    <3>1. ipc'[u] = place /\ load'[u] = local
      BY DEF Step, ImportShape, ImportTypeOK
    <3> QED  BY <2>1, <3>1 DEF Sound, Busy
  <2>2. CASE v # u
    <3>1. ipc'[v] = ipc[v] /\ load'[v] = load[v]
      BY <2>2 DEF Step, ImportShape, ImportTypeOK
    <3>2. Sound(v)
      BY DEF ImportShape
    <3> QED  BY <3>1, <3>2 DEF Sound, Busy
  <2> QED  BY <2>1, <2>2
<1> QED  BY <1>1, <1>2

LEMMA ImportShapeInit == ImportInit => ImportShape
<1> SUFFICES ASSUME ImportInit PROVE ImportShape
  OBVIOUS
<1>1. stock \in Collections
  BY RowTypes DEF ImportInit, Collections
<1>2. <<>> \in Seq(Cards) /\ <<>> \in Seq(Item)
  OBVIOUS
<1>3. ImportTypeOK
  <2>1. before \in [Batches -> Collections] /\ after \in [Batches -> Collections]
    BY <1>1 DEF ImportInit
  <2>2. /\ batches \in [Batches -> [status : {"none", "preview", "applied", "undone"},
                                    merge : BOOLEAN, file : Seq(Cards)]]
        /\ items \in [Batches -> Seq(Item)]
    BY <1>2 DEF ImportInit
  <2>3. load \in [Movers -> Load]
    BY NoLoadType DEF ImportInit
  <2>4. lastId \in 0..MaxRowIds /\ edits \in 0..MaxEdits
    BY ImportAssumption DEF ImportInit
  <2> QED  BY <1>1, <2>1, <2>2, <2>3, <2>4 DEF ImportInit, ImportTypeOK, Collections
<1>4. Fresh
  BY DEF ImportInit, Fresh
<1>5. \A u \in Movers : Sound(u)
  BY DEF ImportInit, Sound, Busy
<1> QED  BY <1>3, <1>4, <1>5 DEF ImportShape

\* The local variables of a step are what the code leaves in them.
LEMMA MatchLoads ==
    ASSUME ImportShape, NEW u \in Movers, LookForRow(u) \/ MatchRow(u)
    PROVE  ImportShape'
<1> DEFINE l == load[u]
<1>0. l \in Load /\ l.file \in Seq(Cards)
  BY DEF ImportShape, ImportTypeOK, Load
<1>1. l.batch \in Batches /\ l.file # <<>> /\ batches[l.batch].status # "none"
  BY DEF ImportShape, Sound, Busy, LookForRow, MatchRow, AtStep
<1>2. batches[l.batch].merge \in BOOLEAN
  BY <1>1 DEF ImportShape, ImportTypeOK
<1>3. PICK r \in 0..MaxRowIds : r = Match(l.file[1], batches[l.batch].merge)
  BY <1>2, MatchFinds
<1>4. r # 0 => r \in RowIds /\ stock[r] \in Row
  BY <1>2, <1>3, MatchFinds DEF ImportShape, ImportTypeOK
<1>5. CASE LookForRow(u)
  <2> DEFINE next == [l EXCEPT !.old = IF r = 0 THEN NoRow ELSE stock[r]]
  <2>1. next \in Load /\ next.batch = l.batch /\ next.file = l.file
    BY <1>0, <1>4, RowTypes DEF Load
  <2>2. Step(u, "match", next) /\ UNCHANGED <<stock, lastId, batches, items, past, edits>>
    BY <1>3, <1>5 DEF LookForRow
  <2> HIDE DEF next, l
  <2>3. /\ ipc' \in [Movers -> {"idle", "look", "match", "write", "keep", "undo"}]
        /\ load' \in [Movers -> Load] /\ \A v \in Movers : Sound(v)'
    BY <1>1, <2>1, <2>2, MovesOn
  <2> QED  BY <2>2, <2>3 DEF ImportShape, ImportTypeOK, Fresh, past
<1>6. CASE MatchRow(u)
  <2> DEFINE did == IF r = 0 THEN <<>> ELSE
                        <<[action |-> "updated", id |-> r, old |-> stock[r]]>>
             next == [l EXCEPT !.hit = r, !.did = did]
  <2>1. did \in Seq(Item) /\ (r # 0 => Len(did) = 1)
    <3>1. CASE r = 0
      BY <3>1
    <3>2. CASE r # 0
      <4> DEFINE item == [action |-> "updated", id |-> r, old |-> stock[r]]
      <4>1. item \in Item /\ did = <<item>>
        BY <1>4, <3>2 DEF Item
      <4> HIDE DEF item, did
      <4> QED  BY <4>1
    <3> QED  BY <3>1, <3>2
  <2>2. Step(u, "write", next) /\ UNCHANGED <<stock, lastId, batches, items, past, edits>>
    BY <1>3, <1>6 DEF MatchRow
  <2> HIDE DEF did
  <2>3. next \in Load /\ next.batch = l.batch /\ next.file = l.file /\ next.hit = r
        /\ next.did = did
    BY <1>0, <1>4, <2>1 DEF Load
  <2> HIDE DEF next, l
  <2>4. /\ ipc' \in [Movers -> {"idle", "look", "match", "write", "keep", "undo"}]
        /\ load' \in [Movers -> Load] /\ \A v \in Movers : Sound(v)'
    BY <1>1, <2>1, <2>2, <2>3, MovesOn
  <2> QED  BY <2>2, <2>4 DEF ImportShape, ImportTypeOK, Fresh, past
<1> QED  BY <1>5, <1>6

\* A row that an import writes: what it replaced, and what is there now.
LEMMA WriteLoads ==
    ASSUME ImportShape, NEW u \in Movers, WriteRow(u)
    PROVE  /\ ImportShape'
           /\ load[u].hit = 0 =>
                /\ lastId + 1 \in RowIds /\ stock[lastId + 1] = NoRow
                /\ stock' = [stock EXCEPT ![lastId + 1] =
                                 [card |-> load[u].file[1], copies |-> 1]]
                /\ load'[u].did = <<[action |-> "inserted", id |-> lastId + 1,
                                     old |-> load[u].old]>>
           /\ load[u].hit # 0 =>
                \E many \in 0..MaxCopies :
                  /\ stock' = IF stock[load[u].hit] = NoRow THEN stock
                              ELSE [stock EXCEPT ![load[u].hit] =
                                        [card |-> stock[load[u].hit].card, copies |-> many]]
                  /\ load'[u].did = <<[load[u].did[1] EXCEPT !.old = load[u].old]>>
           /\ ipc' = [ipc EXCEPT ![u] = "keep"]
           /\ \A v \in Movers \ {u} : load'[v] = load[v]
           /\ load'[u].batch = load[u].batch /\ load'[u].file = load[u].file
<1> DEFINE l == load[u]
           id == lastId + 1
<1>0. /\ l \in Load /\ l.file \in Seq(Cards) /\ l.did \in Seq(Item) /\ l.old \in Row
      /\ l.hit \in 0..MaxRowIds /\ u \in DOMAIN load
  BY DEF ImportShape, ImportTypeOK, Load
<1>1. /\ l.batch \in Batches /\ l.file # <<>> /\ batches[l.batch].status # "none"
      /\ l.hit # 0 => Len(l.did) = 1
  BY DEF ImportShape, Sound, Busy, WriteRow, AtStep
<1>2. l.file[1] \in Cards
  BY <1>0, <1>1, EmptySeq
<1>3. stock \in Collections /\ lastId \in 0..MaxRowIds
  BY DEF ImportShape, ImportTypeOK, Collections
<1>4. CASE l.hit = 0
  <2>1. id \in RowIds /\ stock[id] = NoRow
    BY <1>3, <1>4, ImportAssumption DEF WriteRow, RowIds, ImportShape, Fresh
  <2> DEFINE item == [action |-> "inserted", id |-> id, old |-> l.old]
             new == [card |-> l.file[1], copies |-> 1]
             next == [l EXCEPT !.did = <<item>>]
  <2>2. new \in Row /\ <<item>> \in Seq(Item)
    BY <1>0, <1>2, <2>1, ImportAssumption DEF Row, Item
  <2>3. /\ stock' = [stock EXCEPT ![id] = new] /\ lastId' = id /\ lastId < MaxRowIds
        /\ Step(u, "keep", next) /\ UNCHANGED <<batches, items, past, edits>>
    BY <1>4 DEF WriteRow
  <2> HIDE DEF item, new
  <2>4. next \in Load /\ next.batch = l.batch /\ next.file = l.file /\ next.did = <<item>>
    BY <1>0, <2>2 DEF Load
  <2> HIDE DEF next, l
  <2>5. /\ ipc' \in [Movers -> {"idle", "look", "match", "write", "keep", "undo"}]
        /\ load' \in [Movers -> Load] /\ \A v \in Movers : Sound(v)'
    BY <1>1, <2>3, <2>4, MovesOn
  <2>6. stock' \in Collections /\ lastId' \in 0..MaxRowIds /\ Fresh'
    BY <1>3, <2>1, <2>2, <2>3, ImportAssumption DEF Collections, Fresh, ImportShape, RowIds
  <2>7. ImportShape'
    BY <2>3, <2>5, <2>6 DEF ImportShape, ImportTypeOK, past, Collections
  <2>8. load'[u] = next /\ ipc' = [ipc EXCEPT ![u] = "keep"]
        /\ \A v \in Movers \ {u} : load'[v] = load[v]
    BY <1>0, <2>3 DEF Step, ImportShape, ImportTypeOK
  <2> QED  BY <1>4, <2>1, <2>3, <2>4, <2>7, <2>8 DEF item, new, l
<1>5. CASE l.hit # 0
  <2> DEFINE r == l.hit
             many == Capped(l.did[1].old.copies + 1)
             item == [l.did[1] EXCEPT !.old = l.old]
             next == [l EXCEPT !.did = <<item>>]
  <2>1. r \in RowIds /\ l.did[1] \in Item
    BY <1>0, <1>1, <1>5, ImportAssumption DEF RowIds
  <2>2. many \in 0..MaxCopies
    BY <2>1, RowTypes, ImportAssumption DEF Capped, Row
  <2>3. <<item>> \in Seq(Item)
    BY <1>0, <2>1 DEF Item
  <2>4. l.did = <<l.did[1]>>
    BY <1>0, <1>1, <1>5
  <2>5. [l.did EXCEPT ![1] = item] = <<item>>
    BY <2>4
  <2>6. next = [l EXCEPT !.did[1].old = l.old]
    BY <1>0, <2>5 DEF Load
  <2>7. /\ stock' = IF stock[r] = NoRow THEN stock ELSE [stock EXCEPT ![r].copies = many]
        /\ lastId' = lastId /\ Step(u, "keep", next) /\ UNCHANGED <<batches, items, past, edits>>
    BY <1>5, <2>6 DEF WriteRow
  <2> HIDE DEF many, item
  <2>8. [stock EXCEPT ![r].copies = many]
            = [stock EXCEPT ![r] = [card |-> stock[r].card, copies |-> many]]
    <3>1. [stock[r] EXCEPT !.copies = many] = [card |-> stock[r].card, copies |-> many]
      BY <1>3, <2>1 DEF Collections, Row
    <3> QED  BY <3>1
  <2>9. stock' = IF stock[r] = NoRow THEN stock
                 ELSE [stock EXCEPT ![r] = [card |-> stock[r].card, copies |-> many]]
    BY <2>7, <2>8
  <2>10. next \in Load /\ next.batch = l.batch /\ next.file = l.file /\ next.did = <<item>>
    BY <1>0, <2>3 DEF Load
  <2> HIDE DEF next, l
  <2>11. /\ ipc' \in [Movers -> {"idle", "look", "match", "write", "keep", "undo"}]
         /\ load' \in [Movers -> Load] /\ \A v \in Movers : Sound(v)'
    BY <1>1, <2>7, <2>10, MovesOn
  <2>12. stock' \in Collections
    BY <1>3, <2>1, <2>2, <2>9 DEF Collections, Row
  <2>13. Fresh'
    <3> SUFFICES ASSUME NEW q \in RowIds, q > lastId PROVE stock'[q] = NoRow
      BY <2>7 DEF Fresh
    <3>1. stock[q] = NoRow
      BY DEF ImportShape, Fresh
    <3> QED  BY <1>3, <2>1, <2>9, <3>1 DEF Collections
  <2>14. ImportShape'
    BY <2>7, <2>11, <2>12, <2>13 DEF ImportShape, ImportTypeOK, past, Collections
  <2>15. load'[u] = next /\ ipc' = [ipc EXCEPT ![u] = "keep"]
         /\ \A v \in Movers \ {u} : load'[v] = load[v]
    BY <1>0, <2>7 DEF Step, ImportShape, ImportTypeOK
  <2> QED  BY <1>5, <2>2, <2>9, <2>10, <2>14, <2>15 DEF item, l
<1> QED  BY <1>0, <1>4, <1>5

\* The batches of those who work beside a request.
LEMMA BesideType == ASSUME ImportShape, NEW u PROVE Beside(u) \subseteq Batches
BY DEF Beside, ImportShape, Sound, Busy

\* The tables of imports keep their types, and requests their shape.
LEMMA ImportShapeStep == ImportShape /\ [ImportNext]_importVars => ImportShape'
<1> SUFFICES ASSUME ImportShape, [ImportNext]_importVars PROVE ImportShape'
  OBVIOUS
<1> DEFINE MoverTypes ==
             /\ ipc' \in [Movers -> {"idle", "look", "match", "write", "keep", "undo"}]
             /\ load' \in [Movers -> Load] /\ \A v \in Movers : Sound(v)'
<1>0. /\ \A b \in Batches : items[b] \in Seq(Item) /\ batches[b].file \in Seq(Cards)
      /\ \A u \in Movers : load[u] \in Load /\ load[u].file \in Seq(Cards)
                             /\ load[u].did \in Seq(Item) /\ load[u].undo \in Seq(Item)
  BY DEF ImportShape, ImportTypeOK, Load
<1>1. ASSUME NEW u \in Movers, NEW b \in Batches, NEW file \in Files, NEW merge \in BOOLEAN,
             NEW phase \in {"preview", "applied"}, CreateBatch(u, b, file, merge, phase)
      PROVE  ImportShape'
  <2>1. file \in Seq(Cards)
    BY ImportAssumption
  <2>2. /\ batches' = [batches EXCEPT ![b] = [status |-> phase, merge |-> merge, file |-> file]]
        /\ before' = [before EXCEPT ![b] = stock]
        /\ UNCHANGED <<stock, lastId, items, after, edits>>
    BY <1>1 DEF CreateBatch
  <2>3. /\ batches' \in [Batches -> [status : {"none", "preview", "applied", "undone"},
                                     merge : BOOLEAN, file : Seq(Cards)]]
        /\ before' \in [Batches -> [RowIds -> Row]]
        /\ batches'[b].status # "none"
        /\ \A c \in Batches : batches[c].status # "none" => batches'[c].status # "none"
    BY <2>1, <2>2 DEF ImportShape, ImportTypeOK
  <2>4. blurred' \subseteq Batches
    BY <1>1, BesideType DEF CreateBatch, Joined, ImportShape, ImportTypeOK
  <2>5. MoverTypes
    <3>1. CASE phase = "applied"
      <4> DEFINE next == [NoLoad EXCEPT !.batch = b, !.file = file]
      <4>1. next \in Load /\ next.batch = b
        BY <2>1, NoLoadType
      <4>2. Step(u, "look", next)
        BY <1>1, <3>1 DEF CreateBatch
      <4> HIDE DEF next
      <4> QED  BY <2>3, <4>1, <4>2, MovesOn
    <3>2. CASE phase # "applied"
      <4>1. UNCHANGED <<ipc, load>>
        BY <1>1, <3>2 DEF CreateBatch, atDesk
      <4> QED  BY <2>3, <4>1 DEF ImportShape, ImportTypeOK, Sound, Busy
    <3> QED  BY <3>1, <3>2
  <2> QED  BY <2>2, <2>3, <2>4, <2>5 DEF ImportShape, ImportTypeOK, Fresh
<1>2. ASSUME NEW u \in Movers, NEW b \in Batches, CommitPreview(u, b) PROVE ImportShape'
  <2> DEFINE next == [NoLoad EXCEPT !.batch = b, !.file = batches[b].file]
  <2>1. next \in Load /\ next.batch = b /\ batches[b].status # "none"
    BY <1>0, <1>2, NoLoadType DEF CommitPreview
  <2>2. Step(u, "look", next) /\ UNCHANGED <<stock, lastId, batches, items, after, edits>>
    BY <1>2 DEF CommitPreview
  <2> HIDE DEF next
  <2>3. MoverTypes
    BY <2>1, <2>2, MovesOn
  <2>4. before' \in [Batches -> [RowIds -> Row]] /\ blurred' \subseteq Batches
    BY <1>2, BesideType DEF CommitPreview, Joined, ImportShape, ImportTypeOK
  <2> QED  BY <2>2, <2>3, <2>4 DEF ImportShape, ImportTypeOK, Fresh
<1>3. ASSUME NEW u \in Movers, NEW b \in Batches, ReadBatch(u, b) PROVE ImportShape'
  <2> DEFINE back == Reverse(items[b])
             next == [NoLoad EXCEPT !.batch = b, !.undo = back]
  <2>0. back \in Seq(Item)
    <3>1. Len(items[b]) \in Nat /\ \A i \in 1..Len(items[b]) : items[b][i] \in Item
      BY <1>0
    <3> QED  BY <3>1 DEF Reverse
  <2>1. next \in Load /\ next.batch = b /\ batches[b].status # "none"
    BY <1>3, <2>0, NoLoadType DEF ReadBatch
  <2>2. Step(u, "undo", next) /\ UNCHANGED <<stock, lastId, batches, items, before, after, edits>>
    BY <1>3 DEF ReadBatch
  <2> HIDE DEF next
  <2>3. MoverTypes
    BY <2>1, <2>2, MovesOn
  <2>4. blurred' \subseteq Batches
    BY <1>3, BesideType DEF ReadBatch, ImportShape, ImportTypeOK
  <2> QED  BY <2>2, <2>3, <2>4 DEF ImportShape, ImportTypeOK, Fresh
<1>4. ASSUME NEW u \in Movers, LookForRow(u) \/ MatchRow(u) \/ WriteRow(u) PROVE ImportShape'
  BY <1>4, MatchLoads, WriteLoads
<1>5. ASSUME NEW u \in Movers, KeepItem(u) PROVE ImportShape'
  <2> DEFINE l == load[u]
             rest == Tail(l.file)
             next == [NoLoad EXCEPT !.batch = l.batch, !.file = rest]
  <2>0. l.batch \in Batches /\ l.file # <<>> /\ batches[l.batch].status # "none"
    BY <1>5 DEF ImportShape, Sound, Busy, KeepItem, AtStep
  <2>1. rest \in Seq(Cards)
    BY <1>0, <2>0, HeadTailProperties
  <2>2. next \in Load /\ next.batch = l.batch
    BY <2>0, <2>1, NoLoadType
  <2>3. /\ items' = [items EXCEPT ![l.batch] = @ \o l.did] /\ Step(u, "look", next)
        /\ UNCHANGED <<stock, lastId, batches, past, edits>>
    BY <1>5 DEF KeepItem
  <2>4. items[l.batch] \o l.did \in Seq(Item)
    BY <1>0, <2>0, ConcatProperties
  <2> HIDE DEF next, l
  <2>5. MoverTypes
    BY <2>0, <2>2, <2>3, MovesOn
  <2>6. items' \in [Batches -> Seq(Item)]
    BY <2>3, <2>4 DEF ImportShape, ImportTypeOK
  <2> QED  BY <2>3, <2>5, <2>6 DEF ImportShape, ImportTypeOK, Fresh, past
<1>6. ASSUME NEW u \in Movers, FinishImport(u) \/ MarkUndone(u) PROVE ImportShape'
  <2> DEFINE b == load[u].batch
  <2>0. b \in Batches /\ batches[b].status # "none"
    BY <1>6 DEF ImportShape, Sound, Busy, FinishImport, MarkUndone, AtStep
  <2>1. /\ batches' \in [Batches -> [status : {"none", "preview", "applied", "undone"},
                                     merge : BOOLEAN, file : Seq(Cards)]]
        /\ \A c \in Batches : batches[c].status # "none" => batches'[c].status # "none"
    <3>1. PICK phase \in {"none", "preview", "applied", "undone"} :
              batches' = [batches EXCEPT ![b].status = phase] /\ phase # "none"
      <4>1. batches[b].status \in {"none", "preview", "applied", "undone"}
        BY <2>0 DEF ImportShape, ImportTypeOK
      <4> QED  BY <1>6, <2>0, <4>1 DEF FinishImport, MarkUndone
    <3> QED  BY <2>0, <3>1 DEF ImportShape, ImportTypeOK
  <2>2. Step(u, "idle", NoLoad) /\ UNCHANGED <<stock, lastId, items, before, blurred, edits>>
    BY <1>6 DEF FinishImport, MarkUndone, past
  <2>3. after' \in [Batches -> [RowIds -> Row]]
    BY <1>6 DEF FinishImport, MarkUndone, past, ImportShape, ImportTypeOK
  <2>4. MoverTypes
    BY <2>1, <2>2, NoLoadType, MovesOn
  <2> QED  BY <2>1, <2>2, <2>3, <2>4 DEF ImportShape, ImportTypeOK, Fresh
<1>7. ASSUME NEW u \in Movers, ImportStops(u) PROVE ImportShape'
  <2>1. Step(u, "idle", NoLoad) /\ UNCHANGED <<stock, lastId, batches, items, before, after>>
    BY <1>7 DEF ImportStops
  <2>2. blurred' \subseteq Batches
    BY <1>7 DEF ImportStops, ImportShape, ImportTypeOK, Sound, Busy, AtStep
  <2>3. edits' \in 0..MaxEdits
    BY <1>7, ImportAssumption DEF ImportStops, ImportShape, ImportTypeOK
  <2>4. MoverTypes
    BY <2>1, NoLoadType, MovesOn
  <2> QED  BY <2>1, <2>2, <2>3, <2>4 DEF ImportShape, ImportTypeOK, Fresh
<1>8. ASSUME NEW u \in Movers, UndoItem(u) PROVE ImportShape'
  <2> DEFINE l == load[u]
             i == Head(l.undo)
             rest == Tail(l.undo)
             next == [l EXCEPT !.undo = rest]
  <2>0. l.batch \in Batches /\ batches[l.batch].status # "none" /\ l.undo # <<>>
    BY <1>8 DEF ImportShape, Sound, Busy, UndoItem, AtStep
  <2>1. rest \in Seq(Item) /\ i \in Item
    BY <1>0, <2>0, HeadTailProperties
  <2>2. next \in Load /\ next.batch = l.batch
    BY <1>0, <2>1 DEF Load
  <2>3. /\ stock' = Undone(i, stock) /\ Step(u, "undo", next)
        /\ UNCHANGED <<lastId, batches, items, past, edits>>
    BY <1>8 DEF UndoItem, Undone
  <2> HIDE DEF next, l, i
  <2>4. MoverTypes
    BY <2>0, <2>2, <2>3, MovesOn
  <2>5. stock \in Collections
    BY DEF ImportShape, ImportTypeOK, Collections
  <2>6. stock' \in Collections
    BY <2>1, <2>3, <2>5, UndoneType
  <2>7. Fresh'
    <3> SUFFICES ASSUME NEW r \in RowIds, r > lastId PROVE stock'[r] = NoRow
      BY <2>3 DEF Fresh
    <3>1. stock[r] = NoRow
      BY DEF ImportShape, Fresh
    <3> QED  BY <2>1, <2>3, <2>5, <3>1, RowTypes DEF Undone, Collections
  <2> QED  BY <2>3, <2>4, <2>6, <2>7 DEF ImportShape, ImportTypeOK, past, Collections
<1>9. ASSUME NEW r \in RowIds, NEW many \in 0..MaxCopies, EditRow(r, many) PROVE ImportShape'
  <2> DEFINE new == IF many = 0 THEN NoRow ELSE [stock[r] EXCEPT !.copies = many]
  <2>1. new \in Row
    BY RowTypes DEF ImportShape, ImportTypeOK, Row
  <2>2. /\ stock' = [stock EXCEPT ![r] = new] /\ stock[r] # NoRow
        /\ UNCHANGED <<lastId, batches, items, ipc, load, before, after>>
    BY <1>9 DEF EditRow, atDesk
  <2> HIDE DEF new
  <2>3. stock' \in [RowIds -> Row]
    BY <2>1, <2>2 DEF ImportShape, ImportTypeOK
  <2>4. blurred' \subseteq Batches
    BY <1>9 DEF EditRow, AtStep, ImportShape, ImportTypeOK, Sound, Busy
  <2>5. edits' \in 0..MaxEdits
    BY <1>9, ImportAssumption DEF EditRow, ImportShape, ImportTypeOK
  <2>6. Fresh' /\ \A u \in Movers : Sound(u)'
    BY <2>2 DEF ImportShape, ImportTypeOK, Fresh, Sound, Busy
  <2> QED  BY <2>2, <2>3, <2>4, <2>5, <2>6 DEF ImportShape, ImportTypeOK
<1>10. CASE UNCHANGED importVars
  BY <1>10 DEF importVars, ImportShape, ImportTypeOK, Fresh, Sound, Busy
<1> QED
  BY <1>1, <1>2, <1>3, <1>4, <1>5, <1>6, <1>7, <1>8, <1>9, <1>10 DEF ImportNext, MoverNext

\* Whatever requests and owners do, the tables of imports keep their types.
THEOREM ImportTypeCorrect == ImportSpec => []ImportTypeOK
<1>1. ImportShape => ImportTypeOK
  BY DEF ImportShape
<1> QED  BY <1>1, ImportShapeInit, ImportShapeStep, PTL DEF ImportSpec

-----------------------------------------------------------------------------
(* An undo leads back to what the import found.                            *)

At(b) == \E u \in Movers : Busy(u) /\ load[u].batch = b
\* Who works on a batch that is not blurred works alone.
Alone ==
    \A u, q \in Movers : Busy(u) /\ Busy(q) /\ load[u].batch \notin blurred => u = q
\* The state of a row before it is written.
Earlier(r) == IF r = 0 THEN NoRow ELSE stock[r]
\* What was done so far can be undone, and what is left to undo leads back.
OnTrack(u) ==
    LET l == load[u]
        b == l.batch IN
    /\ ipc[u] \in {"look", "match", "write"} => Trail(before[b], items[b], stock)
    /\ ipc[u] = "match" => l.old = Earlier(Match(l.file[1], batches[b].merge))
    /\ ipc[u] = "write" =>
         /\ l.old = Earlier(l.hit)
         /\ l.hit # 0 =>
              /\ stock[l.hit].card = l.file[1]
              /\ l.did = <<[action |-> "updated", id |-> l.hit, old |-> stock[l.hit]]>>
    /\ ipc[u] = "keep" => Trail(before[b], items[b] \o l.did, stock)
    /\ ipc[u] = "undo" => WayBack(stock, l.undo, before[b])
OnTheWay == \A u \in Movers : Busy(u) /\ load[u].batch \notin blurred => OnTrack(u)
\* Nothing was done for a batch that waits; what was done for one that is
\* complete can be undone, if the collection is as it left it.
Rests(b) ==
    /\ batches[b].status \in {"none", "preview"} => items[b] = <<>>
    /\ batches[b].status = "applied" => Trail(before[b], items[b], after[b])
Resting == \A b \in Batches : b \notin blurred /\ ~At(b) => Rests(b)
UndoInv == ImportShape /\ Alone /\ OnTheWay /\ Resting

LEMMA UndoInvInit == ImportInit => UndoInv
<1> SUFFICES ASSUME ImportInit PROVE UndoInv
  OBVIOUS
<1>1. \A u \in Movers : ~Busy(u)
  BY DEF ImportInit, Busy
<1>2. \A b \in Batches : Rests(b)
  BY DEF ImportInit, Rests
<1> QED  BY <1>1, <1>2, ImportShapeInit DEF UndoInv, Alone, OnTheWay, Resting

\* A request that begins while nobody else is busy is alone; otherwise the
\* batches of all are blurred.
LEMMA Joins ==
    ASSUME UndoInv, NEW u \in Movers, ~Busy(u), NEW b \in Batches,
           NEW place, place # "idle", NEW local, local.batch = b, Step(u, place, local),
           blurred \subseteq blurred', Beside(u) # {} => Beside(u) \cup {b} \subseteq blurred'
    PROVE  /\ Alone' /\ ipc'[u] = place /\ load'[u] = local
           /\ \A v \in Movers : Busy(v)' /\ (load[v].batch)' \notin blurred' => v = u
           /\ b \notin blurred' => ~At(b)
           /\ \A c : ~At(c)' => c # b /\ ~At(c)
<1>1. /\ ipc' = [ipc EXCEPT ![u] = place] /\ load' = [load EXCEPT ![u] = local]
      /\ ipc'[u] = place /\ load'[u] = local
      /\ \A v \in Movers \ {u} : ipc'[v] = ipc[v] /\ load'[v] = load[v]
  BY DEF Step, UndoInv, ImportShape, ImportTypeOK
<1>2. \A v \in Movers \ {u} : Busy(v) => load[v].batch \in Beside(u)
  <2> SUFFICES ASSUME NEW v \in Movers \ {u}, Busy(v) PROVE load[v].batch \in Beside(u)
    OBVIOUS
  <2>1. load[v].batch # NoBatch
    BY ImportAssumption DEF UndoInv, ImportShape, Sound
  <2> QED  BY <2>1 DEF Beside, Busy
<1>3. ASSUME NEW v \in Movers, Busy(v)', (load[v].batch)' \notin blurred'
      PROVE  Beside(u) = {} /\ v = u
  <2>1. CASE v = u
    <3>1. load'[v].batch = b
      BY <1>1, <2>1
    <3> QED  BY <1>3, <2>1, <3>1
  <2>2. CASE v # u
    <3>1. Busy(v) /\ load'[v].batch = load[v].batch
      BY <1>1, <1>3, <2>2 DEF Busy
    <3>2. load[v].batch \in Beside(u)
      BY <1>2, <2>2, <3>1
    <3> QED  BY <1>3, <3>1, <3>2
  <2> QED  BY <2>1, <2>2
<1>4. Alone'
  <2> SUFFICES ASSUME NEW v \in Movers, NEW q \in Movers, Busy(v)', Busy(q)',
                      (load[v].batch)' \notin blurred'
               PROVE  v = q
    BY DEF Alone
  <2>1. v = u /\ Beside(u) = {}
    BY <1>3
  <2>2. q = u
    <3> SUFFICES ASSUME q # u PROVE FALSE
      OBVIOUS
    <3>1. Busy(q)
      BY <1>1 DEF Busy
    <3> QED  BY <1>2, <2>1, <3>1
  <2> QED  BY <2>1, <2>2
<1>5. b \notin blurred' => ~At(b)
  <2> SUFFICES ASSUME b \notin blurred', At(b) PROVE FALSE
    OBVIOUS
  <2>1. PICK q \in Movers : Busy(q)
    BY DEF At
  <2>2. q # u
    BY <2>1
  <2>3. load[q].batch \in Beside(u)
    BY <1>2, <2>1, <2>2
  <2> QED  BY <2>3
<1>6. ASSUME NEW c, ~At(c)' PROVE c # b /\ ~At(c)
  <2>1. Busy(u)'
    BY <1>1 DEF Busy
  <2>2. c # b
    BY <1>1, <1>6, <2>1 DEF At
  <2>3. ASSUME At(c) PROVE FALSE
    <3>1. PICK q \in Movers : Busy(q) /\ load[q].batch = c
      BY <2>3 DEF At
    <3>2. q # u
      BY <3>1
    <3>3. Busy(q)' /\ load'[q].batch = c
      BY <1>1, <3>1, <3>2 DEF Busy
    <3> QED  BY <1>6, <3>3 DEF At
  <2> QED  BY <2>2, <2>3
<1> QED  BY <1>1, <1>3, <1>4, <1>5, <1>6

\* A request that goes on with its batch, not blurred, is the only one busy.
LEMMA Works ==
    ASSUME UndoInv, NEW u \in Movers, Busy(u), NEW place, place # "idle",
           NEW local, local.batch = load[u].batch, Step(u, place, local), blurred' = blurred
    PROVE  /\ Alone' /\ ipc'[u] = place /\ load'[u] = local
           /\ \A v \in Movers : Busy(v)' /\ (load[v].batch)' \notin blurred' =>
                v = u /\ load[u].batch \notin blurred /\ OnTrack(u)
           /\ \A c : ~At(c)' => c # load[u].batch /\ ~At(c)
<1>1. /\ ipc'[u] = place /\ load'[u] = local
      /\ \A v \in Movers : (Busy(v)' <=> Busy(v)) /\ load'[v].batch = load[v].batch
  BY DEF Step, UndoInv, ImportShape, ImportTypeOK, Busy
<1>2. Alone'
  BY <1>1 DEF Alone, UndoInv
<1>3. \A c : At(c)' <=> At(c)
  BY <1>1 DEF At
<1>4. ASSUME NEW v \in Movers, Busy(v)', (load[v].batch)' \notin blurred'
      PROVE  v = u /\ load[u].batch \notin blurred /\ OnTrack(u)
  <2>1. Busy(v) /\ load[v].batch \notin blurred
    BY <1>1, <1>4
  <2>2. v = u
    BY <2>1 DEF UndoInv, Alone
  <2> QED  BY <2>1, <2>2 DEF UndoInv, OnTheWay
<1>5. \A c : ~At(c)' => c # load[u].batch /\ ~At(c)
  BY <1>3 DEF At
<1> QED  BY <1>1, <1>2, <1>4, <1>5

\* A request that ends leaves nobody on a batch that is not blurred, if it was
\* on one itself.
LEMMA Leaves ==
    ASSUME UndoInv, NEW u \in Movers, Busy(u), NEW local, Step(u, "idle", local),
           blurred \subseteq blurred'
    PROVE  /\ Alone'
           /\ \A v \in Movers : ~(Busy(v)' /\ (load[v].batch)' \notin blurred')
           /\ \A c : ~At(c)' /\ c # load[u].batch => ~At(c)
<1>1. /\ ipc'[u] = "idle"
      /\ \A v \in Movers \ {u} : ipc'[v] = ipc[v] /\ load'[v] = load[v]
  BY DEF Step, UndoInv, ImportShape, ImportTypeOK
<1>2. ASSUME NEW v \in Movers, Busy(v)', (load[v].batch)' \notin blurred' PROVE FALSE
  <2>1. v # u
    BY <1>1, <1>2 DEF Busy
  <2>2. Busy(v) /\ load[v].batch \notin blurred
    BY <1>1, <1>2, <2>1 DEF Busy
  <2> QED  BY <2>1, <2>2 DEF UndoInv, Alone
<1>3. Alone'
  BY <1>2 DEF Alone
<1>4. ASSUME NEW c, ~At(c)', c # load[u].batch, At(c) PROVE FALSE
  <2>1. PICK q \in Movers : Busy(q) /\ load[q].batch = c
    BY <1>4 DEF At
  <2>2. Busy(q)' /\ load'[q].batch = c
    BY <1>1, <1>4, <2>1 DEF Busy
  <2> QED  BY <1>4, <2>2 DEF At
<1> QED  BY <1>2, <1>3, <1>4

\* The row of a card is the same while the collection is.
LEMMA MatchKept ==
    ASSUME stock' = stock, NEW card, NEW merge PROVE Match(card, merge)' = Match(card, merge)
BY DEF Match

\* Steps of an import: the trail holds while a row is looked for and matched...
LEMMA TrailKept ==
    ASSUME UndoInv, NEW u \in Movers, LookForRow(u) \/ MatchRow(u) PROVE UndoInv'
<1> DEFINE l == load[u]
           b == l.batch
<1>1. /\ ImportShape /\ ImportShape' /\ Busy(u) /\ b \in Batches /\ l.file # <<>>
      /\ batches[b].merge \in BOOLEAN /\ l \in Load
  BY MatchLoads DEF UndoInv, ImportShape, ImportTypeOK, Sound, Busy, LookForRow, MatchRow, AtStep
<1>2. PICK card : card = l.file[1]
  OBVIOUS
<1>3. PICK merge \in BOOLEAN : merge = batches[b].merge
  BY <1>1
<1>4. PICK r \in 0..MaxRowIds :
          r = Match(card, merge) /\ (r # 0 => stock[r].card = card)
  BY MatchFinds
<1>5. PICK place, local :
          /\ place \in {"match", "write"}
          /\ Step(u, place, local) /\ local.batch = b /\ local.file = l.file
          /\ place = "match" => ipc[u] = "look" /\ local.old = Earlier(r)
          /\ place = "write" =>
               /\ ipc[u] = "match" /\ local.old = l.old /\ local.hit = r
               /\ r # 0 => local.did = <<[action |-> "updated", id |-> r, old |-> stock[r]]>>
  <2>1. CASE LookForRow(u)
    <3> DEFINE local == [l EXCEPT !.old = IF r = 0 THEN NoRow ELSE stock[r]]
    <3>1. local.batch = b /\ local.file = l.file /\ local.old = Earlier(r)
      BY <1>1 DEF Load, Earlier
    <3>2. ipc[u] = "look" /\ Step(u, "match", local)
      BY <1>2, <1>3, <1>4, <2>1 DEF LookForRow, AtStep
    <3> HIDE DEF local
    <3> QED  BY <3>1, <3>2
  <2>2. CASE MatchRow(u)
    <3> DEFINE did == IF r = 0 THEN <<>>
                      ELSE <<[action |-> "updated", id |-> r, old |-> stock[r]]>>
               local == [l EXCEPT !.hit = r, !.did = did]
    <3>1. ipc[u] = "match" /\ Step(u, "write", local)
      BY <1>2, <1>3, <1>4, <2>2 DEF MatchRow, AtStep
    <3>2. r # 0 => did = <<[action |-> "updated", id |-> r, old |-> stock[r]]>>
      OBVIOUS
    <3> HIDE DEF did
    <3>3. local.batch = b /\ local.file = l.file /\ local.old = l.old /\ local.hit = r
          /\ local.did = did
      BY <1>1 DEF Load
    <3> HIDE DEF local
    <3> QED  BY <3>1, <3>2, <3>3
  <2> QED  BY <2>1, <2>2
<1>6. UNCHANGED <<stock, batches, items, before, after, blurred>>
  BY DEF LookForRow, MatchRow, past
<1>7. /\ Alone' /\ ipc'[u] = place /\ load'[u] = local
      /\ \A v \in Movers : Busy(v)' /\ (load[v].batch)' \notin blurred' =>
           v = u /\ b \notin blurred /\ OnTrack(u)
      /\ \A c : ~At(c)' => c # b /\ ~At(c)
  <2>1. place # "idle"
    BY <1>5
  <2> QED  BY <1>1, <1>5, <1>6, <2>1, Works
<1>8. OnTheWay'
  <2> SUFFICES ASSUME NEW v \in Movers, Busy(v)', (load[v].batch)' \notin blurred'
               PROVE  OnTrack(v)'
    BY DEF OnTheWay
  <2>1. v = u /\ OnTrack(u)
    BY <1>7
  <2>2. Trail(before[b], items[b], stock)'
    <3>1. Trail(before[b], items[b], stock)
      BY <1>5, <2>1 DEF OnTrack
    <3>2. load'[u].batch = b
      BY <1>5, <1>7
    <3> QED  BY <1>6, <3>1, <3>2
  <2>3. ipc'[u] = place /\ load'[u].batch = b /\ load'[u].file = l.file
        /\ load'[u].old = local.old /\ load'[u].hit = local.hit /\ load'[u].did = local.did
    BY <1>5, <1>7
  <2>4. Earlier(r)' = Earlier(r)
    BY <1>6 DEF Earlier
  <2>5. CASE place = "match"
    <3>1. Match(load[u].file[1], batches[load[u].batch].merge)' = r
      BY <1>2, <1>3, <1>4, <1>6, <2>3, MatchKept
    <3>2. local.old = Earlier(Match(load[u].file[1], batches[load[u].batch].merge))'
      BY <1>5, <2>4, <2>5, <3>1 DEF Earlier
    <3> QED  BY <2>1, <2>2, <2>3, <2>5, <3>2 DEF OnTrack
  <2>6. CASE place = "write"
    <3>1. l.old = Earlier(r)
      BY <1>2, <1>3, <1>4, <1>5, <2>1, <2>6 DEF OnTrack
    <3>2. r # 0 => stock'[r].card = load'[u].file[1]
      BY <1>2, <1>4, <1>6, <2>3
    <3> QED  BY <1>5, <1>6, <2>1, <2>2, <2>3, <2>4, <2>6, <3>1, <3>2 DEF OnTrack
  <2> QED  BY <1>5, <2>5, <2>6
<1>9. Resting'
  BY <1>6, <1>7 DEF UndoInv, Resting, Rests
<1> QED  BY <1>1, <1>7, <1>8, <1>9 DEF UndoInv

\* ...grows by what is written...
LEMMA TrailWritten == ASSUME UndoInv, NEW u \in Movers, WriteRow(u) PROVE UndoInv'
<1> DEFINE l == load[u]
           b == l.batch
<1>0. /\ ImportShape /\ ImportShape' /\ ipc[u] = "write" /\ Busy(u) /\ b \in Batches
      /\ l \in Load /\ l.file \in Seq(Cards) /\ l.file # <<>>
      /\ UNCHANGED <<batches, items, before, after, blurred>>
      /\ stock \in Collections /\ stock' \in Collections
      /\ l.hit \in 0..MaxRowIds /\ l.old \in Row /\ items[b] \in Seq(Item)
  BY WriteLoads DEF UndoInv, ImportShape, ImportTypeOK, Sound, Busy, WriteRow, AtStep, past,
                    Load, Collections
<1>1. PICK local : Step(u, "keep", local)
  BY DEF WriteRow
<1>2. load'[u] = local /\ local.batch = b
  <2>1. load \in [Movers -> Load]
    BY <1>0 DEF ImportShape, ImportTypeOK
  <2>2. load'[u] = local
    BY <1>1, <2>1 DEF Step
  <2>3. load'[u].batch = b
    BY WriteLoads DEF UndoInv
  <2> QED  BY <2>2, <2>3
<1>3. /\ Alone' /\ ipc'[u] = "keep"
      /\ \A v \in Movers : Busy(v)' /\ (load[v].batch)' \notin blurred' =>
           v = u /\ b \notin blurred /\ OnTrack(u)
      /\ \A c : ~At(c)' => c # b /\ ~At(c)
  BY <1>0, <1>1, <1>2, Works
<1>4. OnTheWay'
  <2> SUFFICES ASSUME NEW v \in Movers, Busy(v)', (load[v].batch)' \notin blurred'
               PROVE  OnTrack(v)'
    BY DEF OnTheWay
  <2>1. v = u /\ OnTrack(u)
    BY <1>3
  <2>2. Trail(before[b], items[b], stock)
    BY <1>0, <2>1 DEF OnTrack
  <2>3. PICK i \in Item : local.did = <<i>> /\ Undone(i, stock') = stock
    <3>1. CASE l.hit = 0
      <4> DEFINE id == lastId + 1
                 i == [action |-> "inserted", id |-> id, old |-> l.old]
                 new == [card |-> l.file[1], copies |-> 1]
      <4>1. id \in RowIds /\ stock[id] = NoRow /\ local.did = <<i>>
            /\ stock' = [stock EXCEPT ![id] = new]
        BY <1>2, <3>1, WriteLoads, <1>0
      <4>2. new # NoRow
        <5>1. l.file[1] \in Cards
          BY <1>0, EmptySeq
        <5> QED  BY <5>1, ImportAssumption DEF NoRow
      <4>3. i \in Item /\ i.action = "inserted" /\ i.id = id
        BY <1>0, <4>1 DEF Item
      <4> HIDE DEF i, new
      <4>4. stock'[id] = new
        BY <1>0, <4>1 DEF Collections
      <4>5. Undone(i, stock') = [stock' EXCEPT ![id] = NoRow]
        BY <4>2, <4>3, <4>4 DEF Undone
      <4>6. [stock' EXCEPT ![id] = NoRow] = stock
        BY <1>0, <4>1 DEF Collections
      <4> QED  BY <4>1, <4>3, <4>5, <4>6
    <3>2. CASE l.hit # 0
      <4> DEFINE r == l.hit
                 i == [l.did[1] EXCEPT !.old = l.old]
      <4>1. /\ r \in RowIds /\ stock[r].card = l.file[1] /\ l.old = stock[r]
            /\ l.did = <<[action |-> "updated", id |-> r, old |-> stock[r]]>>
        BY <1>0, <2>1, <3>2, ImportAssumption DEF OnTrack, Earlier, RowIds
      <4>2. PICK many \in 0..MaxCopies :
                /\ stock' = IF stock[r] = NoRow THEN stock
                            ELSE [stock EXCEPT ![r] =
                                      [card |-> stock[r].card, copies |-> many]]
                /\ load'[u].did = <<i>>
        BY <1>0, <3>2, WriteLoads
      <4>3. l.file[1] \in Cards
        BY <1>0, EmptySeq
      <4>4. stock[r] # NoRow
        BY <4>1, <4>3, ImportAssumption DEF NoRow
      <4>5. l.did[1] = [action |-> "updated", id |-> r, old |-> stock[r]]
        BY <4>1
      <4>6. i = [action |-> "updated", id |-> r, old |-> stock[r]]
        BY <4>1, <4>5
      <4>7. i \in Item /\ i.action = "updated" /\ i.id = r /\ i.old = stock[r]
        BY <1>0, <4>1, <4>6 DEF Item, Collections
      <4> HIDE DEF i
      <4> DEFINE new == [card |-> stock[r].card, copies |-> many]
      <4>8. new # NoRow
        BY <4>1, <4>3, ImportAssumption DEF NoRow
      <4> HIDE DEF new
      <4>9. stock' = [stock EXCEPT ![r] = new] /\ stock'[r] = new
        BY <1>0, <4>1, <4>2, <4>4 DEF new, Collections
      <4>10. Undone(i, stock') = [stock' EXCEPT ![r] = stock[r]]
        BY <4>4, <4>7, <4>8, <4>9 DEF Undone
      <4>11. [stock' EXCEPT ![r] = stock[r]] = stock
        BY <1>0, <4>1, <4>9 DEF Collections
      <4> QED  BY <1>2, <4>2, <4>7, <4>10, <4>11
    <3> QED  BY <3>1, <3>2
  <2>4. Trail(before[b], items[b] \o <<i>>, stock')
    BY <1>0, <2>2, <2>3, TrailGrows
  <2>5. Trail(before[b], items[b] \o load[u].did, stock)'
    BY <1>0, <1>2, <2>3, <2>4
  <2> QED  BY <1>0, <1>2, <1>3, <2>1, <2>5 DEF OnTrack
<1>5. Resting'
  BY <1>0, <1>3 DEF UndoInv, Resting, Rests
<1> QED  BY <1>0, <1>3, <1>4, <1>5 DEF UndoInv

\* ...and is kept in the batch.
LEMMA TrailRecorded == ASSUME UndoInv, NEW u \in Movers, KeepItem(u) PROVE UndoInv'
<1> DEFINE l == load[u]
           b == l.batch
<1>1. /\ ImportShape /\ ImportShape' /\ ipc[u] = "keep" /\ Busy(u) /\ b \in Batches
      /\ l \in Load /\ l.file \in Seq(Cards) /\ l.file # <<>>
      /\ items' = [items EXCEPT ![b] = @ \o l.did]
      /\ UNCHANGED <<stock, lastId, batches, before, after, blurred>>
  <2>1. ImportShape'
    BY ImportShapeStep DEF UndoInv, ImportNext, MoverNext
  <2> QED  BY <2>1 DEF UndoInv, ImportShape, ImportTypeOK, Sound, Busy, KeepItem, AtStep, past,
                       Load
<1>2. PICK local : Step(u, "look", local) /\ local.batch = b
  <2>1. Tail(l.file) \in Seq(Cards)
    BY <1>1, HeadTailProperties
  <2> DEFINE local == [NoLoad EXCEPT !.batch = b, !.file = Tail(l.file)]
  <2>2. Step(u, "look", local)
    BY DEF KeepItem
  <2>3. local.batch = b
    BY DEF NoLoad
  <2> HIDE DEF local
  <2> QED  BY <2>2, <2>3
<1>3. /\ Alone' /\ ipc'[u] = "look" /\ load'[u] = local
      /\ \A v \in Movers : Busy(v)' /\ (load[v].batch)' \notin blurred' =>
           v = u /\ b \notin blurred /\ OnTrack(u)
      /\ \A c : ~At(c)' => c # b /\ ~At(c)
  BY <1>1, <1>2, Works
<1>4. items'[b] = items[b] \o l.did /\ \A c \in Batches : c # b => items'[c] = items[c]
  BY <1>1 DEF ImportShape, ImportTypeOK
<1>5. OnTheWay'
  <2> SUFFICES ASSUME NEW v \in Movers, Busy(v)', (load[v].batch)' \notin blurred'
               PROVE  OnTrack(v)'
    BY DEF OnTheWay
  <2>1. v = u /\ OnTrack(u)
    BY <1>3
  <2>2. Trail(before[b], items[b] \o l.did, stock)
    BY <1>1, <2>1 DEF OnTrack
  <2>3. Trail(before[b], items[b], stock)'
    BY <1>1, <1>2, <1>3, <1>4, <2>2
  <2> QED  BY <1>2, <1>3, <2>1, <2>3 DEF OnTrack
<1>6. Resting'
  BY <1>1, <1>3, <1>4 DEF UndoInv, Resting, Rests
<1> QED  BY <1>1, <1>3, <1>5, <1>6 DEF UndoInv

\* One item of an undo brings the collection one step back.
LEMMA WayTaken == ASSUME UndoInv, NEW u \in Movers, UndoItem(u) PROVE UndoInv'
<1> DEFINE l == load[u]
           b == l.batch
           i == Head(l.undo)
           rest == Tail(l.undo)
<1>1. /\ ImportShape /\ ImportShape' /\ ipc[u] = "undo" /\ Busy(u)
      /\ l \in Load /\ l.undo \in Seq(Item) /\ l.undo # <<>> /\ stock \in Collections
      /\ stock' = Undone(i, stock)
      /\ UNCHANGED <<lastId, batches, items, before, after, blurred>>
  <2>1. ImportShape'
    BY ImportShapeStep DEF UndoInv, ImportNext, MoverNext
  <2> QED  BY <2>1 DEF UndoInv, ImportShape, ImportTypeOK, Busy, UndoItem, AtStep, past, Load,
                       Collections, Undone
<1>2. PICK local : Step(u, "undo", local) /\ local.batch = b /\ local.undo = rest
  <2> DEFINE local == [l EXCEPT !.undo = rest]
  <2>1. Step(u, "undo", local)
    BY DEF UndoItem
  <2>2. local.batch = b /\ local.undo = rest
    BY <1>1 DEF Load
  <2> HIDE DEF local
  <2> QED  BY <2>1, <2>2
<1>3. /\ Alone' /\ ipc'[u] = "undo" /\ load'[u] = local
      /\ \A v \in Movers : Busy(v)' /\ (load[v].batch)' \notin blurred' =>
           v = u /\ b \notin blurred /\ OnTrack(u)
      /\ \A c : ~At(c)' => c # b /\ ~At(c)
  BY <1>1, <1>2, Works
<1>4. OnTheWay'
  <2> SUFFICES ASSUME NEW v \in Movers, Busy(v)', (load[v].batch)' \notin blurred'
               PROVE  OnTrack(v)'
    BY DEF OnTheWay
  <2>1. v = u /\ OnTrack(u)
    BY <1>3
  <2>2. WayBack(stock, l.undo, before[b])
    BY <1>1, <2>1 DEF OnTrack
  <2>3. WayBack(stock', rest, before[b])
    BY <1>1, <2>2, WayShortens
  <2>4. WayBack(stock, load[u].undo, before[load[u].batch])'
    BY <1>1, <1>2, <1>3, <2>3
  <2> QED  BY <1>3, <2>1, <2>4 DEF OnTrack
<1>5. Resting'
  BY <1>1, <1>3 DEF UndoInv, Resting, Rests
<1> QED  BY <1>1, <1>3, <1>4, <1>5 DEF UndoInv

\* An import or an undo begins: with nothing done, or where an import ended.
LEMMA TrailBegins ==
    ASSUME UndoInv, NEW u \in Movers, NEW b \in Batches,
           \/ \E file \in Files, merge \in BOOLEAN : CreateBatch(u, b, file, merge, "applied")
           \/ CommitPreview(u, b)
           \/ ReadBatch(u, b)
    PROVE  UndoInv'
<1>1. ImportShape /\ ImportShape' /\ stock \in Collections /\ items[b] \in Seq(Item)
  <2>1. ImportShape'
    BY ImportShapeStep DEF UndoInv, ImportNext, MoverNext
  <2> QED  BY <2>1 DEF UndoInv, ImportShape, ImportTypeOK, Collections
<1>2. /\ ~Busy(u) /\ UNCHANGED <<stock, items, after>>
      /\ blurred \subseteq blurred' /\ (Beside(u) # {} => Beside(u) \cup {b} \subseteq blurred')
      /\ \A c \in Batches : c # b => before'[c] = before[c] /\ batches'[c] = batches[c]
  BY DEF CreateBatch, CommitPreview, ReadBatch, Joined, AtStep, Busy, UndoInv, ImportShape,
         ImportTypeOK
<1>3. PICK place, local :
          /\ place \in {"look", "undo"}
          /\ Step(u, place, local) /\ local.batch = b
          /\ place = "look" =>
               /\ batches[b].status \in {"none", "preview"}
               /\ items[b] = <<>> => before'[b] = stock
          /\ place = "undo" =>
               /\ ReadBatch(u, b) /\ local.undo = Reverse(items[b])
  <2>1. ASSUME NEW file \in Files, NEW merge \in BOOLEAN,
               CreateBatch(u, b, file, merge, "applied")
        PROVE  \E local : /\ Step(u, "look", local) /\ local.batch = b
                          /\ batches[b].status = "none" /\ before'[b] = stock
    <3>1. file \in Seq(Cards)
      BY ImportAssumption
    <3> QED  BY <2>1, <3>1, NoLoadType DEF CreateBatch, UndoInv, ImportShape, ImportTypeOK
  <2>2. ASSUME CommitPreview(u, b)
        PROVE  \E local : /\ Step(u, "look", local) /\ local.batch = b
                          /\ batches[b].status = "preview"
                          /\ items[b] = <<>> => before'[b] = stock
    <3>1. batches[b].file \in Seq(Cards)
      BY DEF UndoInv, ImportShape, ImportTypeOK
    <3> QED  BY <2>2, <3>1, NoLoadType DEF CommitPreview, UndoInv, ImportShape, ImportTypeOK
  <2>3. ASSUME ReadBatch(u, b)
        PROVE  \E local : /\ Step(u, "undo", local) /\ local.batch = b
                          /\ local.undo = Reverse(items[b])
    <3> DEFINE local == [NoLoad EXCEPT !.batch = b, !.undo = Reverse(items[b])]
    <3>1. Step(u, "undo", local)
      BY <2>3 DEF ReadBatch
    <3>2. local.batch = b /\ local.undo = Reverse(items[b])
      BY DEF NoLoad
    <3> HIDE DEF local
    <3> QED  BY <3>1, <3>2
  <2> QED  BY <2>1, <2>2, <2>3
<1>4. /\ Alone' /\ ipc'[u] = place /\ load'[u] = local
      /\ \A v \in Movers : Busy(v)' /\ (load[v].batch)' \notin blurred' => v = u
      /\ b \notin blurred' => ~At(b)
      /\ \A c : ~At(c)' => c # b /\ ~At(c)
  <2>1. place # "idle"
    BY <1>3
  <2> QED  BY <1>2, <1>3, <2>1, Joins
<1>5. OnTheWay'
  <2> SUFFICES ASSUME NEW v \in Movers, Busy(v)', (load[v].batch)' \notin blurred'
               PROVE  OnTrack(v)'
    BY DEF OnTheWay
  <2>1. v = u /\ b \notin blurred' /\ load'[u].batch = b
    BY <1>3, <1>4
  <2>2. Rests(b)
    BY <1>2, <1>4, <2>1 DEF UndoInv, Resting
  <2>3. CASE place = "look"
    <3>1. items[b] = <<>> /\ before'[b] = stock
      BY <1>3, <2>2, <2>3 DEF Rests
    <3>2. Trail(stock, <<>>, stock)
      BY <1>1, TrailStarts
    <3>3. Trail(before[b], items[b], stock)'
      BY <1>2, <3>1, <3>2
    <3> QED  BY <1>4, <2>1, <2>3, <3>3 DEF OnTrack
  <2>4. CASE place = "undo"
    <3>1. ReadBatch(u, b) /\ batches[b].status = "applied" /\ stock = after[b]
          /\ before' = before
      BY <1>3, <2>1, <2>4 DEF ReadBatch
    <3>2. Trail(before[b], items[b], stock)
      BY <2>2, <3>1 DEF Rests
    <3>3. WayBack(stock, Reverse(items[b]), before[b])
      BY <1>1, <3>2, TrailTurned
    <3>4. WayBack(stock, load[u].undo, before[load[u].batch])'
      BY <1>2, <1>3, <1>4, <2>1, <2>4, <3>1, <3>3
    <3> QED  BY <1>4, <2>1, <2>4, <3>4 DEF OnTrack
  <2> QED  BY <1>3, <2>3, <2>4
<1>6. Resting'
  <2> SUFFICES ASSUME NEW c \in Batches, c \notin blurred', ~At(c)' PROVE Rests(c)'
    BY DEF Resting
  <2>1. c # b /\ Rests(c)
    BY <1>2, <1>4 DEF UndoInv, Resting
  <2>2. before'[c] = before[c] /\ batches'[c] = batches[c]
    BY <1>2, <2>1
  <2> QED  BY <1>2, <2>1, <2>2 DEF Rests
<1> QED  BY <1>1, <1>4, <1>5, <1>6 DEF UndoInv

\* An import or an undo ends.
LEMMA TrailEnds ==
    ASSUME UndoInv, NEW u \in Movers, FinishImport(u) \/ MarkUndone(u) \/ ImportStops(u)
    PROVE  UndoInv'
<1> DEFINE b == load[u].batch
<1>1. ImportShape /\ ImportShape' /\ Busy(u) /\ b \in Batches /\ batches[b].status # "none"
  <2>1. ImportShape'
    BY ImportShapeStep DEF UndoInv, ImportNext, MoverNext
  <2> QED  BY <2>1 DEF UndoInv, ImportShape, Sound, Busy, FinishImport, MarkUndone, ImportStops,
                       AtStep
<1>2. /\ Step(u, "idle", NoLoad) /\ UNCHANGED <<stock, items, before>>
      /\ blurred \subseteq blurred'
      /\ \A c \in Batches : c # b => after'[c] = after[c] /\ batches'[c] = batches[c]
  BY DEF FinishImport, MarkUndone, ImportStops, past, UndoInv, ImportShape, ImportTypeOK
<1>3. /\ Alone'
      /\ \A v \in Movers : ~(Busy(v)' /\ (load[v].batch)' \notin blurred')
      /\ \A c : ~At(c)' /\ c # b => ~At(c)
  BY <1>1, <1>2, Leaves
<1>4. OnTheWay'
  BY <1>3 DEF OnTheWay
<1>5. Resting'
  <2> SUFFICES ASSUME NEW c \in Batches, c \notin blurred', ~At(c)' PROVE Rests(c)'
    BY DEF Resting
  <2>1. CASE c # b
    <3>1. Rests(c) /\ after'[c] = after[c] /\ batches'[c] = batches[c]
      BY <1>2, <1>3, <2>1 DEF UndoInv, Resting
    <3> QED  BY <1>2, <3>1 DEF Rests
  <2>2. CASE c = b /\ FinishImport(u)
    <3>1. after'[b] = stock /\ batches'[b].status \notin {"none", "preview"}
      BY <1>1, <2>2 DEF FinishImport, ImportShape, ImportTypeOK
    <3>2. ipc[u] = "look" /\ b \notin blurred
      BY <1>2, <2>2 DEF FinishImport, AtStep
    <3>3. Trail(before[b], items[b], stock)
      BY <1>1, <3>2 DEF UndoInv, OnTheWay, OnTrack
    <3>4. before'[c] = before[b] /\ items'[c] = items[b] /\ after'[c] = stock
          /\ batches'[c].status \notin {"none", "preview"}
      BY <1>2, <2>2, <3>1
    <3> QED  BY <3>3, <3>4 DEF Rests
  <2>3. CASE c = b /\ MarkUndone(u)
    <3>1. batches'[c].status = "undone"
      BY <1>1, <2>3 DEF MarkUndone, ImportShape, ImportTypeOK
    <3> QED  BY <3>1 DEF Rests
  <2>4. CASE c = b /\ ImportStops(u)
    BY <2>4 DEF ImportStops
  <2> QED  BY <2>1, <2>2, <2>3, <2>4
<1> QED  BY <1>1, <1>3, <1>4, <1>5 DEF UndoInv

\* A request stays on track while nothing it has to do with changes.
LEMMA TrackKept ==
    ASSUME NEW v \in Movers, OnTrack(v), UNCHANGED <<ipc, load, stock, items>>,
           before'[load[v].batch] = before[load[v].batch],
           batches'[load[v].batch] = batches[load[v].batch]
    PROVE  OnTrack(v)'
<1> DEFINE a == load[v].batch
<1>1. Match(load[v].file[1], batches[a].merge)' = Match(load[v].file[1], batches[a].merge)
  BY MatchKept
<1>2. Earlier(Match(load[v].file[1], batches[a].merge))'
          = Earlier(Match(load[v].file[1], batches[a].merge))
  BY <1>1 DEF Earlier
<1>3. Earlier(load[v].hit)' = Earlier(load[v].hit)
  BY DEF Earlier
<1> QED  BY <1>2, <1>3 DEF OnTrack

LEMMA UndoInvStep == UndoInv /\ [ImportNext]_importVars => UndoInv'
<1> SUFFICES ASSUME UndoInv, [ImportNext]_importVars PROVE UndoInv'
  OBVIOUS
<1>0. ImportShape'
  BY ImportShapeStep DEF UndoInv
<1>1. ASSUME NEW u \in Movers, NEW b \in Batches, NEW file \in Files, NEW merge \in BOOLEAN,
             CreateBatch(u, b, file, merge, "preview")
      PROVE  UndoInv'
  <2>1. /\ UNCHANGED <<ipc, load, blurred, stock, items, after>> /\ batches[b].status = "none"
        /\ batches'[b].status = "preview"
        /\ \A c \in Batches : c # b => before'[c] = before[c] /\ batches'[c] = batches[c]
    BY <1>1 DEF CreateBatch, atDesk, UndoInv, ImportShape, ImportTypeOK
  <2>2. Alone' /\ \A c : At(c)' <=> At(c)
    BY <2>1 DEF UndoInv, Alone, At, Busy
  <2>3. OnTheWay'
    <3> SUFFICES ASSUME NEW v \in Movers, Busy(v)', (load[v].batch)' \notin blurred'
                 PROVE  OnTrack(v)'
      BY DEF OnTheWay
    <3> DEFINE a == load[v].batch
    <3>1. Busy(v) /\ OnTrack(v)
      BY <2>1 DEF UndoInv, OnTheWay, Busy
    <3>2. a \in Batches /\ a # b
      BY <2>1, <3>1 DEF UndoInv, ImportShape, Sound
    <3>3. before'[a] = before[a] /\ batches'[a] = batches[a]
      BY <2>1, <3>2
    <3> QED  BY <2>1, <3>1, <3>3, TrackKept
  <2>4. Resting'
    <3> SUFFICES ASSUME NEW c \in Batches, c \notin blurred', ~At(c)' PROVE Rests(c)'
      BY DEF Resting
    <3>1. Rests(c)
      BY <2>1, <2>2 DEF UndoInv, Resting
    <3>2. CASE c = b
      BY <2>1, <3>1, <3>2 DEF Rests
    <3>3. CASE c # b
      <4>1. before'[c] = before[c] /\ batches'[c] = batches[c]
        BY <2>1, <3>3
      <4> QED  BY <2>1, <3>1, <4>1 DEF Rests
    <3> QED  BY <3>2, <3>3
  <2> QED  BY <1>0, <2>2, <2>3, <2>4 DEF UndoInv
<1>2. ASSUME NEW u \in Movers, NEW b \in Batches,
             \/ \E file \in Files, merge \in BOOLEAN : CreateBatch(u, b, file, merge, "applied")
             \/ CommitPreview(u, b) \/ ReadBatch(u, b)
      PROVE  UndoInv'
  BY <1>2, TrailBegins
<1>3. ASSUME NEW u \in Movers,
             \/ LookForRow(u) \/ MatchRow(u) \/ WriteRow(u) \/ KeepItem(u) \/ UndoItem(u)
             \/ FinishImport(u) \/ MarkUndone(u) \/ ImportStops(u)
      PROVE  UndoInv'
  BY <1>3, TrailKept, TrailWritten, TrailRecorded, WayTaken, TrailEnds
<1>4. ASSUME NEW r \in RowIds, NEW many \in 0..MaxCopies, EditRow(r, many) PROVE UndoInv'
  <2>1. /\ UNCHANGED <<ipc, load, batches, items, before, after>> /\ blurred \subseteq blurred'
        /\ \A v \in Movers : Busy(v) => load[v].batch \in blurred'
    BY <1>4 DEF EditRow, atDesk, AtStep, Busy
  <2>2. Alone' /\ OnTheWay' /\ \A c : At(c)' <=> At(c)
    BY <2>1 DEF Alone, OnTheWay, At, Busy
  <2>3. Resting'
    BY <2>1, <2>2 DEF UndoInv, Resting, Rests
  <2> QED  BY <1>0, <2>2, <2>3 DEF UndoInv
<1>5. CASE UNCHANGED importVars
  <2>1. UNCHANGED <<stock, ipc, load, batches, items, before, after, blurred>>
    BY <1>5 DEF importVars
  <2>2. Alone' /\ \A c : At(c)' <=> At(c)
    BY <2>1 DEF UndoInv, Alone, At, Busy
  <2>3. Resting'
    BY <2>1, <2>2 DEF UndoInv, Resting, Rests
  <2>4. OnTheWay'
    BY <2>1, TrackKept DEF UndoInv, OnTheWay, Busy
  <2> QED  BY <1>0, <2>2, <2>3, <2>4 DEF UndoInv
<1> QED  BY <1>1, <1>2, <1>3, <1>4, <1>5 DEF ImportNext, MoverNext

\* An import that nobody wrote beside is undone exactly: for files of any
\* length, with any rows merged any number of times.
THEOREM UndoRestoresCorrect == ImportSpec => UndoRestores
<1>1. UndoInv /\ [ImportNext]_importVars =>
          [\A u \in Movers :
              AtStep(u, "undo") /\ ipc'[u] = "idle" /\ load[u].undo = <<>>
                  /\ load[u].batch \notin blurred' => stock' = before[load[u].batch]]_importVars
  <2> SUFFICES ASSUME UndoInv, ImportNext, NEW u \in Movers, AtStep(u, "undo"),
                      ipc'[u] = "idle", load[u].undo = <<>>, load[u].batch \notin blurred'
               PROVE  stock' = before[load[u].batch]
    OBVIOUS
  <2>1. ASSUME NEW q \in Movers, NEW place, NEW local, Step(q, place, local)
        PROVE  q = u /\ place = "idle"
    BY <2>1 DEF Step, AtStep, UndoInv, ImportShape, ImportTypeOK
  <2>2. MarkUndone(u)
    <3>1. ASSUME NEW q \in Movers, MoverNext(q) PROVE MarkUndone(u)
      <4>1. ASSUME NEW b \in Batches, NEW file \in Files, NEW merge \in BOOLEAN,
                   NEW phase \in {"preview", "applied"}, CreateBatch(q, b, file, merge, phase)
            PROVE  FALSE
        BY <4>1, <2>1 DEF CreateBatch, AtStep, atDesk
      <4>2. ASSUME NEW b \in Batches, CommitPreview(q, b) \/ ReadBatch(q, b) PROVE FALSE
        BY <4>2, <2>1 DEF CommitPreview, ReadBatch
      <4>3. ASSUME NEW place \in {"match", "write", "keep", "look", "undo"}, NEW local,
                   Step(q, place, local)
            PROVE  FALSE
        BY <4>3, <2>1
      <4>4. ASSUME LookForRow(q) \/ MatchRow(q) \/ WriteRow(q) \/ KeepItem(q) \/ UndoItem(q)
            PROVE  FALSE
        <5>1. CASE LookForRow(q)
          BY <5>1, <4>3 DEF LookForRow
        <5>2. CASE MatchRow(q)
          BY <5>2, <4>3 DEF MatchRow
        <5>3. CASE WriteRow(q)
          BY <5>3, <4>3 DEF WriteRow
        <5>4. CASE KeepItem(q)
          BY <5>4, <4>3 DEF KeepItem
        <5>5. CASE UndoItem(q)
          BY <5>5, <4>3 DEF UndoItem
        <5> QED  BY <4>4, <5>1, <5>2, <5>3, <5>4, <5>5
      <4>5. CASE FinishImport(q)
        BY <4>5, <2>1 DEF FinishImport, AtStep
      <4>6. CASE ImportStops(q)
        BY <4>6, <2>1 DEF ImportStops
      <4>7. CASE MarkUndone(q)
        BY <4>7, <2>1 DEF MarkUndone
      <4> QED  BY <3>1, <4>1, <4>2, <4>3, <4>4, <4>5, <4>6, <4>7 DEF MoverNext
    <3>2. ASSUME NEW r \in RowIds, NEW many \in 0..MaxCopies, EditRow(r, many)
          PROVE  FALSE
      BY <3>2 DEF EditRow, atDesk, AtStep
    <3> QED  BY <3>1, <3>2 DEF ImportNext
  <2>3. stock' = stock /\ blurred' = blurred
    BY <2>2 DEF MarkUndone, past
  <2>4. OnTrack(u)
    BY <2>3 DEF UndoInv, OnTheWay, Busy, AtStep
  <2>5. WayBack(stock, <<>>, before[load[u].batch])
    BY <2>4 DEF OnTrack, AtStep
  <2> QED  BY <2>3, <2>5, WayEnds
<1> QED  BY <1>1, UndoInvInit, UndoInvStep, PTL DEF ImportSpec, UndoRestores

-----------------------------------------------------------------------------
(* Decks: typing.                                                          *)

\* Rows and entries are finitely many; the lesser of two numbers is one.
LEMMA DeckBasics ==
    /\ IsFiniteSet(CardRows) /\ IsFiniteSet(EntryIds)
    /\ \A m, n \in Nat : Lesser(m, n) \in Nat /\ Lesser(m, n) <= m /\ Lesser(m, n) <= n
    /\ \A f, S : SumOver(f, S) = Sum(f, S)
<1>1. IsFiniteSet(CardRows) /\ IsFiniteSet(EntryIds)
  BY DecksAssumption, FS_Interval DEF CardRows, EntryIds
<1>2. \A f, S : SumOver(f, S) = Sum(f, S)
  BY DEF SumOver, Sum
<1> QED  BY <1>1, <1>2 DEF Lesser

\* The sum of numbers of rows is a number, no less than any of them.
LEMMA RowSums ==
    ASSUME NEW f \in [CardRows -> Nat], NEW S \in SUBSET CardRows
    PROVE  SumOver(f, S) \in Nat /\ \A r \in S : f[r] <= SumOver(f, S)
<1>1. IsFiniteSet(S)
  BY DeckBasics, FS_Subset
<1>2. \A r \in S : f[r] \in Nat
  OBVIOUS
<1> QED  BY <1>1, <1>2, DeckBasics, SumNat, SumAtLeast

LEMMA ClearType == Clear \in Desk /\ Clear.op = "none" /\ NoEntry \in Entry
                   /\ NoEntry.deck = NoDeck
BY DecksAssumption DEF Clear, Desk, Empty, CardRows, NoEntry, Entry

\* What a request is about to write stays, but for the mark that it is old.
LEMMA OutdatedType ==
    ASSUME DecksTypeOK, NEW h \in Hands, NEW W
    PROVE  \E b \in BOOLEAN :
             /\ b <=> desk[h].stale \/ (desk[h].op = "merge" /\ \E r \in W : desk[h].snap[r] > 0)
             /\ Outdated(h, W) = [desk[h] EXCEPT !.stale = b]
             /\ Outdated(h, W) \in Desk
<1>1. desk[h] \in Desk /\ desk[h].stale \in BOOLEAN
  BY DEF DecksTypeOK, Desk
<1>2. PICK b \in BOOLEAN :
          b = (desk[h].stale \/ (desk[h].op = "merge" /\ \E r \in W : desk[h].snap[r] > 0))
  BY <1>1
<1>3. Outdated(h, W) = [desk[h] EXCEPT !.stale = b]
  BY <1>2, Zenon DEF Outdated
<1>4. [desk[h] EXCEPT !.stale = b] \in Desk
  BY <1>1 DEF Desk
<1> QED  BY <1>2, <1>3, <1>4

LEMMA DesksType ==
    ASSUME DecksTypeOK, NEW h, NEW W, DeskAfter(W) \/ Served(h, W)
    PROVE  desk' \in [Hands -> Desk]
<1>1. \A q \in Hands : Outdated(q, W) \in Desk
  BY OutdatedType
<1> QED  BY <1>1, ClearType DEF DeskAfter, Served

\* Entries with another number, or another row as well.
LEMMA EntryTypes ==
    ASSUME NEW n \in Nat, NEW x \in Entry
    PROVE  /\ [x EXCEPT !.qty = n] \in Entry
           /\ [x EXCEPT !.qty = n] = [deck |-> x.deck, row |-> x.row, qty |-> n]
           /\ \A r \in 0..MaxCardRows :
                /\ [x EXCEPT !.row = r, !.qty = n] \in Entry
                /\ [x EXCEPT !.row = r, !.qty = n] = [deck |-> x.deck, row |-> r, qty |-> n]
<1>1. PICK d \in Decks \cup {NoDeck}, q \in 0..MaxCardRows, m \in Nat :
          x = [deck |-> d, row |-> q, qty |-> m]
  BY DEF Entry
<1>2. ASSUME NEW r \in 0..MaxCardRows
      PROVE  [x EXCEPT !.row = r, !.qty = n] = [deck |-> x.deck, row |-> r, qty |-> n]
  <2>1. PICK y : y = [x EXCEPT !.row = r]
    OBVIOUS
  <2>2. y = [deck |-> d, row |-> r, qty |-> m]
    BY <1>1, <2>1
  <2>3. [y EXCEPT !.qty = n] = [deck |-> x.deck, row |-> r, qty |-> n]
    BY <1>1, <2>2
  <2> QED  BY <2>1, <2>3, Zenon
<1>3. [x EXCEPT !.qty = n] = [deck |-> x.deck, row |-> x.row, qty |-> n]
  BY <1>1
<1>4. \A r \in 0..MaxCardRows : [deck |-> x.deck, row |-> r, qty |-> n] \in Entry
  BY <1>1 DEF Entry
<1>5. x.row \in 0..MaxCardRows
  BY <1>1
<1> HIDE DEF Entry
<1> QED  BY <1>2, <1>3, <1>4, <1>5

\* A number of copies is written to a deck's entry for a row, the old or a new one.
LEMMA UpsertedType ==
    ASSUME DecksTypeOK, NEW d \in Decks, NEW r \in CardRows, NEW n \in Nat, Upsert(d, r)
    PROVE  /\ Upserted(d, r, n) \in [EntryIds -> Entry]
           /\ lastEntry' \in 0..MaxEntries /\ lastEntry <= lastEntry'
           /\ \A e \in EntryIds :
                \/ Upserted(d, r, n)[e] = entries[e]
                \/ /\ Upserted(d, r, n)[e] = [deck |-> d, row |-> r, qty |-> n]
                   /\ \/ e = lastEntry + 1 /\ e <= lastEntry'
                      \/ entries[e].deck = d /\ entries[e].row = r
<1> DEFINE known == InDeck(d, {r})
           new   == [deck |-> d, row |-> r, qty |-> n]
<1>1. /\ entries \in [EntryIds -> Entry] /\ lastEntry \in 0..MaxEntries /\ r \in 0..MaxCardRows
      /\ MaxEntries \in Nat
  BY DecksAssumption DEF DecksTypeOK, CardRows
<1>2. new \in Entry /\ \A e \in EntryIds : [entries[e] EXCEPT !.qty = n] \in Entry
  <2>1. new \in Entry
    BY <1>1 DEF Entry
  <2>2. \A e \in EntryIds : entries[e] \in Entry
    BY <1>1
  <2>3. ASSUME NEW e \in EntryIds PROVE [entries[e] EXCEPT !.qty = n] \in Entry
    BY <2>2, EntryTypes
  <2> QED  BY <2>1, <2>3
<1>3. CASE known = {}
  <2>1. Upserted(d, r, n) = [entries EXCEPT ![lastEntry + 1] = new]
    BY <1>3 DEF Upserted
  <2>2. lastEntry' = lastEntry + 1 /\ lastEntry + 1 \in EntryIds
    BY <1>1, <1>3 DEF Upsert, EntryIds
  <2> HIDE DEF new
  <2>3. Upserted(d, r, n) \in [EntryIds -> Entry]
    BY <1>1, <1>2, <2>1, <2>2
  <2>4. \A e \in EntryIds : Upserted(d, r, n)[e] = IF e = lastEntry + 1 THEN new ELSE entries[e]
    BY <1>1, <2>1, <2>2
  <2>5. lastEntry' \in 0..MaxEntries /\ lastEntry <= lastEntry'
    BY <1>1, <2>2 DEF EntryIds
  <2> QED  BY <2>2, <2>3, <2>4, <2>5 DEF new
<1>4. CASE known # {}
  <2>1. Upserted(d, r, n)
            = [e \in EntryIds |-> IF e \in known THEN [entries[e] EXCEPT !.qty = n] ELSE entries[e]]
    BY <1>4 DEF Upserted
  <2>2. \A e \in known : /\ entries[e].deck = d /\ entries[e].row = r
                         /\ [entries[e] EXCEPT !.qty = n] = new
    <3>1. ASSUME NEW e \in known PROVE [entries[e] EXCEPT !.qty = n] = new
      <4>1. entries[e] \in Entry /\ entries[e].deck = d /\ entries[e].row = r
        BY <1>1 DEF InDeck
      <4> QED  BY <1>1, <4>1, EntryTypes
    <3> QED  BY <3>1 DEF InDeck
  <2>3. lastEntry' = lastEntry
    BY <1>4 DEF Upsert
  <2>4. Upserted(d, r, n) \in [EntryIds -> Entry]
    BY <1>1, <1>2, <2>1
  <2>5. lastEntry' \in 0..MaxEntries /\ lastEntry <= lastEntry'
    BY <1>1, <2>3
  <2>6. \A e \in EntryIds :
           Upserted(d, r, n)[e] = IF e \in known THEN new ELSE entries[e]
    BY <2>1, <2>2
  <2> HIDE DEF known, new
  <2>7. ASSUME NEW e \in EntryIds
        PROVE  \/ Upserted(d, r, n)[e] = entries[e]
               \/ Upserted(d, r, n)[e] = new /\ entries[e].deck = d /\ entries[e].row = r
    BY <2>2, <2>6
  <2> QED  BY <2>4, <2>5, <2>7 DEF new
<1> QED  BY <1>3, <1>4

LEMMA EmptyType == Empty \in [CardRows -> Nat]
BY DEF Empty

\* What requests are about to write, as they have read it.
LEMMA AddOrder ==
    ASSUME DecksTypeOK, NEW h \in Hands, NEW d \in Decks, NEW r \in CardRows, NEW n \in Nat,
           NEW adjust \in BOOLEAN, LookToAdd(h, d, r, n, adjust)
    PROVE  \E w \in Desk :
             /\ desk[h].op = "none" /\ desk' = [desk EXCEPT ![h] = w]
             /\ w.op = "add" /\ w.deck = d /\ w.row = r /\ w.qty <= copies[r]
<1> DEFINE qty  == Lesser(n, copies[r])
           rest == Lesser(offered[r], copies[r] - qty)
<1>1. copies[r] \in Nat /\ offered[r] \in Nat /\ r \in 0..MaxCardRows
  BY DecksAssumption DEF DecksTypeOK, CardRows
<1>2. qty \in Nat /\ qty <= copies[r]
  BY <1>1, DeckBasics
<1>3. PICK q \in Nat : q = qty /\ q <= copies[r]
  BY <1>2
<1>4. PICK left \in Nat : left = rest
  <2>1. copies[r] - q \in Nat
    BY <1>1, <1>3
  <2> QED  BY <1>1, <1>3, <2>1, DeckBasics
<1>5. PICK b \in BOOLEAN : b = (adjust /\ rest # offered[r])
  OBVIOUS
<1>w. PICK w : w = [Clear EXCEPT !.op = "add", !.deck = d, !.row = r, !.qty = q,
                                 !.left = left, !.moves = b]
  OBVIOUS
<1>6. desk[h].op = "none" /\ desk' = [desk EXCEPT ![h] = w]
  BY <1>3, <1>4, <1>5, <1>w, Zenon DEF LookToAdd, Asks
<1>7. w = [op |-> "add", snap |-> Empty, offers |-> Empty, stale |-> FALSE, entry |-> 0,
                 deck |-> d, source |-> NoDeck, row |-> r, qty |-> q, left |-> left,
                 moves |-> b]
  BY <1>w DEF Clear
<1>8. w \in Desk
  BY <1>1, <1>7, DecksAssumption, EmptyType DEF Desk
<1> QED  BY <1>3, <1>6, <1>7, <1>8

LEMMA TransferOrder ==
    ASSUME DecksTypeOK, NEW h \in Hands, NEW e \in EntryIds, NEW d \in Decks, NEW n \in Nat,
           NEW moves \in BOOLEAN, entries[e].row \in CardRows, LookToTransfer(h, e, d, n, moves)
    PROVE  \E w \in Desk :
             /\ entries[e] # NoEntry /\ d # entries[e].deck
             /\ desk[h].op = "none" /\ desk' = [desk EXCEPT ![h] = w]
             /\ w.op = "transfer" /\ w.deck = d /\ w.row = entries[e].row /\ w.entry = e
             /\ w.source = entries[e].deck
             /\ w.qty <= copies[w.row] /\ w.left <= entries[e].qty
<1> DEFINE x   == entries[e]
           qty == Lesser(n, Lesser(x.qty, copies[x.row]))
<1>1. /\ x \in Entry /\ x.qty \in Nat /\ x.deck \in Decks \cup {NoDeck} /\ copies[x.row] \in Nat
      /\ x.row \in 0..MaxCardRows /\ e \in 0..MaxEntries
  BY DecksAssumption DEF DecksTypeOK, Entry, EntryIds
<1>2. /\ Lesser(x.qty, copies[x.row]) \in Nat /\ Lesser(x.qty, copies[x.row]) <= x.qty
      /\ Lesser(x.qty, copies[x.row]) <= copies[x.row]
  BY <1>1, DeckBasics
<1>3. PICK q \in Nat : q = qty /\ q <= copies[x.row] /\ q <= x.qty
  <2>1. qty \in Nat /\ qty <= Lesser(x.qty, copies[x.row])
    BY <1>2, DeckBasics
  <2> QED  BY <1>1, <1>2, <2>1
<1>4. PICK left \in Nat : left = x.qty - q /\ left <= x.qty
  BY <1>1, <1>3
<1>5. PICK y : y = x
  OBVIOUS
<1>w. PICK w : w = [Clear EXCEPT !.op = "transfer", !.entry = e, !.deck = d,
                                 !.source = y.deck, !.row = y.row, !.qty = q, !.left = left,
                                 !.moves = moves]
  OBVIOUS
<1>6. x # NoEntry /\ d # x.deck /\ desk[h].op = "none" /\ desk' = [desk EXCEPT ![h] = w]
  BY <1>3, <1>4, <1>5, <1>w, Zenon DEF LookToTransfer, Asks
<1>7. w = [op |-> "transfer", snap |-> Empty, offers |-> Empty, stale |-> FALSE, entry |-> e,
                 deck |-> d, source |-> y.deck, row |-> y.row, qty |-> q, left |-> left,
                 moves |-> moves]
  BY <1>w DEF Clear
<1>8. w \in Desk
  BY <1>1, <1>5, <1>7, DecksAssumption, EmptyType DEF Desk
<1> QED  BY <1>3, <1>4, <1>5, <1>6, <1>7, <1>8

LEMMA SetOrder ==
    ASSUME DecksTypeOK, NEW h \in Hands, NEW e \in EntryIds, NEW n \in Nat,
           entries[e].row \in CardRows, LookToSet(h, e, n)
    PROVE  \E w \in Desk :
             /\ entries[e] # NoEntry /\ desk[h].op = "none" /\ desk' = [desk EXCEPT ![h] = w]
             /\ w.op = "set" /\ w.entry = e /\ w.qty <= copies[entries[e].row]
<1>1. copies[entries[e].row] \in Nat /\ e \in 0..MaxEntries
  BY DecksAssumption DEF DecksTypeOK, EntryIds
<1>2. PICK q \in Nat : q = Lesser(n, copies[entries[e].row]) /\ q <= copies[entries[e].row]
  BY <1>1, DeckBasics
<1>w. PICK w : w = [Clear EXCEPT !.op = "set", !.entry = e, !.qty = q]
  OBVIOUS
<1>3. entries[e] # NoEntry /\ desk[h].op = "none" /\ desk' = [desk EXCEPT ![h] = w]
  BY <1>2, <1>w, Zenon DEF LookToSet, Asks
<1>4. w = [op |-> "set", snap |-> Empty, offers |-> Empty, stale |-> FALSE, entry |-> e,
                 deck |-> NoDeck, source |-> NoDeck, row |-> 0, qty |-> q, left |-> 0,
                 moves |-> FALSE]
  BY <1>w DEF Clear
<1>5. w \in Desk
  BY <1>1, <1>4, DecksAssumption, EmptyType DEF Desk
<1> QED  BY <1>2, <1>3, <1>4, <1>5

LEMMA MergeOrder ==
    ASSUME DecksTypeOK, NEW h \in Hands, LookForDuplicates(h)
    PROVE  \E w \in Desk :
             /\ desk[h].op = "none" /\ desk' = [desk EXCEPT ![h] = w]
             /\ w.op = "merge" /\ w.snap = copies /\ w.offers = offered
<1>1. PICK w : w = [Clear EXCEPT !.op = "merge", !.snap = copies, !.offers = offered]
  OBVIOUS
<1>2. desk[h].op = "none" /\ desk' = [desk EXCEPT ![h] = w]
  BY <1>1, Zenon DEF LookForDuplicates, Asks
<1>3. w = [op |-> "merge", snap |-> copies, offers |-> offered, stale |-> FALSE, entry |-> 0,
           deck |-> NoDeck, source |-> NoDeck, row |-> 0, qty |-> 0, left |-> 0,
           moves |-> FALSE]
  BY <1>1 DEF Clear
<1>4. w \in Desk
  BY <1>3, DecksAssumption DEF DecksTypeOK, Desk
<1> QED  BY <1>2, <1>3, <1>4

-----------------------------------------------------------------------------
(* Decks: the invariant.                                                   *)

\* This many copies of the row may be promised: there are as many, unless the
\* row was lowered or is gone.
Covered(r, n) == Owned(r) => n <= copies[r] \/ r \in shrunk
\* Entries and trade items name rows that exist.
RowsSound == \A r \in CardRows : Owned(r) => r <= lastRow
EntriesSound ==
    \A e \in EntryIds : entries[e] # NoEntry =>
        /\ e <= lastEntry /\ entries[e].deck \in Decks
        /\ entries[e].row \in CardRows /\ Owned(entries[e].row)
PledgesSound == \A p \in Pledges : pledge[p] # 0 => Owned(pledge[p])
\* What a request is about to write to an entry it has read.
Promise(w) == IF w.op = "set" THEN w.qty ELSE w.left
\* What a request is about to write is no more than may be promised, whatever
\* was done to the row or the entry since; a merge not marked as old has read
\* what is there.
OrderSound(w) ==
    /\ w.op = "merge" =>
         /\ \E r \in CardRows : w.snap[r] > 0
         /\ \A r \in CardRows : w.snap[r] > 0 =>
              /\ r <= lastRow
              /\ ~w.stale => w.snap[r] = copies[r] /\ w.offers[r] = offered[r]
    /\ w.op \in {"add", "transfer"} =>
         /\ w.deck \in Decks /\ w.row \in CardRows /\ w.row <= lastRow
         /\ Covered(w.row, w.qty)
    /\ w.op \in {"transfer", "set"} =>
         /\ w.entry \in EntryIds /\ w.entry <= lastEntry
         /\ entries[w.entry] # NoEntry => Covered(entries[w.entry].row, Promise(w))
    /\ w.op = "transfer" => w.source \in Decks /\ w.source # w.deck
DeckInv ==
    /\ DecksTypeOK /\ RowsSound /\ EntriesSound /\ PledgesSound /\ DeckWithinOwned
    /\ \A h \in Hands : OrderSound(desk[h])

\* A step neither revives a row nor breaks a promise about one...
RowFate ==
    /\ lastRow <= lastRow'
    /\ \A r \in CardRows, n \in Nat : r <= lastRow /\ Covered(r, n) => Covered(r, n)'
\* ...nor one about an entry, which keeps its row or gets another.
EntryFate ==
    /\ lastEntry <= lastEntry'
    /\ \A e \in EntryIds : e <= lastEntry /\ entries'[e] # NoEntry =>
         /\ entries[e] # NoEntry
         /\ \A n \in Nat : Covered(entries[e].row, n) => Covered(entries[e].row, n)'
\* Only these rows are written, and those that appear.
Writes(W) ==
    \A r \in CardRows \ W : r <= lastRow => copies'[r] = copies[r] /\ offered'[r] = offered[r]
EntriesFine ==
    \A e \in EntryIds : entries'[e] # NoEntry =>
        /\ e <= lastEntry' /\ entries'[e].deck \in Decks
        /\ entries'[e].row \in CardRows
        /\ copies'[entries'[e].row] > 0
        /\ \/ entries'[e].qty <= copies'[entries'[e].row]
           \/ entries'[e].row \in shrunk'

\* What a request is about to write stays sound.
LEMMA OrderKept ==
    ASSUME DeckInv, DecksTypeOK', RowFate, EntryFate, NEW h \in Hands, NEW w \in Desk,
           \A f \in {"op", "snap", "offers", "entry", "deck", "source", "row", "qty", "left"} :
               w[f] = desk[h][f],
           w.op = "merge" /\ ~w.stale =>
             /\ ~desk[h].stale
             /\ \A r \in CardRows : w.snap[r] > 0 =>
                  copies'[r] = copies[r] /\ offered'[r] = offered[r]
    PROVE  OrderSound(w)'
<1> DEFINE d == desk[h]
<1>1. OrderSound(d) /\ d \in Desk
  BY DEF DeckInv, DecksTypeOK
<1>2. /\ w.op = d.op /\ w.snap = d.snap /\ w.offers = d.offers /\ w.entry = d.entry
      /\ w.deck = d.deck /\ w.source = d.source /\ w.row = d.row /\ w.qty = d.qty
      /\ w.left = d.left
  BY DEF Desk
<1>3. Promise(w) = Promise(d) /\ Promise(d) \in Nat /\ w.qty \in Nat
  BY <1>1, <1>2 DEF Promise, Desk
<1>4. /\ lastRow \in Nat /\ lastRow' \in Nat /\ lastRow <= lastRow'
      /\ lastEntry \in Nat /\ lastEntry' \in Nat /\ lastEntry <= lastEntry'
  BY DecksAssumption DEF DeckInv, DecksTypeOK, RowFate, EntryFate
<1>5. ASSUME w.op = "merge"
      PROVE  /\ \E r \in CardRows : w.snap[r] > 0
             /\ \A r \in CardRows : w.snap[r] > 0 =>
                  /\ r <= lastRow'
                  /\ ~w.stale => w.snap[r] = copies'[r] /\ w.offers[r] = offered'[r]
  BY <1>1, <1>2, <1>4, <1>5 DEF OrderSound, CardRows
<1>6. ASSUME w.op \in {"add", "transfer"}
      PROVE  /\ w.deck \in Decks /\ w.row \in CardRows /\ w.row <= lastRow'
             /\ Covered(w.row, w.qty)'
  <2>1. d.deck \in Decks /\ d.row \in CardRows /\ d.row <= lastRow /\ Covered(d.row, d.qty)
    BY <1>1, <1>2, <1>6 DEF OrderSound
  <2>2. Covered(w.row, w.qty)'
    BY <1>2, <1>3, <2>1 DEF RowFate
  <2> QED  BY <1>2, <1>4, <2>1, <2>2 DEF CardRows
<1>7. ASSUME w.op \in {"transfer", "set"}
      PROVE  /\ w.entry \in EntryIds /\ w.entry <= lastEntry'
             /\ entries'[w.entry] # NoEntry => Covered(entries[w.entry].row, Promise(w))'
  <2>1. /\ d.entry \in EntryIds /\ d.entry <= lastEntry
        /\ entries[d.entry] # NoEntry => Covered(entries[d.entry].row, Promise(d))
    BY <1>1, <1>2, <1>7 DEF OrderSound
  <2>2. ASSUME entries'[w.entry] # NoEntry PROVE Covered(entries[w.entry].row, Promise(w))'
    <3>1. PICK e \in EntryIds, n \in Nat : e = w.entry /\ n = Promise(w)
      BY <1>2, <1>3, <2>1
    <3>2. Covered(entries[e].row, n) => Covered(entries[e].row, n)'
      BY <1>2, <2>1, <2>2, <3>1 DEF EntryFate
    <3>3. Covered(entries[e].row, n)
      BY <1>2, <1>3, <2>1, <2>2, <3>1 DEF EntryFate
    <3> QED  BY <3>1, <3>2, <3>3
  <2> QED  BY <1>2, <1>4, <2>1, <2>2 DEF EntryIds
<1>8. w.op = "transfer" => w.source \in Decks /\ w.source # w.deck
  BY <1>1, <1>2 DEF OrderSound
<1> QED  BY <1>5, <1>6, <1>7, <1>8 DEF OrderSound

LEMMA DesksKept ==
    ASSUME DeckInv, DecksTypeOK', RowFate, EntryFate, NEW W, Writes(W), NEW h \in Hands,
           desk'[h] = Outdated(h, W) \/ desk'[h] = Clear
    PROVE  OrderSound(desk[h])'
<1>1. CASE desk'[h] = Clear
  <2>1. OrderSound(Clear)'
    BY ClearType DEF OrderSound
  <2> QED  BY <1>1, <2>1
<1>2. CASE desk'[h] = Outdated(h, W)
  <2>1. PICK b \in BOOLEAN :
          /\ b <=> desk[h].stale \/ (desk[h].op = "merge" /\ \E r \in W : desk[h].snap[r] > 0)
          /\ Outdated(h, W) = [desk[h] EXCEPT !.stale = b]
          /\ Outdated(h, W) \in Desk
    BY OutdatedType DEF DeckInv
  <2>2. PICK w \in Desk : w = Outdated(h, W)
    BY <2>1
  <2>3. /\ \A f \in {"op", "snap", "offers", "entry", "deck", "source", "row", "qty", "left"} :
             w[f] = desk[h][f]
        /\ w.stale = b
    BY <2>1, <2>2 DEF DeckInv, DecksTypeOK, Desk
  <2>4. w.op = desk[h].op /\ w.snap = desk[h].snap
    BY <2>3
  <2>5. ASSUME w.op = "merge", ~w.stale
        PROVE  /\ ~desk[h].stale
               /\ \A r \in CardRows : w.snap[r] > 0 =>
                    copies'[r] = copies[r] /\ offered'[r] = offered[r]
    <3>1. ~desk[h].stale /\ \A r \in W : ~(w.snap[r] > 0)
      BY <2>1, <2>3, <2>4, <2>5
    <3>2. \A r \in CardRows : w.snap[r] > 0 => r <= lastRow
      BY <2>4, <2>5 DEF DeckInv, OrderSound
    <3> QED  BY <3>1, <3>2 DEF Writes
  <2>6. OrderSound(w)'
    BY <2>3, <2>5, OrderKept
  <2> QED  BY <1>2, <2>2, <2>6
<1> QED  BY <1>1, <1>2

\* All that a step has to respect.
LEMMA DeckStep ==
    ASSUME DeckInv, DecksTypeOK', RowFate, EntryFate, RowsSound', PledgesSound', EntriesFine,
           NEW W, Writes(W),
           \A h \in Hands : desk'[h] = Outdated(h, W) \/ desk'[h] = Clear
    PROVE  DeckInv'
<1>1. \A h \in Hands : OrderSound(desk[h])'
  BY DesksKept
<1>2. EntriesSound' /\ DeckWithinOwned'
  BY DEF EntriesFine, EntriesSound, DeckWithinOwned, Owned
<1> QED  BY <1>1, <1>2 DEF DeckInv

\* Where the rows keep their copies or are known to have lost some...
LEMMA RowsStay ==
    ASSUME DeckInv, DecksTypeOK', lastRow' = lastRow, shrunk \subseteq shrunk',
           \A r \in CardRows : Owned(r)' =>
               Owned(r) /\ (copies[r] <= copies'[r] \/ r \in shrunk')
    PROVE  RowFate /\ RowsSound'
<1>1. /\ copies \in [CardRows -> Nat] /\ copies' \in [CardRows -> Nat]
      /\ lastRow \in Nat
  BY DecksAssumption DEF DeckInv, DecksTypeOK
<1>2. RowFate
  BY <1>1 DEF RowFate, Covered
<1>3. RowsSound'
  BY DEF DeckInv, RowsSound
<1> QED  BY <1>2, <1>3

\* ...and entries their row or go with it, promises hold.
LEMMA EntriesStay ==
    ASSUME DeckInv, DecksTypeOK', RowFate, lastEntry <= lastEntry',
           \A e \in EntryIds : e <= lastEntry /\ entries'[e] # NoEntry =>
               entries[e] # NoEntry /\ entries'[e].row = entries[e].row
    PROVE  EntryFate
<1> SUFFICES ASSUME NEW e \in EntryIds, e <= lastEntry, entries'[e] # NoEntry, NEW n \in Nat,
                    Covered(entries[e].row, n)
             PROVE  Covered(entries[e].row, n)'
  BY DEF EntryFate
<1>1. PICK r \in CardRows : r = entries[e].row /\ r = entries'[e].row /\ r <= lastRow
  BY DEF DeckInv, EntriesSound, RowsSound
<1>2. Covered(r, n)
  BY <1>1
<1>3. Covered(r, n)'
  BY <1>1, <1>2 DEF RowFate
<1> QED  BY <1>1, <1>3

\* A request has read what it will write, and nothing else happens.
LEMMA AskKept ==
    ASSUME DeckInv, UNCHANGED <<copies, offered, lastRow, entries, lastEntry, pledge, shrunk, changes>>,
           NEW h \in Hands, NEW w \in Desk, desk' = [desk EXCEPT ![h] = w], OrderSound(w)
    PROVE  DeckInv'
<1>1. desk \in [Hands -> Desk]
  BY DEF DeckInv, DecksTypeOK
<1>2. desk' \in [Hands -> Desk] /\ \A q \in Hands : desk'[q] = IF q = h THEN w ELSE desk[q]
  BY <1>1
<1>3. DecksTypeOK' /\ RowsSound' /\ EntriesSound' /\ PledgesSound' /\ DeckWithinOwned'
  BY <1>2 DEF DeckInv, DecksTypeOK, RowsSound, EntriesSound, PledgesSound, DeckWithinOwned, Owned
<1>4. ASSUME NEW q \in Hands PROVE OrderSound(desk[q])'
  <2>1. PICK o : o = desk'[q] /\ OrderSound(o)
    BY <1>2 DEF DeckInv
  <2>2. OrderSound(o)'
    BY <2>1 DEF OrderSound, Covered, Owned
  <2> QED  BY <2>1, <2>2
<1> QED  BY <1>3, <1>4 DEF DeckInv

-----------------------------------------------------------------------------
(* Decks: the steps.                                                       *)

\* What is read in the first half of a request may be promised.
LEMMA LooksStep ==
    ASSUME DeckInv, NEW h \in Hands,
           \/ \E d \in Decks, r \in CardRows, n \in 1..MaxOwned, adjust \in BOOLEAN :
                LookToAdd(h, d, r, n, adjust)
           \/ \E e \in EntryIds, n \in 1..MaxOwned :
                \/ LookToSet(h, e, n)
                \/ \E d \in Decks, moves \in BOOLEAN : LookToTransfer(h, e, d, n, moves)
           \/ LookForDuplicates(h)
    PROVE  DeckInv'
<1>0. DecksTypeOK /\ \A n \in 1..MaxOwned : n \in Nat
  BY DecksAssumption DEF DeckInv
<1>1. UNCHANGED <<copies, offered, lastRow, entries, lastEntry, pledge, shrunk, changes>>
  BY DEF LookToAdd, LookToSet, LookToTransfer, LookForDuplicates
<1>2. ASSUME NEW d \in Decks, NEW r \in CardRows, NEW n \in 1..MaxOwned, NEW adjust \in BOOLEAN,
             LookToAdd(h, d, r, n, adjust)
      PROVE  DeckInv'
  <2>1. PICK w \in Desk : /\ desk' = [desk EXCEPT ![h] = w] /\ w.op = "add" /\ w.deck = d
                          /\ w.row = r /\ w.qty <= copies[r]
    BY <1>0, <1>2, AddOrder
  <2>2. r <= lastRow
    BY <1>2 DEF DeckInv, RowsSound, LookToAdd
  <2>3. OrderSound(w)
    BY <2>1, <2>2 DEF OrderSound, Covered
  <2> QED  BY <1>1, <2>1, <2>3, AskKept
<1>3. ASSUME NEW e \in EntryIds, entries[e] # NoEntry
      PROVE  /\ e <= lastEntry /\ entries[e].row \in CardRows /\ entries[e].row <= lastRow
             /\ entries[e].deck \in Decks /\ Owned(entries[e].row)
             /\ entries[e].qty <= copies[entries[e].row] \/ entries[e].row \in shrunk
             /\ entries[e].qty \in Nat /\ copies[entries[e].row] \in Nat
  BY <1>3 DEF DeckInv, EntriesSound, RowsSound, DeckWithinOwned, DecksTypeOK, Entry
<1>4. ASSUME NEW e \in EntryIds, NEW n \in 1..MaxOwned, LookToSet(h, e, n)
      PROVE  DeckInv'
  <2>1. entries[e] # NoEntry
    BY <1>4 DEF LookToSet
  <2>2. PICK w \in Desk : /\ desk' = [desk EXCEPT ![h] = w] /\ w.op = "set" /\ w.entry = e
                          /\ w.qty <= copies[entries[e].row]
    BY <1>0, <1>3, <1>4, <2>1, SetOrder
  <2>3. OrderSound(w)
    BY <1>3, <2>1, <2>2 DEF OrderSound, Covered, Promise
  <2> QED  BY <1>1, <2>2, <2>3, AskKept
<1>5. ASSUME NEW e \in EntryIds, NEW n \in 1..MaxOwned, NEW d \in Decks, NEW moves \in BOOLEAN,
             LookToTransfer(h, e, d, n, moves)
      PROVE  DeckInv'
  <2>1. entries[e] # NoEntry
    BY <1>5 DEF LookToTransfer
  <2>2. PICK w \in Desk :
          /\ d # entries[e].deck /\ desk' = [desk EXCEPT ![h] = w]
          /\ w.op = "transfer" /\ w.deck = d /\ w.row = entries[e].row /\ w.entry = e
          /\ w.source = entries[e].deck
          /\ w.qty <= copies[w.row] /\ w.left <= entries[e].qty
    BY <1>0, <1>3, <1>5, <2>1, TransferOrder
  <2>3. w.left \in Nat
    BY DEF Desk
  <2>4. Covered(w.row, w.qty) /\ Covered(w.row, w.left)
    BY <1>3, <2>1, <2>2, <2>3 DEF Covered
  <2>5. OrderSound(w)
    BY <1>3, <2>1, <2>2, <2>4 DEF OrderSound, Promise
  <2> QED  BY <1>1, <2>2, <2>5, AskKept
<1>6. ASSUME LookForDuplicates(h) PROVE DeckInv'
  <2>1. PICK w \in Desk : /\ desk' = [desk EXCEPT ![h] = w] /\ w.op = "merge"
                          /\ w.snap = copies /\ w.offers = offered
    BY <1>0, <1>6, MergeOrder
  <2>2. \E r \in CardRows : Owned(r)
    <3> DEFINE kept == {r \in CardRows : Owned(r)}
    <3>1. Cardinality(kept) >= 2
      BY <1>6 DEF LookForDuplicates
    <3>2. kept # {}
      <4> HIDE DEF kept
      <4> QED  BY <3>1, FS_EmptySet
    <3> QED  BY <3>2
  <2>3. OrderSound(w)
    BY <2>1, <2>2 DEF OrderSound, DeckInv, RowsSound, Owned
  <2> QED  BY <1>1, <2>1, <2>3, AskKept
<1> QED  BY <1>2, <1>4, <1>5, <1>6

\* The owner, imports and trades; trade items.
LEMMA RowsStep ==
    ASSUME DeckInv,
           \/ \E n \in 1..MaxOwned, m \in 0..MaxOwned :
                NewRow(n, m) \/ \E r \in CardRows : EditCopies(r, n, m)
           \/ \E r \in CardRows : RemoveRow(r) \/ \E p \in Pledges : PledgeRow(p, r)
    PROVE  DeckInv'
<1>0. /\ copies \in [CardRows -> Nat] /\ offered \in [CardRows -> Nat]
      /\ entries \in [EntryIds -> Entry] /\ pledge \in [Pledges -> 0..MaxCardRows]
      /\ lastRow \in 0..MaxCardRows /\ MaxCardRows \in Nat /\ MaxOwned \in Nat
      /\ changes \in 0..MaxChanges /\ MaxChanges \in Nat
      /\ shrunk \subseteq CardRows /\ lastEntry \in Nat /\ DecksTypeOK
  BY DecksAssumption DEF DeckInv, DecksTypeOK
<1>1. ASSUME NEW n \in 1..MaxOwned, NEW m \in 0..MaxOwned, NewRow(n, m) PROVE DeckInv'
  <2>1. PICK r \in CardRows : r = lastRow + 1 /\ ~Owned(r)
    BY <1>0, <1>1 DEF NewRow, CardRows, DeckInv, RowsSound
  <2>2. /\ copies' = [copies EXCEPT ![r] = n] /\ offered' = [offered EXCEPT ![r] = m]
        /\ lastRow' = r /\ n \in Nat /\ n > 0 /\ m \in Nat
        /\ UNCHANGED <<entries, lastEntry, pledge, desk, shrunk, changes>>
    BY <1>0, <1>1, <2>1 DEF NewRow
  <2>3. DecksTypeOK'
    <3>1. r \in 0..MaxCardRows
      BY <1>0 DEF CardRows
    <3>2. copies' \in [CardRows -> Nat] /\ offered' \in [CardRows -> Nat]
      BY <1>0, <2>2
    <3> QED  BY <1>0, <2>2, <3>1, <3>2 DEF DecksTypeOK
  <2>4. RowFate /\ RowsSound'
    BY <1>0, <2>1, <2>2 DEF RowFate, RowsSound, Covered, Owned, DeckInv
  <2>5. EntryFate
    BY <1>0, <2>2, <2>3, <2>4, EntriesStay
  <2>6. PledgesSound'
    BY <1>0, <2>1, <2>2 DEF DeckInv, PledgesSound, Owned
  <2>7. EntriesFine
    BY <1>0, <2>1, <2>2 DEF DeckInv, EntriesSound, DeckWithinOwned, EntriesFine, Owned
  <2>8. \A h \in Hands : OrderSound(desk[h])'
    <3> SUFFICES ASSUME NEW h \in Hands PROVE OrderSound(desk[h])'
      OBVIOUS
    <3>1. PICK w \in Desk : w = desk[h] /\ w = desk'[h] /\ OrderSound(w)
      BY <2>2 DEF DeckInv, DecksTypeOK
    <3>2. w.op = "merge" => \A q \in CardRows : w.snap[q] > 0 =>
                              copies'[q] = copies[q] /\ offered'[q] = offered[q]
      BY <1>0, <2>1, <2>2, <3>1 DEF OrderSound
    <3>3. OrderSound(w)'
      BY <2>3, <2>4, <2>5, <3>1, <3>2, OrderKept
    <3> QED  BY <3>1, <3>3
  <2>9. EntriesSound' /\ DeckWithinOwned'
    BY <2>7 DEF EntriesFine, EntriesSound, DeckWithinOwned, Owned
  <2> QED  BY <2>3, <2>4, <2>6, <2>8, <2>9 DEF DeckInv
<1>2. ASSUME NEW n \in 1..MaxOwned, NEW m \in 0..MaxOwned, NEW r \in CardRows,
             EditCopies(r, n, m)
      PROVE  DeckInv'
  <2>1. /\ copies' = [copies EXCEPT ![r] = n] /\ offered' = [offered EXCEPT ![r] = m]
        /\ n \in Nat /\ n > 0 /\ m \in Nat /\ Owned(r) /\ DeskAfter({r})
        /\ shrunk' = IF n < copies[r] THEN shrunk \cup {r} ELSE shrunk
        /\ changes' \in 0..MaxChanges
        /\ UNCHANGED <<lastRow, entries, lastEntry, pledge>>
    BY <1>0, <1>2 DEF EditCopies, Change
  <2>2. DecksTypeOK'
    BY <1>0, <2>1, DesksType DEF DecksTypeOK
  <2>3. RowFate /\ RowsSound'
    BY <1>0, <2>1, <2>2, RowsStay DEF Owned
  <2>4. EntryFate
    BY <1>0, <2>1, <2>2, <2>3, EntriesStay
  <2>5. PledgesSound'
    BY <1>0, <2>1 DEF DeckInv, PledgesSound, Owned
  <2>6. EntriesFine
    <3> SUFFICES ASSUME NEW e \in EntryIds, entries[e] # NoEntry
                 PROVE  /\ e <= lastEntry /\ entries[e].deck \in Decks
                        /\ entries[e].row \in CardRows
                        /\ copies'[entries[e].row] > 0
                        /\ \/ entries[e].qty <= copies'[entries[e].row]
                           \/ entries[e].row \in shrunk'
      BY <2>1 DEF EntriesFine
    <3>1. /\ entries[e].qty \in Nat /\ entries[e].row \in CardRows /\ Owned(entries[e].row)
          /\ e <= lastEntry /\ entries[e].deck \in Decks
          /\ entries[e].qty <= copies[entries[e].row] \/ entries[e].row \in shrunk
      BY <1>0 DEF DeckInv, EntriesSound, DeckWithinOwned, Entry
    <3> QED  BY <1>0, <2>1, <3>1 DEF Owned
  <2>7. Writes({r}) /\ \A h \in Hands : desk'[h] = Outdated(h, {r})
    BY <1>0, <2>1 DEF Writes, DeskAfter
  <2> QED  BY <2>2, <2>3, <2>4, <2>5, <2>6, <2>7, DeckStep
<1>3. ASSUME NEW r \in CardRows, RemoveRow(r) PROVE DeckInv'
  <2>1. /\ copies' = [copies EXCEPT ![r] = 0] /\ offered' = [offered EXCEPT ![r] = 0]
        /\ DeskAfter({r}) /\ changes' \in 0..MaxChanges
        /\ entries' = [e \in EntryIds |-> IF entries[e].row = r THEN NoEntry ELSE entries[e]]
        /\ pledge' = [p \in Pledges |-> IF pledge[p] = r THEN 0 ELSE pledge[p]]
        /\ UNCHANGED <<lastRow, lastEntry, shrunk>>
    BY <1>0, <1>3 DEF RemoveRow, Change, Without, Forgetting
  <2>2. DecksTypeOK'
    <3>1. entries' \in [EntryIds -> Entry] /\ pledge' \in [Pledges -> 0..MaxCardRows]
      BY <1>0, <2>1, ClearType
    <3> QED  BY <1>0, <2>1, <3>1, DesksType DEF DecksTypeOK
  <2>3. RowFate /\ RowsSound'
    BY <1>0, <2>1, <2>2, RowsStay DEF Owned
  <2>4. EntryFate
    BY <1>0, <2>1, <2>2, <2>3, EntriesStay
  <2>5. PledgesSound'
    BY <1>0, <2>1 DEF DeckInv, PledgesSound, Owned, CardRows
  <2>6. EntriesFine
    BY <1>0, <2>1 DEF DeckInv, EntriesSound, DeckWithinOwned, EntriesFine, Owned
  <2>7. Writes({r}) /\ \A h \in Hands : desk'[h] = Outdated(h, {r})
    BY <1>0, <2>1 DEF Writes, DeskAfter
  <2> QED  BY <2>2, <2>3, <2>4, <2>5, <2>6, <2>7, DeckStep
<1>4. ASSUME NEW r \in CardRows, NEW p \in Pledges, PledgeRow(p, r) PROVE DeckInv'
  <2>1. /\ pledge' = [pledge EXCEPT ![p] = r] /\ Owned(r)
        /\ UNCHANGED <<copies, offered, lastRow, entries, lastEntry, desk, shrunk, changes>>
    BY <1>4 DEF PledgeRow
  <2>2. DecksTypeOK'
    <3>1. r \in 0..MaxCardRows
      BY <1>0 DEF CardRows
    <3>2. pledge' \in [Pledges -> 0..MaxCardRows]
      BY <1>0, <2>1, <3>1
    <3> QED  BY <1>0, <2>1, <3>2 DEF DecksTypeOK
  <2>3. PledgesSound'
    BY <1>0, <2>1 DEF DeckInv, PledgesSound, Owned
  <2>4. RowsSound' /\ EntriesSound' /\ DeckWithinOwned'
    BY <2>1 DEF DeckInv, RowsSound, EntriesSound, DeckWithinOwned, Owned
  <2>5. ASSUME NEW h \in Hands PROVE OrderSound(desk[h])'
    BY <2>1 DEF DeckInv, OrderSound, Covered, Owned
  <2> QED  BY <2>2, <2>3, <2>4, <2>5 DEF DeckInv
<1> QED  BY <1>1, <1>2, <1>3, <1>4

\* A promise of copies of a row is kept when it is written to an entry.
LEMMA UpsertKept ==
    ASSUME DeckInv, NEW d \in Decks, NEW r \in CardRows, NEW n \in Nat, Upsert(d, r),
           Owned(r), Covered(r, n)
    PROVE  \A e \in EntryIds :
             LET x == Upserted(d, r, n)[e] IN
             /\ x # NoEntry =>
                  /\ e <= lastEntry' /\ x.deck \in Decks /\ x.row \in CardRows
                  /\ Owned(x.row) /\ (x.qty <= copies[x.row] \/ x.row \in shrunk)
             /\ e <= lastEntry /\ x # NoEntry =>
                  entries[e] # NoEntry /\ x.row = entries[e].row
             /\ e <= lastEntry /\ x # NoEntry /\ x.deck # d => x = entries[e]
<1> DEFINE new == [deck |-> d, row |-> r, qty |-> n]
<1>1. /\ lastEntry' \in 0..MaxEntries /\ lastEntry <= lastEntry'
      /\ \A e \in EntryIds :
           \/ Upserted(d, r, n)[e] = entries[e]
           \/ /\ Upserted(d, r, n)[e] = new
              /\ \/ e = lastEntry + 1 /\ e <= lastEntry'
                 \/ entries[e].deck = d /\ entries[e].row = r
  BY UpsertedType DEF DeckInv
<1>2. new.deck = d /\ new.row = r /\ new.qty = n
  OBVIOUS
<1> HIDE DEF new
<1>3. lastEntry \in Nat /\ d # NoDeck /\ NoEntry.deck = NoDeck /\ lastEntry' \in Nat
  BY <1>1, DecksAssumption, ClearType DEF DeckInv, DecksTypeOK
<1> SUFFICES ASSUME NEW e \in EntryIds
             PROVE  LET x == Upserted(d, r, n)[e] IN
                    /\ x # NoEntry =>
                         /\ e <= lastEntry' /\ x.deck \in Decks /\ x.row \in CardRows
                         /\ Owned(x.row) /\ (x.qty <= copies[x.row] \/ x.row \in shrunk)
                    /\ e <= lastEntry /\ x # NoEntry =>
                         entries[e] # NoEntry /\ x.row = entries[e].row
                    /\ e <= lastEntry /\ x # NoEntry /\ x.deck # d => x = entries[e]
  OBVIOUS
<1>4. PICK x : x = Upserted(d, r, n)[e]
  OBVIOUS
<1>5. CASE x = entries[e]
  BY <1>1, <1>3, <1>4, <1>5 DEF DeckInv, EntriesSound, DeckWithinOwned, EntryIds
<1>6. CASE /\ x = new
           /\ \/ e = lastEntry + 1 /\ e <= lastEntry'
              \/ entries[e].deck = d /\ entries[e].row = r
  <2>1. entries[e].deck = d => entries[e] # NoEntry /\ e <= lastEntry /\ e <= lastEntry'
    BY <1>1, <1>3 DEF DeckInv, EntriesSound, EntryIds
  <2>2. e <= lastEntry' /\ x.deck = d /\ x.row = r /\ x.qty = n
    BY <1>2, <1>6, <2>1
  <2>3. e <= lastEntry => entries[e] # NoEntry /\ entries[e].row = r
    BY <1>3, <1>6, <2>1 DEF EntryIds
  <2> QED  BY <1>4, <2>2, <2>3 DEF Covered
<1> QED  BY <1>1, <1>4, <1>5, <1>6

\* Entries are written, with promises that hold, and what is offered.
LEMMA EntriesWritten ==
    ASSUME DeckInv, DecksTypeOK', UNCHANGED <<copies, lastRow, pledge, shrunk>>,
           lastEntry <= lastEntry', EntriesFine,
           \A e \in EntryIds : e <= lastEntry /\ entries'[e] # NoEntry =>
               entries[e] # NoEntry /\ entries'[e].row = entries[e].row,
           NEW W, \A r \in CardRows \ W : offered'[r] = offered[r],
           \A h \in Hands : desk'[h] = Outdated(h, W) \/ desk'[h] = Clear
    PROVE  DeckInv'
<1>1. copies \in [CardRows -> Nat]
  BY DEF DeckInv, DecksTypeOK
<1>2. RowFate /\ RowsSound'
  BY <1>1, RowsStay DEF Owned
<1>3. EntryFate
  BY <1>2, EntriesStay
<1>4. PledgesSound' /\ Writes(W)
  BY DEF DeckInv, PledgesSound, Owned, Writes
<1> QED  BY <1>2, <1>3, <1>4, DeckStep

LEMMA AddStep == ASSUME DeckInv, NEW h \in Hands, AddToDeck(h) PROVE DeckInv'
<1> DEFINE w == desk[h]
<1>1. /\ DecksTypeOK /\ w \in Desk /\ w.op = "add" /\ w.qty \in Nat /\ w.left \in Nat
      /\ w.deck \in Decks /\ w.row \in CardRows /\ Covered(w.row, w.qty)
      /\ UNCHANGED <<copies, lastRow, pledge, shrunk, changes>>
  BY DEF DeckInv, DecksTypeOK, Desk, OrderSound, AddToDeck
<1>2. PICK W : /\ Served(h, W) /\ offered' \in [CardRows -> Nat]
               /\ \A r \in CardRows \ W : offered'[r] = offered[r]
  <2>1. CASE Owned(w.row)
    <3>1. /\ Served(h, IF w.moves THEN {w.row} ELSE {})
          /\ offered' = IF w.moves THEN [offered EXCEPT ![w.row] = w.left] ELSE offered
      BY <2>1 DEF AddToDeck
    <3>2. offered \in [CardRows -> Nat]
      BY <1>1 DEF DecksTypeOK
    <3>3. CASE w.moves
      <4>1. Served(h, {w.row}) /\ offered' = [offered EXCEPT ![w.row] = w.left]
        BY <3>1, <3>3
      <4> QED  BY <1>1, <3>2, <4>1
    <3>4. CASE ~w.moves
      <4>1. Served(h, {}) /\ offered' = offered
        BY <3>1, <3>4
      <4> QED  BY <3>2, <4>1
    <3> QED  BY <3>3, <3>4
  <2>2. CASE ~Owned(w.row)
    BY <1>1, <2>2 DEF AddToDeck, DecksTypeOK
  <2> QED  BY <2>1, <2>2
<1>3. \A q \in Hands : desk'[q] = Outdated(q, W) \/ desk'[q] = Clear
  BY <1>2 DEF Served
<1>4. desk' \in [Hands -> Desk]
  BY <1>1, <1>2, DesksType
<1>5. CASE Owned(w.row)
  <2>1. Upsert(w.deck, w.row) /\ entries' = Upserted(w.deck, w.row, w.qty)
    BY <1>5 DEF AddToDeck
  <2>2. DecksTypeOK' /\ lastEntry <= lastEntry'
    BY <1>1, <1>2, <1>4, <2>1, UpsertedType DEF DecksTypeOK
  <2>3. /\ EntriesFine
        /\ \A e \in EntryIds : e <= lastEntry /\ entries'[e] # NoEntry =>
               entries[e] # NoEntry /\ entries'[e].row = entries[e].row
    BY <1>1, <1>5, <2>1, UpsertKept DEF EntriesFine, Owned
  <2> QED  BY <1>1, <1>2, <1>3, <2>2, <2>3, EntriesWritten
<1>6. CASE ~Owned(w.row)
  <2>1. UNCHANGED <<entries, lastEntry>>
    BY <1>6 DEF AddToDeck
  <2>2. DecksTypeOK' /\ lastEntry <= lastEntry'
    BY <1>1, <1>2, <1>4, <2>1 DEF DecksTypeOK
  <2>3. EntriesFine
    BY <1>1, <2>1 DEF DeckInv, EntriesSound, DeckWithinOwned, EntriesFine, Owned
  <2> QED  BY <1>1, <1>2, <1>3, <2>1, <2>2, <2>3, EntriesWritten
<1> QED  BY <1>5, <1>6

LEMMA TransferStep == ASSUME DeckInv, NEW h \in Hands, Transfer(h) PROVE DeckInv'
<1> DEFINE w     == desk[h]
           there == Upserted(w.deck, w.row, w.qty)
<1>1. /\ DecksTypeOK /\ w \in Desk /\ w.op = "transfer" /\ w.qty \in Nat /\ w.left \in Nat
      /\ w.deck \in Decks /\ w.row \in CardRows /\ Covered(w.row, w.qty)
      /\ w.entry \in EntryIds /\ w.entry <= lastEntry
      /\ entries[w.entry] # NoEntry => Covered(entries[w.entry].row, w.left)
      /\ w.source \in Decks /\ w.source # w.deck
      /\ UNCHANGED <<copies, offered, lastRow, pledge, shrunk, changes>> /\ Served(h, {})
  BY DEF DeckInv, DecksTypeOK, Desk, OrderSound, Transfer, Promise
<1>2. \A q \in Hands : desk'[q] = Outdated(q, {}) \/ desk'[q] = Clear
  BY <1>1 DEF Served
<1>3. desk' \in [Hands -> Desk]
  BY <1>1, DesksType
<1>4. CASE Owned(w.row)
  <2>1. /\ Upsert(w.deck, w.row)
        /\ entries' = IF ~w.moves \/ there[w.entry].deck # w.source THEN there
                      ELSE [there EXCEPT ![w.entry] =
                              IF w.left = 0 THEN NoEntry ELSE [@ EXCEPT !.qty = w.left]]
    BY <1>4 DEF Transfer
  <2>2. there \in [EntryIds -> Entry] /\ lastEntry' \in 0..MaxEntries /\ lastEntry <= lastEntry'
    BY <1>1, <2>1, UpsertedType
  <2>3. \A e \in EntryIds :
          /\ there[e] # NoEntry =>
               /\ e <= lastEntry' /\ there[e].deck \in Decks /\ there[e].row \in CardRows
               /\ Owned(there[e].row)
               /\ there[e].qty <= copies[there[e].row] \/ there[e].row \in shrunk
          /\ e <= lastEntry /\ there[e] # NoEntry =>
               entries[e] # NoEntry /\ there[e].row = entries[e].row
          /\ e <= lastEntry /\ there[e] # NoEntry /\ there[e].deck # w.deck =>
               there[e] = entries[e]
    BY <1>1, <1>4, <2>1, UpsertKept
  <2> HIDE DEF there
  <2>4. /\ entries' \in [EntryIds -> Entry] /\ EntriesFine
        /\ \A e \in EntryIds : e <= lastEntry /\ entries'[e] # NoEntry =>
               entries[e] # NoEntry /\ entries'[e].row = entries[e].row
    <3>1. CASE entries' = there
      BY <1>1, <2>2, <2>3, <3>1 DEF EntriesFine, Owned
    <3>2. ASSUME entries' # there
          PROVE  /\ there[w.entry].deck = w.source /\ there[w.entry] = entries[w.entry]
                 /\ entries[w.entry] # NoEntry
                 /\ \E x \in Entry :
                      /\ entries' = [there EXCEPT ![w.entry] = x]
                      /\ x = NoEntry \/ x = [there[w.entry] EXCEPT !.qty = w.left]
      <4>1. /\ there[w.entry].deck = w.source
            /\ entries' = [there EXCEPT ![w.entry] =
                             IF w.left = 0 THEN NoEntry ELSE [@ EXCEPT !.qty = w.left]]
        BY <2>1, <3>2
      <4>2. there[w.entry] # NoEntry
        BY <1>1, <4>1, ClearType, DecksAssumption
      <4>3. there[w.entry] = entries[w.entry] /\ entries[w.entry] # NoEntry
        BY <1>1, <2>3, <4>1, <4>2
      <4>4. PICK x \in Entry :
              /\ x = IF w.left = 0 THEN NoEntry ELSE [there[w.entry] EXCEPT !.qty = w.left]
        BY <1>1, <2>2, EntryTypes, ClearType
      <4> QED  BY <1>1, <2>2, <4>1, <4>3, <4>4
    <3>3. ASSUME NEW x \in Entry, entries' # there, entries' = [there EXCEPT ![w.entry] = x],
                 x = NoEntry \/ x = [there[w.entry] EXCEPT !.qty = w.left]
          PROVE  /\ entries' \in [EntryIds -> Entry] /\ EntriesFine
                 /\ \A e \in EntryIds : e <= lastEntry /\ entries'[e] # NoEntry =>
                        entries[e] # NoEntry /\ entries'[e].row = entries[e].row
      <4>1. /\ entries' \in [EntryIds -> Entry] /\ entries'[w.entry] = x
            /\ \A e \in EntryIds \ {w.entry} : entries'[e] = there[e]
        BY <1>1, <2>2, <3>3
      <4>2. there[w.entry] = entries[w.entry] /\ entries[w.entry] # NoEntry
        BY <3>2, <3>3
      <4>3. x # NoEntry => x.deck = there[w.entry].deck /\ x.row = there[w.entry].row
                           /\ x.qty = w.left
        <5>1. PICK y \in Entry, n \in Nat : y = there[w.entry] /\ n = w.left
          BY <1>1, <2>2
        <5>2. [y EXCEPT !.qty = n] = [deck |-> y.deck, row |-> y.row, qty |-> n]
          BY EntryTypes
        <5> QED  BY <3>3, <5>1, <5>2
      <4>4. Covered(there[w.entry].row, w.left) /\ there[w.entry] # NoEntry
        BY <1>1, <4>2
      <4>5. ASSUME NEW e \in EntryIds, entries'[e] # NoEntry
            PROVE  /\ e <= lastEntry' /\ entries'[e].deck \in Decks
                   /\ entries'[e].row \in CardRows
                   /\ copies[entries'[e].row] > 0
                   /\ entries'[e].qty <= copies[entries'[e].row] \/ entries'[e].row \in shrunk
                   /\ e <= lastEntry =>
                        entries[e] # NoEntry /\ entries'[e].row = entries[e].row
        <5>1. CASE e = w.entry
          BY <2>3, <4>1, <4>2, <4>3, <4>4, <4>5, <5>1 DEF Covered, Owned
        <5>2. CASE e # w.entry
          BY <2>3, <4>1, <4>5, <5>2 DEF Owned
        <5> QED  BY <5>1, <5>2
      <4> QED  BY <1>1, <4>1, <4>5 DEF EntriesFine
    <3> QED  BY <3>1, <3>2, <3>3
  <2>5. DecksTypeOK'
    BY <1>1, <1>3, <2>2, <2>4 DEF DecksTypeOK
  <2> QED  BY <1>1, <1>2, <2>2, <2>4, <2>5, EntriesWritten
<1>5. CASE ~Owned(w.row)
  <2>1. UNCHANGED <<entries, lastEntry>>
    BY <1>5 DEF Transfer
  <2>2. DecksTypeOK' /\ lastEntry <= lastEntry'
    BY <1>1, <1>3, <2>1 DEF DecksTypeOK
  <2>3. EntriesFine
    BY <1>1, <2>1 DEF DeckInv, EntriesSound, DeckWithinOwned, EntriesFine, Owned
  <2> QED  BY <1>1, <1>2, <2>1, <2>2, <2>3, EntriesWritten
<1> QED  BY <1>4, <1>5

LEMMA SetStep == ASSUME DeckInv, NEW h \in Hands, SetQuantity(h) PROVE DeckInv'
<1> DEFINE w == desk[h]
<1>1. /\ DecksTypeOK /\ w \in Desk /\ w.op = "set" /\ w.qty \in Nat
      /\ w.entry \in EntryIds /\ entries \in [EntryIds -> Entry]
      /\ entries[w.entry] # NoEntry => Covered(entries[w.entry].row, w.qty)
      /\ UNCHANGED <<copies, offered, lastRow, lastEntry, pledge, shrunk, changes>>
      /\ Served(h, {})
  BY DEF DeckInv, DecksTypeOK, Desk, OrderSound, SetQuantity, Promise
<1>2. \A q \in Hands : desk'[q] = Outdated(q, {}) \/ desk'[q] = Clear
  BY <1>1 DEF Served
<1>3. desk' \in [Hands -> Desk] /\ lastEntry \in Nat
  BY <1>1, DesksType, DecksAssumption DEF DecksTypeOK
<1>4. /\ entries' \in [EntryIds -> Entry]
      /\ \A e \in EntryIds : entries'[e] # NoEntry =>
           /\ entries[e] # NoEntry /\ entries'[e].row = entries[e].row
           /\ entries'[e].deck = entries[e].deck
           /\ entries'[e].qty = entries[e].qty \/ Covered(entries[e].row, entries'[e].qty)
  <2>1. CASE entries[w.entry] = NoEntry
    BY <1>1, <2>1 DEF SetQuantity
  <2>2. CASE entries[w.entry] # NoEntry
    <3>1. PICK x \in Entry : /\ x = [entries[w.entry] EXCEPT !.qty = w.qty]
                             /\ x.deck = entries[w.entry].deck
                             /\ x.row = entries[w.entry].row /\ x.qty = w.qty
      <4>1. PICK y \in Entry, n \in Nat : y = entries[w.entry] /\ n = w.qty
        BY <1>1
      <4>2. /\ [y EXCEPT !.qty = n] \in Entry
            /\ [y EXCEPT !.qty = n] = [deck |-> y.deck, row |-> y.row, qty |-> n]
        BY EntryTypes
      <4> QED  BY <4>1, <4>2
    <3>2. entries' = [entries EXCEPT ![w.entry] = x]
      BY <1>1, <2>2, <3>1 DEF SetQuantity
    <3> QED  BY <1>1, <2>2, <3>1, <3>2
  <2> QED  BY <2>1, <2>2
<1>5. DecksTypeOK'
  BY <1>1, <1>3, <1>4 DEF DecksTypeOK
<1>6. EntriesFine
  BY <1>1, <1>4 DEF DeckInv, EntriesSound, DeckWithinOwned, EntriesFine, Owned, Covered
<1>7. PICK W : W = {}
  OBVIOUS
<1>8. /\ \A r \in CardRows \ W : offered'[r] = offered[r]
      /\ \A q \in Hands : desk'[q] = Outdated(q, W) \/ desk'[q] = Clear
      /\ lastEntry <= lastEntry'
  BY <1>1, <1>2, <1>3, <1>7
<1>9. \A e \in EntryIds : e <= lastEntry /\ entries'[e] # NoEntry =>
         entries[e] # NoEntry /\ entries'[e].row = entries[e].row
  BY <1>4
<1> QED  BY <1>1, <1>5, <1>6, <1>8, <1>9, EntriesWritten

LEMMA RemoveStep ==
    ASSUME DeckInv, NEW d \in Decks, NEW gone \in SUBSET EntryIds, RemoveEntries(d, gone)
    PROVE  DeckInv'
<1>1. /\ entries' = [e \in EntryIds |-> IF e \in gone THEN NoEntry ELSE entries[e]]
      /\ UNCHANGED <<copies, offered, lastRow, lastEntry, pledge, desk, shrunk, changes>>
      /\ lastEntry \in Nat /\ entries \in [EntryIds -> Entry] /\ DecksTypeOK
  BY DecksAssumption DEF RemoveEntries, DeckInv, DecksTypeOK
<1>2. entries' \in [EntryIds -> Entry]
  BY <1>1, ClearType
<1>3. DecksTypeOK'
  BY <1>1, <1>2 DEF DecksTypeOK
<1>4. EntriesFine
  BY <1>1 DEF DeckInv, EntriesSound, DeckWithinOwned, EntriesFine, Owned
<1>5. \A h \in Hands : desk'[h] = Outdated(h, {})
  <2> SUFFICES ASSUME NEW h \in Hands PROVE desk[h] = Outdated(h, {})
    BY <1>1
  <2>1. PICK b \in BOOLEAN : /\ b <=> desk[h].stale
                             /\ Outdated(h, {}) = [desk[h] EXCEPT !.stale = b]
    BY <1>1, OutdatedType
  <2>2. desk[h] \in Desk /\ b = desk[h].stale
    BY <1>1, <2>1 DEF DecksTypeOK, Desk
  <2> QED  BY <2>1, <2>2 DEF Desk
<1> QED  BY <1>1, <1>3, <1>4, <1>5, EntriesWritten

\* The rows a merge works on are those it has read, the oldest of them is kept.
LEMMA MergeReads ==
    ASSUME DeckInv, NEW h \in Hands, desk[h].op = "merge",
           NEW S, S = {r \in CardRows : desk[h].snap[r] > 0}
    PROVE  /\ Min(S) \in S /\ \A r \in S : Min(S) <= r /\ r <= lastRow
           /\ S \in SUBSET CardRows /\ Selected(desk[h].snap) \cup {Min(S)} = S
           /\ desk[h].snap \in [CardRows -> Nat] /\ desk[h].offers \in [CardRows -> Nat]
<1>1. /\ \E r \in CardRows : desk[h].snap[r] > 0
      /\ \A r \in CardRows : desk[h].snap[r] > 0 => r <= lastRow
      /\ desk[h] \in Desk
  BY DEF DeckInv, DecksTypeOK, OrderSound
<1>2. S \in SUBSET CardRows /\ S # {} /\ Selected(desk[h].snap) = S
  BY <1>1 DEF Selected
<1>3. S \in SUBSET Nat
  BY <1>2, DecksAssumption DEF CardRows
<1>4. Min(S) \in S /\ \A r \in S : Min(S) <= r
  BY <1>2, <1>3, LeastExists DEF Min
<1> QED  BY <1>1, <1>2, <1>4 DEF Desk

\* An entry of a merged row goes, or becomes one of the row that is kept; a deck's
\* first one does.
MergedInto(es, S, keep, total) ==
    /\ es \in [EntryIds -> Entry]
    /\ \A e \in EntryIds :
         /\ entries[e].row \notin S => es[e] = entries[e]
         /\ entries[e].row \in S =>
              \/ es[e] = NoEntry
              \/ /\ es[e].row = keep /\ es[e].deck = entries[e].deck
                 /\ es[e].qty = entries[e].qty \/ es[e].qty <= total
         /\ entries[e].row \in S
              /\ (\A f \in InDeck(entries[e].deck, S) : ~(entries[f].row < entries[e].row))
              => es[e].row = keep /\ es[e].deck = entries[e].deck
LEMMA EntriesMerged ==
    ASSUME DecksTypeOK, NEW S \in SUBSET CardRows, NEW keep \in S, NEW total \in Nat
    PROVE  MergedInto(MergeEntries(S, keep, total), S, keep, total)
<1> PICK es : es = MergeEntries(S, keep, total)
  OBVIOUS
<1>0. SUFFICES MergedInto(es, S, keep, total)
  BY Zenon
<1> DEFINE number == [f \in EntryIds |-> entries[f].qty]
           merged(e) ==
             LET x     == entries[e]
                 mates == InDeck(x.deck, S) IN
             IF x.row \notin S THEN x
             ELSE IF \E f \in mates : entries[f].row < x.row THEN NoEntry
             ELSE [x EXCEPT !.row = keep,
                            !.qty = IF mates = {e} THEN @
                                    ELSE Lesser(total, SumOver(number, mates))]
<1>1. es = [e \in EntryIds |-> merged(e)]
  BY DEF MergeEntries
<1>2. entries \in [EntryIds -> Entry] /\ keep \in 0..MaxCardRows
  BY DecksAssumption DEF DecksTypeOK, CardRows
<1>3. ASSUME NEW e \in EntryIds
      PROVE  /\ merged(e) \in Entry
             /\ entries[e].row \notin S => merged(e) = entries[e]
             /\ entries[e].row \in S =>
                  \/ merged(e) = NoEntry
                  \/ /\ merged(e).row = keep /\ merged(e).deck = entries[e].deck
                     /\ merged(e).qty = entries[e].qty \/ merged(e).qty <= total
             /\ entries[e].row \in S
                  /\ (\A f \in InDeck(entries[e].deck, S) : ~(entries[f].row < entries[e].row))
                  => merged(e).row = keep /\ merged(e).deck = entries[e].deck
  <2>1. PICK x \in Entry : x = entries[e]
    BY <1>2
  <2>2. CASE x.row \notin S
    BY <2>1, <2>2
  <2>3. CASE x.row \in S /\ \E f \in InDeck(x.deck, S) : entries[f].row < x.row
    BY <2>1, <2>3, ClearType
  <2>4. CASE x.row \in S /\ ~\E f \in InDeck(x.deck, S) : entries[f].row < x.row
    <3>1. PICK n \in Nat :
            /\ n = IF InDeck(x.deck, S) = {e} THEN x.qty
                   ELSE Lesser(total, SumOver(number, InDeck(x.deck, S)))
            /\ n = x.qty \/ n <= total
      <4>1. SumOver(number, InDeck(x.deck, S)) \in Nat
        <5>1. InDeck(x.deck, S) \in SUBSET EntryIds
          BY DEF InDeck
        <5>2. IsFiniteSet(InDeck(x.deck, S))
          BY <5>1, DeckBasics, FS_Subset
        <5>3. \A f \in EntryIds : number[f] \in Nat
          BY <1>2 DEF Entry
        <5> HIDE DEF number
        <5> QED  BY <5>1, <5>2, <5>3, SumNat, DeckBasics
      <4>2. x.qty \in Nat
        BY <2>1 DEF Entry
      <4> HIDE DEF number
      <4> QED  BY <4>1, <4>2, DeckBasics
    <3>2. merged(e) = [x EXCEPT !.row = keep, !.qty = n]
      <4>1. merged(e) = [x EXCEPT !.row = keep,
                                  !.qty = IF InDeck(x.deck, S) = {e} THEN x.qty
                                    ELSE Lesser(total, SumOver(number, InDeck(x.deck, S)))]
        <5> HIDE DEF number
        <5> QED  BY <2>1, <2>4
      <4> HIDE DEF merged, number
      <4> QED  BY <3>1, <4>1, Zenon
    <3>3. /\ [x EXCEPT !.row = keep, !.qty = n] \in Entry
          /\ [x EXCEPT !.row = keep, !.qty = n] = [deck |-> x.deck, row |-> keep, qty |-> n]
      BY <1>2, EntryTypes
    <3> HIDE DEF merged, number
    <3> QED  BY <2>1, <2>4, <3>1, <3>2, <3>3
  <2> HIDE DEF merged, number
  <2> QED  BY <2>1, <2>2, <2>3, <2>4
<1> HIDE DEF merged, number
<1>4. \A e \in EntryIds : es[e] = merged(e)
  BY <1>1
<1>5. es \in [EntryIds -> Entry]
  BY <1>1, <1>3
<1> QED  BY <1>3, <1>4, <1>5 DEF MergedInto

\* A merge whose oldest row is there: that row covers whatever is promised of the
\* rows it has taken, or is known to hold less than they did.
LEMMA MergedStep ==
    ASSUME DeckInv, NEW h \in Hands, NEW cited \in BOOLEAN, Merge(h, cited),
           NEW S, S = {r \in CardRows : desk[h].snap[r] > 0}, Owned(Min(S))
    PROVE  DeckInv'
<1> DEFINE keep  == Min(S)
           total == SumOver(desk[h].snap, CardRows)
<1>1. /\ keep \in S /\ S \in SUBSET CardRows /\ Selected(desk[h].snap) \cup {keep} = S
      /\ \A r \in S : r <= lastRow
      /\ desk[h].snap \in [CardRows -> Nat] /\ desk[h].offers \in [CardRows -> Nat]
      /\ desk[h].op = "merge"
  BY MergeReads DEF Merge
<1>2. PICK most \in Nat : most = Lesser(total, SumOver(desk[h].offers, CardRows))
  BY <1>1, RowSums, DeckBasics
<1>3. total \in Nat /\ total > 0
  <2>1. total \in Nat /\ desk[h].snap[keep] <= total
    BY <1>1, RowSums
  <2>2. desk[h].snap[keep] \in Nat /\ desk[h].snap[keep] > 0
    BY <1>1
  <2> QED  BY <2>1, <2>2
<1>4. /\ copies' = [r \in CardRows |-> IF r = keep THEN total
                                       ELSE IF r \in S \ {keep} THEN 0 ELSE copies[r]]
      /\ offered' = [r \in CardRows |-> IF r = keep THEN most
                                        ELSE IF r \in S \ {keep} THEN 0 ELSE offered[r]]
      /\ entries' = MergeEntries(S, keep, total)
      /\ pledge' = [p \in Pledges |-> IF pledge[p] \in S \ {keep} THEN keep ELSE pledge[p]]
      /\ shrunk' = IF S \cap shrunk # {} \/ total < SumOver(copies, S)
                   THEN shrunk \cup {keep} ELSE shrunk
      /\ Served(h, S) /\ UNCHANGED <<lastRow, lastEntry, changes>>
  <2>1. MergeInto(h, S, keep, total) /\ UNCHANGED <<lastRow, lastEntry, changes>>
    <3>1. PICK T, k : T = S /\ k = keep
      OBVIOUS
    <3>2. Selected(desk[h].snap) \cup {k} = T /\ Owned(k)
      BY <1>1, <3>1
    <3>3. MergeInto(h, T, k, total)
      BY <3>1, <3>2 DEF Merge
    <3>4. MergeInto(h, S, keep, total)
      BY <3>1, <3>3, Zenon
    <3> QED  BY <3>4 DEF Merge
  <2> HIDE DEF keep, total
  <2> QED  BY <1>2, <2>1 DEF MergeInto
<1>5. /\ copies \in [CardRows -> Nat] /\ offered \in [CardRows -> Nat] /\ DecksTypeOK
      /\ entries \in [EntryIds -> Entry] /\ pledge \in [Pledges -> 0..MaxCardRows]
      /\ lastRow \in Nat /\ lastEntry \in Nat /\ keep \in 0..MaxCardRows /\ shrunk \subseteq CardRows
  <2>1. keep \in CardRows
    BY <1>1
  <2> HIDE DEF keep
  <2>2. keep \in 0..MaxCardRows
    BY <2>1 DEF CardRows
  <2> QED  BY <2>2, DecksAssumption DEF DeckInv, DecksTypeOK
<1>6. SumOver(copies, S) \in Nat /\ \A r \in S : copies[r] <= SumOver(copies, S)
  BY <1>1, <1>5, RowSums
<1>7. ASSUME NEW r \in S, NEW n \in Nat, Owned(r), Covered(r, n)
      PROVE  n <= total \/ keep \in shrunk'
  <2>1. CASE r \in shrunk
    BY <1>4, <2>1
  <2>2. CASE total < SumOver(copies, S)
    BY <1>4, <2>2
  <2>3. CASE r \notin shrunk /\ ~(total < SumOver(copies, S))
    <3>1. n <= copies[r] /\ copies[r] <= SumOver(copies, S) /\ copies[r] \in Nat
      BY <1>1, <1>5, <1>6, <1>7, <2>3 DEF Covered
    <3> QED  BY <1>3, <1>6, <2>3, <3>1
  <2> QED  BY <2>1, <2>2, <2>3
<1> HIDE DEF keep, total
<1>8. /\ entries' \in [EntryIds -> Entry]
      /\ \A e \in EntryIds :
           /\ entries[e].row \notin S => entries'[e] = entries[e]
           /\ entries[e].row \in S =>
                \/ entries'[e] = NoEntry
                \/ /\ entries'[e].row = keep /\ entries'[e].deck = entries[e].deck
                   /\ entries'[e].qty = entries[e].qty \/ entries'[e].qty <= total
  <2>1. PICK es : es = MergeEntries(S, keep, total)
    OBVIOUS
  <2>2. MergedInto(es, S, keep, total)
    <3>1. keep \in S /\ total \in Nat /\ S \in SUBSET CardRows /\ DecksTypeOK
      BY <1>1, <1>3, <1>5
    <3>2. MergedInto(MergeEntries(S, keep, total), S, keep, total)
      BY <3>1, EntriesMerged
    <3> QED  BY <2>1, <3>2, Zenon
  <2>3. entries' = es
    BY <1>4, <2>1
  <2> QED  BY <2>2, <2>3 DEF MergedInto
<1>9. DecksTypeOK'
  <2>1. copies' \in [CardRows -> Nat] /\ offered' \in [CardRows -> Nat]
    BY <1>1, <1>2, <1>3, <1>4, <1>5
  <2>2. pledge' \in [Pledges -> 0..MaxCardRows] /\ shrunk' \subseteq CardRows
    BY <1>1, <1>4, <1>5
  <2>3. desk' \in [Hands -> Desk]
    BY <1>4, <1>5, DesksType
  <2> QED  BY <1>4, <1>5, <1>8, <2>1, <2>2, <2>3 DEF DecksTypeOK
<1>10. /\ shrunk \subseteq shrunk' /\ copies'[keep] = total
       /\ \A r \in S \ {keep} : copies'[r] = 0
       /\ \A r \in CardRows \ S : copies'[r] = copies[r] /\ offered'[r] = offered[r]
  BY <1>1, <1>4
<1>11. ASSUME NEW r \in CardRows, NEW n \in Nat, Covered(r, n) PROVE Covered(r, n)'
  <2>1. CASE r = keep
    BY <1>1, <1>7, <1>10, <1>11, <2>1 DEF Owned, Covered, keep
  <2>2. CASE r \in S \ {keep}
    BY <1>10, <2>2 DEF Covered, Owned
  <2>3. CASE r \in CardRows \ S
    BY <1>10, <1>11, <2>3 DEF Covered, Owned
  <2> QED  BY <2>1, <2>2, <2>3
<1>12. RowFate /\ RowsSound'
  <2>1. RowFate
    BY <1>4, <1>5, <1>11 DEF RowFate
  <2>2. ASSUME NEW r \in CardRows, Owned(r)' PROVE r <= lastRow'
    <3>1. r \in S \/ Owned(r)
      BY <1>10, <2>2 DEF Owned
    <3> QED  BY <1>1, <1>4, <3>1 DEF DeckInv, RowsSound
  <2> QED  BY <2>1, <2>2 DEF RowsSound
<1>13. ASSUME NEW e \in EntryIds, entries'[e] # NoEntry
       PROVE  /\ entries[e] # NoEntry /\ e <= lastEntry
              /\ entries[e].row \in CardRows /\ Owned(entries[e].row)
              /\ entries[e].deck \in Decks /\ entries[e].qty \in Nat
              /\ Covered(entries[e].row, entries[e].qty)
              /\ entries'[e].deck = entries[e].deck
  <2>1. entries[e] # NoEntry
    <3>1. NoEntry.row \notin S
      BY <1>1 DEF NoEntry, CardRows
    <3> QED  BY <1>8, <1>13, <3>1
  <2> QED  BY <1>5, <1>8, <1>13, <2>1 DEF DeckInv, EntriesSound, DeckWithinOwned, Covered, Entry
<1>14. EntryFate
  <2>1. ASSUME NEW e \in EntryIds, entries'[e] # NoEntry, NEW n \in Nat,
               Covered(entries[e].row, n)
        PROVE  Covered(entries[e].row, n)'
    <3>1. CASE entries[e].row \notin S
      <4>1. PICK r \in CardRows : r = entries[e].row /\ r = entries'[e].row
        BY <1>8, <1>13, <2>1, <3>1
      <4> QED  BY <1>11, <2>1, <4>1
    <3>2. CASE entries[e].row \in S
      <4>1. entries'[e].row = keep /\ (n <= total \/ keep \in shrunk')
        BY <1>7, <1>8, <1>13, <2>1, <3>2
      <4> QED  BY <1>10, <4>1 DEF Covered
    <3> QED  BY <3>1, <3>2
  <2>2. \A e \in EntryIds : entries'[e] # NoEntry => entries[e] # NoEntry
    BY <1>13
  <2>3. \A e \in EntryIds : entries'[e] # NoEntry =>
           \A n \in Nat : Covered(entries[e].row, n) => Covered(entries[e].row, n)'
    BY <2>1
  <2>4. lastEntry <= lastEntry'
    BY <1>4, <1>5
  <2> QED  BY <2>2, <2>3, <2>4 DEF EntryFate
<1>15. EntriesFine
  <2> SUFFICES ASSUME NEW e \in EntryIds, entries'[e] # NoEntry
               PROVE  /\ e <= lastEntry' /\ entries'[e].deck \in Decks
                      /\ entries'[e].row \in CardRows
                      /\ copies'[entries'[e].row] > 0
                      /\ \/ entries'[e].qty <= copies'[entries'[e].row]
                         \/ entries'[e].row \in shrunk'
    BY DEF EntriesFine
  <2>1. CASE entries[e].row \notin S
    <3>1. PICK r \in CardRows \ S : r = entries[e].row /\ Owned(r) /\ copies'[r] = copies[r]
      BY <1>10, <1>13, <2>1
    <3>2. PICK n \in Nat : n = entries[e].qty /\ Covered(r, n)
      BY <1>13, <3>1
    <3>3. entries'[e] = entries[e] /\ (n <= copies[r] \/ r \in shrunk')
      BY <1>8, <1>10, <2>1, <3>1, <3>2 DEF Covered
    <3> QED  BY <1>4, <1>13, <3>1, <3>2, <3>3 DEF Owned
  <2>2. CASE entries[e].row \in S
    <3>1. entries[e].qty <= total \/ keep \in shrunk'
      BY <1>7, <1>13, <2>2
    <3> QED  BY <1>1, <1>3, <1>4, <1>8, <1>10, <1>13, <2>2, <3>1
  <2> QED  BY <2>1, <2>2
<1>16. PledgesSound'
  <2> SUFFICES ASSUME NEW p \in Pledges, pledge'[p] # 0 PROVE copies'[pledge'[p]] > 0
    BY DEF PledgesSound, Owned
  <2>1. CASE pledge[p] \in S
    <3>1. pledge'[p] = keep
      BY <1>4, <1>5, <2>1
    <3> QED  BY <1>3, <1>10, <3>1
  <2>2. CASE pledge[p] \notin S
    <3>1. pledge'[p] = pledge[p] /\ pledge[p] # 0
      BY <1>4, <1>5, <2>2
    <3>2. pledge[p] \in CardRows
      BY <1>5, <3>1, DecksAssumption DEF CardRows
    <3> QED  BY <1>10, <2>2, <3>1, <3>2 DEF DeckInv, PledgesSound, Owned
  <2> QED  BY <2>1, <2>2
<1>17. Writes(S) /\ \A q \in Hands : desk'[q] = Outdated(q, S) \/ desk'[q] = Clear
  BY <1>4, <1>10 DEF Writes, Served
<1> QED  BY <1>9, <1>12, <1>14, <1>15, <1>16, <1>17, DeckStep

\* A merge whose oldest row is gone deletes rows nothing names, or does nothing.
LEMMA MergeStep ==
    ASSUME DeckInv, NEW h \in Hands, NEW cited \in BOOLEAN, Merge(h, cited)
    PROVE  DeckInv'
<1>1. PICK S : S = {r \in CardRows : desk[h].snap[r] > 0}
  OBVIOUS
<1>2. CASE Owned(Min(S))
  BY <1>1, <1>2, MergedStep
<1>3. CASE ~Owned(Min(S))
  <2>1. PICK T, k : T = S /\ k = Min(S)
    OBVIOUS
  <2>2. Selected(desk[h].snap) \cup {k} = T
    BY <1>1, <2>1, MergeReads DEF Merge
  <2>3. PICK rest : rest = T \ {k}
    OBVIOUS
  <2>4. /\ DecksTypeOK /\ entries \in [EntryIds -> Entry] /\ copies \in [CardRows -> Nat]
        /\ offered \in [CardRows -> Nat] /\ lastEntry \in Nat
    BY DecksAssumption DEF DeckInv, DecksTypeOK
  <2>5. /\ UNCHANGED <<lastRow, lastEntry, changes>>
        /\ \/ Unnamed(rest) /\ Discard(h, rest)
           \/ Served(h, {}) /\ UNCHANGED <<copies, offered, entries, pledge, shrunk>>
    BY <1>1, <1>3, <2>1, <2>2, <2>3 DEF Merge
  <2>6. UNCHANGED <<entries, pledge, shrunk>>
    BY <2>5 DEF Discard
  <2>7. CASE /\ \A e \in EntryIds : entries[e].row \notin rest
             /\ \A p \in Pledges : pledge[p] \notin rest
             /\ copies' = [r \in CardRows |-> IF r \in rest THEN 0 ELSE copies[r]]
             /\ offered' = [r \in CardRows |-> IF r \in rest THEN 0 ELSE offered[r]]
             /\ Served(h, rest)
    <3>1. DecksTypeOK'
      BY <2>4, <2>5, <2>6, <2>7, DesksType DEF DecksTypeOK
    <3>2. RowFate /\ RowsSound'
      BY <2>4, <2>5, <2>6, <2>7, <3>1, RowsStay DEF Owned
    <3>3. EntryFate
      BY <2>4, <2>5, <2>6, <2>7, <3>1, <3>2, EntriesStay
    <3>4. PledgesSound' /\ EntriesFine
      <4>1. \A r \in CardRows \ rest : copies'[r] = copies[r]
        BY <2>7
      <4>2. \A p \in Pledges : pledge[p] # 0 => pledge[p] \in CardRows \ rest
        BY <2>4, <2>7, DecksAssumption DEF DeckInv, DecksTypeOK, CardRows
      <4>3. PledgesSound'
        BY <2>4, <2>5, <2>6, <2>7, <4>1, <4>2 DEF DeckInv, PledgesSound, Owned
      <4>4. EntriesFine
        BY <2>4, <2>5, <2>6, <2>7, <4>1 DEF DeckInv, EntriesSound, DeckWithinOwned, EntriesFine, Owned
      <4> QED  BY <4>3, <4>4
    <3>5. Writes(rest) /\ \A q \in Hands : desk'[q] = Outdated(q, rest) \/ desk'[q] = Clear
      BY <2>7 DEF Writes, Served
    <3> QED  BY <3>1, <3>2, <3>3, <3>4, <3>5, DeckStep
  <2>8. CASE Served(h, {}) /\ UNCHANGED <<copies, offered>>
    <3>1. DecksTypeOK' /\ lastEntry <= lastEntry'
      BY <2>4, <2>5, <2>6, <2>8, DesksType DEF DecksTypeOK
    <3>2. EntriesFine
      BY <2>4, <2>5, <2>6, <2>8 DEF DeckInv, EntriesSound, DeckWithinOwned, EntriesFine, Owned
    <3>3. PICK W : W = {}
      OBVIOUS
    <3>4. /\ \A r \in CardRows \ W : offered'[r] = offered[r]
          /\ \A q \in Hands : desk'[q] = Outdated(q, W) \/ desk'[q] = Clear
          /\ \A e \in EntryIds : e <= lastEntry /\ entries'[e] # NoEntry =>
               entries[e] # NoEntry /\ entries'[e].row = entries[e].row
      BY <2>4, <2>5, <2>6, <2>8, <3>3 DEF Served
    <3> QED  BY <2>4, <2>5, <2>6, <2>8, <3>1, <3>2, <3>4, EntriesWritten
  <2> QED  BY <2>5, <2>7, <2>8 DEF Unnamed, Discard
<1> QED  BY <1>2, <1>3

-----------------------------------------------------------------------------
(* Decks: the theorems.                                                    *)

LEMMA DeckInvInit == DecksInit => DeckInv
<1> SUFFICES ASSUME DecksInit PROVE DeckInv
  OBVIOUS
<1>1. MaxCardRows \in Nat /\ MaxEntries \in Nat /\ MaxChanges \in Nat
  BY DecksAssumption
<1>2. DecksTypeOK
  BY <1>1, ClearType, EmptyType DEF DecksInit, DecksTypeOK
<1>3. RowsSound /\ EntriesSound /\ PledgesSound /\ DeckWithinOwned
  BY DEF DecksInit, RowsSound, EntriesSound, PledgesSound, DeckWithinOwned, Owned, Empty
<1>4. \A h \in Hands : OrderSound(desk[h])
  BY ClearType DEF DecksInit, OrderSound
<1> QED  BY <1>2, <1>3, <1>4 DEF DeckInv

LEMMA DeckInvNext == DeckInv /\ [DecksNext]_deckVars => DeckInv'
<1> SUFFICES ASSUME DeckInv, [DecksNext]_deckVars PROVE DeckInv'
  OBVIOUS
<1>1. ASSUME NEW h \in Hands, HandNext(h) PROVE DeckInv'
  BY <1>1, LooksStep, AddStep, TransferStep, SetStep, MergeStep DEF HandNext
<1>2. ASSUME NEW d \in Decks, NEW gone \in SUBSET EntryIds, RemoveEntries(d, gone) PROVE DeckInv'
  BY <1>2, RemoveStep
<1>3. CASE UNCHANGED deckVars
  BY <1>3 DEF deckVars, DeckInv, DecksTypeOK, RowsSound, EntriesSound, PledgesSound,
     DeckWithinOwned, OrderSound, Covered, Owned
<1> QED  BY <1>1, <1>2, <1>3, RowsStep DEF DecksNext

LEMMA DeckInvCorrect == DecksSpec => []DeckInv
BY DeckInvInit, DeckInvNext, PTL DEF DecksSpec

\* The variables of decks keep their types.
THEOREM DecksTypeCorrect == DecksSpec => []DecksTypeOK
BY DeckInvCorrect, PTL DEF DeckInv

\* A deck holds no more copies of a row than the member owns, unless the row was
\* lowered, however stale the reads on which it is filled, moved or merged
\* (groups.py add_collection_item_to_group, cleanup.py merge_collection_group_rows).
THEOREM DeckWithinOwnedCorrect == DecksSpec => []DeckWithinOwned
BY DeckInvCorrect, PTL DEF DeckInv

\* What merging promises of the rows it has read.
MergeSums(read) ==
    /\ SumOver(copies', read) = SumOver(copies, read)
    /\ SumOver(offered', read) >= Lesser(SumOver(copies, read), SumOver(offered, read))
MergeLeaves(read) ==
    /\ \A r \in CardRows \ read : copies'[r] = copies[r] /\ offered'[r] = offered[r]
    /\ \A p \in Pledges : pledge[p] # 0 => pledge'[p] # 0 /\ copies'[pledge'[p]] > 0
    /\ \A d \in Decks : InDeck(d, CardRows) # {} =>
         \E e \in EntryIds : entries'[e].deck = d /\ copies'[entries'[e].row] > 0

\* One row of all that are summed holds everything.
LEMMA SumOfOne ==
    ASSUME NEW S, IsFiniteSet(S), NEW keep \in S, NEW f, f[keep] \in Nat,
           \A r \in S \ {keep} : f[r] = 0
    PROVE  SumOver(f, S) = f[keep]
<1>1. IsFiniteSet(S \ {keep}) /\ \A r \in S : f[r] \in Nat
  BY FS_RemoveElement
<1>2. Sum(f, S) = f[keep] + Sum(f, S \ {keep})
  BY <1>1, SumTake
<1>3. Sum(f, S \ {keep}) = 0
  BY <1>1, SumZero
<1>4. SumOver(f, S) = Sum(f, S)
  BY DeckBasics
<1> QED  BY <1>2, <1>3, <1>4

\* Sums over a part of the rows.
LEMMA SumOfPart ==
    ASSUME NEW S \in SUBSET CardRows, NEW f \in [CardRows -> Nat]
    PROVE  /\ SumOver(f, S) \in Nat /\ SumOver(f, CardRows) \in Nat
           /\ SumOver(f, S) <= SumOver(f, CardRows)
           /\ (\A r \in CardRows \ S : f[r] = 0) => SumOver(f, CardRows) = SumOver(f, S)
           /\ \A g : (\A r \in S : g[r] = f[r]) => SumOver(g, S) = SumOver(f, S)
<1>1. IsFiniteSet(CardRows) /\ IsFiniteSet(S) /\ IsFiniteSet(CardRows \ S)
  BY DeckBasics, FS_Subset
<1>2. \A r \in CardRows : f[r] \in Nat
  OBVIOUS
<1>3. /\ Sum(f, S) \in Nat /\ Sum(f, CardRows \ S) \in Nat
      /\ Sum(f, CardRows) = Sum(f, S) + Sum(f, CardRows \ S) /\ Sum(f, S) <= Sum(f, CardRows)
  BY <1>1, <1>2, SumPart
<1>4. (\A r \in CardRows \ S : f[r] = 0) => Sum(f, CardRows \ S) = 0
  BY <1>1, SumZero
<1>5. \A g : (\A r \in S : g[r] = f[r]) => Sum(g, S) = Sum(f, S)
  BY <1>1, SumSame
<1>6. \A g, T : SumOver(g, T) = Sum(g, T)
  BY DeckBasics
<1> QED  BY <1>3, <1>4, <1>5, <1>6

\* A merge that has read what is there neither makes nor loses a copy.
LEMMA MergeConserves ==
    ASSUME DeckInv, NEW h \in Hands, desk[h].op = "merge", ~desk[h].stale,
           NEW S, S = {r \in CardRows : desk[h].snap[r] > 0},
           NEW keep, keep = Min(S), MergeInto(h, S, keep, SumOver(desk[h].snap, CardRows))
    PROVE  MergeSums(S)
<1>1. PICK total : total = SumOver(desk[h].snap, CardRows)
  OBVIOUS
<1>2. PICK snap \in [CardRows -> Nat], offers \in [CardRows -> Nat] :
          /\ snap = desk[h].snap /\ offers = desk[h].offers
  BY MergeReads
<1>3. keep \in S /\ S \in SUBSET CardRows /\ IsFiniteSet(S)
  <2>1. keep \in S /\ S \in SUBSET CardRows
    BY MergeReads
  <2> QED  BY <2>1, DeckBasics, FS_Subset
<1>4. \A r \in S : snap[r] = copies[r] /\ offers[r] = offered[r]
  BY <1>2 DEF DeckInv, OrderSound
<1>5. copies \in [CardRows -> Nat] /\ offered \in [CardRows -> Nat]
  BY DEF DeckInv, DecksTypeOK
<1>6. total = SumOver(copies, S) /\ total \in Nat
  <2>1. \A r \in CardRows \ S : snap[r] = 0
    BY <1>2
  <2>2. SumOver(snap, CardRows) = SumOver(snap, S) /\ SumOver(snap, CardRows) \in Nat
    BY <1>3, <2>1, SumOfPart
  <2>3. SumOver(copies, S) = SumOver(snap, S)
    BY <1>3, <1>4, SumOfPart
  <2> QED  BY <1>1, <1>2, <2>2, <2>3
<1>7. PICK most \in Nat : /\ most = Lesser(total, SumOver(offers, CardRows))
                          /\ most >= Lesser(total, SumOver(offered, S))
  <2>1. SumOver(offered, S) = SumOver(offers, S)
    <3>1. \A r \in S : offered[r] = offers[r]
      BY <1>4
    <3> QED  BY <1>3, <3>1, SumOfPart
  <2>2. PICK m \in Nat, n \in Nat : /\ m = SumOver(offers, S) /\ n = SumOver(offers, CardRows)
                                    /\ m <= n
    BY <1>3, SumOfPart
  <2>3. PICK most \in Nat : most = Lesser(total, n)
    BY <1>6, DeckBasics
  <2>4. most >= Lesser(total, m)
    BY <1>6, <2>2, <2>3 DEF Lesser
  <2> QED  BY <2>1, <2>2, <2>3, <2>4, Zenon
<1>8. /\ copies' = [r \in CardRows |-> IF r = keep THEN total
                                       ELSE IF r \in S \ {keep} THEN 0 ELSE copies[r]]
      /\ offered' = [r \in CardRows |-> IF r = keep THEN most
                                        ELSE IF r \in S \ {keep} THEN 0 ELSE offered[r]]
  BY <1>1, <1>2, <1>7 DEF MergeInto
<1>9. /\ copies'[keep] = total /\ offered'[keep] = most
      /\ \A r \in S \ {keep} : copies'[r] = 0 /\ offered'[r] = 0
  BY <1>3, <1>8
<1>10. SumOver(copies', S) = total /\ SumOver(offered', S) = most
  <2>1. PICK f, g : f = copies' /\ g = offered'
    OBVIOUS
  <2>2. /\ f[keep] = total /\ g[keep] = most /\ f[keep] \in Nat /\ g[keep] \in Nat
        /\ \A r \in S \ {keep} : f[r] = 0 /\ g[r] = 0
    BY <1>6, <1>9, <2>1
  <2>3. \A x : x[keep] \in Nat /\ (\A r \in S \ {keep} : x[r] = 0) => SumOver(x, S) = x[keep]
    <3>1. keep \in S /\ IsFiniteSet(S)
      BY <1>3
    <3> SUFFICES ASSUME NEW x, x[keep] \in Nat, \A r \in S \ {keep} : x[r] = 0
                 PROVE  SumOver(x, S) = x[keep]
      OBVIOUS
    <3> QED  BY <3>1, SumOfOne
  <2>4. SumOver(f, S) = f[keep] /\ SumOver(g, S) = g[keep]
    <3>1. (\A r \in S \ {keep} : f[r] = 0) /\ (\A r \in S \ {keep} : g[r] = 0)
      BY <2>2
    <3> QED  BY <2>2, <2>3, <3>1
  <2> QED  BY <2>1, <2>2, <2>3, <2>4
<1> QED  BY <1>6, <1>7, <1>10 DEF MergeSums

\* It leaves other rows alone, and whatever named a row with a row.
LEMMA MergeSpares ==
    ASSUME DeckInv, DeckInv', NEW h \in Hands, NEW cited \in BOOLEAN, Merge(h, cited),
           NEW S, S = {r \in CardRows : desk[h].snap[r] > 0}
    PROVE  MergeLeaves(S) /\ (~desk[h].stale => MergeSums(S))
<1>1. PICK keep : keep = Min(S)
  OBVIOUS
<1>2. /\ keep \in S /\ S \in SUBSET CardRows /\ Selected(desk[h].snap) \cup {keep} = S
      /\ desk[h].op = "merge"
  BY <1>1, MergeReads DEF Merge
<1>3. PICK rest : rest = S \ {keep}
  OBVIOUS
<1>4. IF Owned(keep) THEN MergeInto(h, S, keep, SumOver(desk[h].snap, CardRows))
      ELSE \/ Discard(h, rest)
           \/ UNCHANGED <<copies, offered, entries, pledge>>
  BY <1>1, <1>2, <1>3 DEF Merge
<1>5. ~desk[h].stale => Owned(keep)
  BY <1>2 DEF DeckInv, OrderSound, Owned
<1>6. ~desk[h].stale => MergeSums(S)
  BY <1>1, <1>2, <1>4, <1>5, MergeConserves
<1>7. \A r \in CardRows \ S : copies'[r] = copies[r] /\ offered'[r] = offered[r]
  BY <1>2, <1>3, <1>4, DecksAssumption DEF MergeInto, Discard, DeckInv, DecksTypeOK
<1>8. keep # 0
  BY <1>2 DEF CardRows
<1>9. ASSUME NEW p \in Pledges, pledge[p] # 0 PROVE pledge'[p] # 0 /\ copies'[pledge'[p]] > 0
  <2>1. pledge'[p] # 0
    BY <1>4, <1>8, <1>9 DEF MergeInto, Discard
  <2> QED  BY <2>1 DEF DeckInv, PledgesSound, Owned
<1>10. ASSUME NEW d \in Decks, InDeck(d, CardRows) # {}
       PROVE  \E e \in EntryIds : entries'[e].deck = d /\ copies'[entries'[e].row] > 0
  <2>1. ASSUME NEW e \in EntryIds, entries'[e].deck = d PROVE copies'[entries'[e].row] > 0
    BY <2>1, ClearType, DecksAssumption DEF DeckInv, EntriesSound, Owned
  <2>2. PICK e \in EntryIds : entries[e].deck = d /\ entries[e].row \in CardRows
    BY <1>10 DEF InDeck
  <2>3. CASE UNCHANGED entries
    BY <2>1, <2>2, <2>3
  <2>4. CASE MergeInto(h, S, keep, SumOver(desk[h].snap, CardRows))
    <3>1. PICK es : es = entries' /\ MergedInto(es, S, keep, SumOver(desk[h].snap, CardRows))
      <4>1. SumOver(desk[h].snap, CardRows) \in Nat /\ DecksTypeOK
        <5>1. desk[h].snap \in [CardRows -> Nat]
          BY <1>2, MergeReads
        <5> QED  BY <5>1, RowSums DEF DeckInv
      <4>2. MergedInto(MergeEntries(S, keep, SumOver(desk[h].snap, CardRows)),
                       S, keep, SumOver(desk[h].snap, CardRows))
        BY <1>2, <4>1, EntriesMerged
      <4>3. entries' = MergeEntries(S, keep, SumOver(desk[h].snap, CardRows))
        BY <2>4 DEF MergeInto
      <4> QED  BY <4>2, <4>3, Zenon
    <3>2. CASE entries[e].row \notin S
      BY <2>1, <2>2, <3>1, <3>2 DEF MergedInto
    <3>3. CASE entries[e].row \in S
      <4> DEFINE rows == {entries[f].row : f \in InDeck(d, S)}
      <4>1. rows \in SUBSET Nat /\ rows # {}
        BY <1>2, <2>2, <3>3, DecksAssumption DEF InDeck, CardRows
      <4>2. PICK r \in rows : \A q \in rows : r <= q
        <5> HIDE DEF rows
        <5> QED  BY <4>1, LeastExists
      <4>3. PICK f \in InDeck(d, S) : entries[f].row = r
        BY <4>2
      <4>4. /\ f \in EntryIds /\ entries[f].row \in S /\ entries[f].deck = d
            /\ \A g \in InDeck(d, S) : ~(entries[g].row < entries[f].row)
        <5>1. \A g \in InDeck(d, S) : entries[g].row \in rows
          OBVIOUS
        <5>2. \A g \in rows : g \in Nat
          BY <4>1
        <5> HIDE DEF rows
        <5> QED  BY <4>2, <4>3, <5>1, <5>2 DEF InDeck
      <4>5. entries'[f].deck = d
        BY <3>1, <4>4 DEF MergedInto
      <4> QED  BY <2>1, <4>4, <4>5
    <3> QED  BY <3>2, <3>3
  <2> QED  BY <1>4, <2>3, <2>4 DEF Discard
<1> QED  BY <1>6, <1>7, <1>9, <1>10 DEF MergeLeaves

\* No other step ends a request that merges.
LEMMA OnlyMergeEnds ==
    ASSUME DeckInv, [DecksNext]_deckVars, NEW h \in Hands, Merges(h)
    PROVE  \E cited \in BOOLEAN : Merge(h, cited)
<1>1. desk \in [Hands -> Desk] /\ desk[h].op = "merge" /\ desk'[h].op = "none"
  BY DEF DeckInv, DecksTypeOK, Merges
<1>2. \A W : Outdated(h, W).op = "merge"
  <2> SUFFICES ASSUME NEW W PROVE Outdated(h, W).op = "merge"
    OBVIOUS
  <2>1. PICK b \in BOOLEAN : Outdated(h, W) = [desk[h] EXCEPT !.stale = b]
    BY OutdatedType DEF DeckInv
  <2> QED  BY <1>1, <2>1 DEF Desk
<1>3. desk' # desk
  BY <1>1
<1>4. ASSUME NEW q \in Hands, NEW w, Asks(q, w) PROVE FALSE
  BY <1>1, <1>4 DEF Asks
<1>5. ASSUME NEW q \in Hands, NEW W, Served(q, W) PROVE q = h
  BY <1>1, <1>2, <1>5 DEF Served
<1>6. ASSUME NEW W, DeskAfter(W) PROVE FALSE
  BY <1>1, <1>2, <1>6 DEF DeskAfter
<1>7. ASSUME NEW q \in Hands, HandNext(q) PROVE \E cited \in BOOLEAN : Merge(h, cited)
  <2>1. ASSUME NEW cited \in BOOLEAN, Merge(q, cited) PROVE q = h
    <3>1. \E W : Served(q, W)
      BY <2>1 DEF Merge, MergeInto, Discard
    <3> QED  BY <1>5, <3>1
  <2>2. ~AddToDeck(q)
    <3>1. ASSUME AddToDeck(q) PROVE FALSE
      <4>1. desk[q].op = "add" /\ \E W : Served(q, W)
        BY <3>1 DEF AddToDeck
      <4> QED  BY <1>1, <1>5, <4>1
    <3> QED  BY <3>1
  <2>3. ~Transfer(q) /\ ~SetQuantity(q)
    <3>1. ASSUME Transfer(q) \/ SetQuantity(q) PROVE FALSE
      <4>1. desk[q].op \in {"transfer", "set"} /\ \E W : Served(q, W)
        BY <3>1 DEF Transfer, SetQuantity
      <4> QED  BY <1>1, <1>5, <4>1
    <3> QED  BY <3>1
  <2>4. \A d, r, n, adjust : ~LookToAdd(q, d, r, n, adjust)
    BY <1>4 DEF LookToAdd
  <2>5. \A e, n : ~LookToSet(q, e, n) /\ \A d, moves : ~LookToTransfer(q, e, d, n, moves)
    BY <1>4 DEF LookToSet, LookToTransfer
  <2>6. ~LookForDuplicates(q)
    BY <1>4 DEF LookForDuplicates
  <2> QED  BY <1>7, <2>1, <2>2, <2>3, <2>4, <2>5, <2>6 DEF HandNext
<1>8. \E q \in Hands : HandNext(q)
  BY <1>3, <1>6 DEF DecksNext, deckVars, NewRow, EditCopies, RemoveRow, Change, PledgeRow,
     RemoveEntries
<1> QED  BY <1>7, <1>8

\* Merging duplicates neither makes nor loses a copy of the rows it has read and
\* still finds as they were, and leaves trade items and decks with a row
\* (cleanup.py merge_collection_duplicate_group).
THEOREM MergeKeepsCorrect == DecksSpec => MergeKeeps
<1> DEFINE kept == \A h \in Hands : Merges(h) =>
          LET read == {r \in CardRows : desk[h].snap[r] > 0} IN
          /\ ~desk[h].stale =>
                /\ SumOver(copies', read) = SumOver(copies, read)
                /\ SumOver(offered', read)
                     >= Lesser(SumOver(copies, read), SumOver(offered, read))
          /\ \A r \in CardRows \ read : copies'[r] = copies[r] /\ offered'[r] = offered[r]
          /\ \A p \in Pledges : pledge[p] # 0 => pledge'[p] # 0 /\ copies'[pledge'[p]] > 0
          /\ \A d \in Decks : InDeck(d, CardRows) # {} =>
                \E e \in EntryIds : entries'[e].deck = d /\ copies'[entries'[e].row] > 0
<1>1. DeckInv /\ [DecksNext]_deckVars => kept
  <2> SUFFICES ASSUME DeckInv, [DecksNext]_deckVars, NEW h \in Hands, Merges(h),
                      NEW read, read = {r \in CardRows : desk[h].snap[r] > 0}
               PROVE  MergeLeaves(read) /\ (~desk[h].stale => MergeSums(read))
    BY DEF MergeLeaves, MergeSums
  <2>1. \E cited \in BOOLEAN : Merge(h, cited)
    BY OnlyMergeEnds
  <2>2. DeckInv'
    BY DeckInvNext
  <2> QED  BY <2>1, <2>2, MergeSpares
<1> QED  BY <1>1, DeckInvCorrect, PTL DEF DecksSpec, MergeKeeps

-----------------------------------------------------------------------------
(* The five components side by side.                                       *)

\* What happens where all of them run is, for each of them, what happens when
\* it runs alone: a step of its own or no step.
THEOREM QueuesComposes ==
    QueuesSpec => LookupSpec /\ MailSpec /\ WebhooksSpec /\ ImportSpec /\ DecksSpec
<1>1. QueuesInit => LookupInit /\ MailInit /\ WebhooksInit /\ ImportInit /\ DecksInit
  BY DEF QueuesInit
<1>2. [QueuesNext]_<<part, lookupVars, mailVars, hookVars, importVars, deckVars>> =>
          [LookupNext]_lookupVars /\ [MailNext]_mailVars /\ [WebhooksNext]_hookVars
            /\ [ImportNext]_importVars /\ [DecksNext]_deckVars
  BY DEF QueuesNext
<1> QED  BY <1>1, <1>2, PTL DEF QueuesSpec, LookupSpec, MailSpec, WebhooksSpec, ImportSpec,
         DecksSpec

\* The variables of all five keep the types the code gives them.
THEOREM QueuesTypeCorrect == QueuesSpec => []QueuesTypeOK
<1>1. LookupTypeOK /\ MailTypeOK /\ WebhooksTypeOK /\ ImportTypeOK /\ DecksTypeOK
          => QueuesTypeOK
  BY DEF QueuesTypeOK
<1> QED  BY <1>1, QueuesComposes, LookupTypeCorrect, MailTypeCorrect, WebhooksTypeCorrect,
            ImportTypeCorrect, DecksTypeCorrect, PTL
=============================================================================
