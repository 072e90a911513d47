--------------------------- MODULE ImportBatches ---------------------------
(***************************************************************************)
(* Imports into one member's collection and their undo (import_batches.py, *)
(* collection_imports.py, upsert_collection_item).  An import runs row by  *)
(* row, each row in several transactions, and keeps what it did in a batch;*)
(* the undo replays the batch backwards, again in one transaction a row.   *)
(* Each transaction is one action; reads before a write are actions of     *)
(* their own.  A row of the collection stands for its card and quantity.   *)
(***************************************************************************)
EXTENDS Naturals, Sequences, SequencesExt

CONSTANTS
    Cards,       \* what a row of a file may name
    Batches,     \* imports
    Movers,      \* requests that import or undo
    NoBatch, NoCard,
    Files,       \* the files that are imported: sequences of cards
    MaxCopies,   \* MAX_CARD_QUANTITY
    MaxRowIds,   \* bound: rows ever inserted
    MaxEdits     \* bound: changes by the owner and imports cut short

ASSUME ImportAssumption ==
    /\ NoBatch \notin Batches /\ NoCard \notin Cards
    /\ MaxCopies \in Nat \ {0} /\ MaxRowIds \in Nat /\ MaxEdits \in Nat
    /\ Files \subseteq Seq(Cards) \ {<<>>}

VARIABLES
    stock,       \* collection_items: card and quantity of each id
    lastId,      \* the newest id; ids are not used again
    batches,     \* import_batches: status, whether a preview, merging, the file
    items,       \* import_batch_items of each batch, in order
    ipc, load,   \* each request's place and local variables
    before,      \* history: the collection when a batch was first written
    after,       \* history: the collection when its import was complete
    blurred,     \* history: batches somebody else wrote beside, or cut short
    edits

importVars == <<stock, lastId, batches, items, ipc, load, before, after, blurred, edits>>

RowIds == 1..MaxRowIds
Row    == [card : Cards \cup {NoCard}, copies : 0..MaxCopies]
NoRow  == [card |-> NoCard, copies |-> 0]
Item   == [action : {"inserted", "updated"}, id : RowIds, old : Row]
Load   == [batch : Batches \cup {NoBatch}, file : Seq(Cards), old : Row, hit : 0..MaxRowIds,
           did : Seq(Item), undo : Seq(Item)]
NoLoad == [batch |-> NoBatch, file |-> <<>>, old |-> NoRow, hit |-> 0,
           did |-> <<>>, undo |-> <<>>]

ImportTypeOK ==
    /\ stock \in [RowIds -> Row] /\ lastId \in 0..MaxRowIds
    /\ batches \in [Batches -> [status : {"none", "preview", "applied", "undone"},
                                merge : BOOLEAN, file : Seq(Cards)]]
    /\ items \in [Batches -> Seq(Item)]
    /\ ipc \in [Movers -> {"idle", "look", "match", "write", "keep", "undo"}]
    /\ load \in [Movers -> Load]
    /\ before \in [Batches -> [RowIds -> Row]] /\ after \in [Batches -> [RowIds -> Row]]
    /\ blurred \subseteq Batches /\ edits \in 0..MaxEdits

ImportInit ==
    /\ stock = [r \in RowIds |-> NoRow] /\ lastId = 0
    /\ batches = [b \in Batches |-> [status |-> "none", merge |-> TRUE, file |-> <<>>]]
    /\ items = [b \in Batches |-> <<>>]
    /\ ipc = [u \in Movers |-> "idle"] /\ load = [u \in Movers |-> NoLoad]
    /\ before = [b \in Batches |-> stock] /\ after = [b \in Batches |-> stock]
    /\ blurred = {} /\ edits = 0

-----------------------------------------------------------------------------
atDesk == <<ipc, load>>
past   == <<before, after, blurred>>

AtStep(u, place) == ipc[u] = place
Step(u, place, local) ==
    /\ ipc' = [ipc EXCEPT ![u] = place] /\ load' = [load EXCEPT ![u] = local]
\* The batches other requests are working on.
Beside(u) == {load[q].batch : q \in {q \in Movers \ {u} : ipc[q] # "idle"}} \ {NoBatch}
\* A request joins: whoever works at the same time is no longer alone.
Joined(u, b) == blurred' = blurred \cup (IF Beside(u) = {} THEN {} ELSE Beside(u) \cup {b})

\* The row an import merges into: the first one of the card, or none.
Match(card, merge) ==
    LET found == {r \in RowIds : stock[r].card = card} IN
    IF merge /\ found # {} THEN CHOOSE r \in found : \A q \in found : r <= q ELSE 0

\* Direct import: the batch is "applied" before its first row is written; a
\* preview keeps the rows for later.
CreateBatch(u, b, file, merge, status) ==
    /\ AtStep(u, "idle") /\ batches[b].status = "none"
    /\ batches' = [batches EXCEPT ![b] = [status |-> status, merge |-> merge, file |-> file]]
    /\ before' = [before EXCEPT ![b] = stock]
    /\ IF status = "applied"
       THEN Step(u, "look", [NoLoad EXCEPT !.batch = b, !.file = file]) /\ Joined(u, b)
       ELSE UNCHANGED <<atDesk, blurred>>
    /\ UNCHANGED <<stock, lastId, items, after, edits>>
\* commit_collection_import_preview
CommitPreview(u, b) ==
    /\ AtStep(u, "idle") /\ batches[b].status = "preview"
    /\ Step(u, "look", [NoLoad EXCEPT !.batch = b, !.file = batches[b].file]) /\ Joined(u, b)
    /\ before' = IF items[b] = <<>> THEN [before EXCEPT ![b] = stock] ELSE before
    /\ UNCHANGED <<stock, lastId, batches, items, after, edits>>

\* import_collection_items, for one row of the file: the earlier state is read
\* for the batch...
LookForRow(u) ==
    LET l == load[u]
        r == Match(l.file[1], batches[l.batch].merge) IN
    /\ AtStep(u, "look") /\ l.file # <<>>
    /\ Step(u, "match", [l EXCEPT !.old = IF r = 0 THEN NoRow ELSE stock[r]])
    /\ UNCHANGED <<stock, lastId, batches, items, past, edits>>
\* ...and once more by upsert_collection_item...
MatchRow(u) ==
    LET l == load[u]
        r == Match(l.file[1], batches[l.batch].merge) IN
    /\ AtStep(u, "match")
    /\ Step(u, "write", [l EXCEPT !.hit = r,
                                  !.did = IF r = 0 THEN <<>> ELSE
                                      <<[action |-> "updated", id |-> r, old |-> stock[r]]>>])
    /\ UNCHANGED <<stock, lastId, batches, items, past, edits>>
\* Mutant: the cap is not applied.
Uncapped(copies) == copies
Capped(copies) == IF copies > MaxCopies THEN MaxCopies ELSE copies
\* ...which writes what it read and one copy, by id, or inserts a row.
WriteRow(u) ==
    LET l == load[u] IN
    /\ AtStep(u, "write")
    /\ IF l.hit = 0
       THEN /\ lastId < MaxRowIds /\ lastId' = lastId + 1
            /\ stock' = [stock EXCEPT ![lastId + 1] = [card |-> l.file[1], copies |-> 1]]
            /\ Step(u, "keep", [l EXCEPT !.did =
                   <<[action |-> "inserted", id |-> lastId + 1, old |-> l.old]>>])
       ELSE /\ stock' = IF stock[l.hit] = NoRow THEN stock
                        ELSE [stock EXCEPT ![l.hit].copies = Capped(l.did[1].old.copies + 1)]
            /\ Step(u, "keep", [l EXCEPT !.did[1].old = l.old])
            /\ UNCHANGED lastId
    /\ UNCHANGED <<batches, items, past, edits>>
\* record_import_batch_item, in a transaction of its own.
KeepItem(u) ==
    LET l == load[u] IN
    /\ AtStep(u, "keep")
    /\ items' = [items EXCEPT ![l.batch] = @ \o l.did]
    /\ Step(u, "look", [NoLoad EXCEPT !.batch = l.batch, !.file = Tail(l.file)])
    /\ UNCHANGED <<stock, lastId, batches, past, edits>>
\* The batch is labelled; that of a direct import keeps its status.
FinishImport(u) ==
    LET b == load[u].batch IN
    /\ AtStep(u, "look") /\ load[u].file = <<>>
    /\ batches' = [batches EXCEPT ![b].status = IF @ = "preview" THEN "applied" ELSE @]
    /\ after' = [after EXCEPT ![b] = stock]
    /\ Step(u, "idle", NoLoad)
    /\ UNCHANGED <<stock, lastId, items, before, blurred, edits>>
\* A request dies on the way: of an import, or of an undo.
ImportStops(u) ==
    /\ ~AtStep(u, "idle") /\ edits < MaxEdits /\ edits' = edits + 1
    /\ Step(u, "idle", NoLoad) /\ blurred' = blurred \cup {load[u].batch}
    /\ UNCHANGED <<stock, lastId, batches, items, before, after>>

-----------------------------------------------------------------------------
\* Mutant: the items are undone in the order in which they were done.
ReadBatchForwards(u, b) ==
    /\ AtStep(u, "idle") /\ batches[b].status = "applied"
    /\ Step(u, "undo", [NoLoad EXCEPT !.batch = b, !.undo = items[b]])
    /\ blurred' = blurred \cup (IF Beside(u) = {} THEN {} ELSE Beside(u) \cup {b})
                          \cup (IF stock # after[b] THEN {b} ELSE {})
    /\ UNCHANGED <<stock, lastId, batches, items, before, after, edits>>
\* undo_import_batch: the batch and its items, the newest first, are read.
ReadBatch(u, b) ==
    /\ AtStep(u, "idle") /\ batches[b].status = "applied"
    /\ Step(u, "undo", [NoLoad EXCEPT !.batch = b, !.undo = Reverse(items[b])])
    /\ blurred' = blurred \cup (IF Beside(u) = {} THEN {} ELSE Beside(u) \cup {b})
                          \cup (IF stock # after[b] THEN {b} ELSE {})
    /\ UNCHANGED <<stock, lastId, batches, items, before, after, edits>>
\* undo_collection_import_item: an inserted row is deleted, an updated one gets
\* the state it had; what is not there any more is left alone.  An updated row
\* without an earlier state has nothing to restore.
UndoItem(u) ==
    LET l == load[u]
        i == Head(l.undo) IN
    /\ AtStep(u, "undo") /\ l.undo # <<>>
    /\ stock' = IF stock[i.id] = NoRow \/ (i.action = "updated" /\ i.old = NoRow) THEN stock
                ELSE [stock EXCEPT ![i.id] = IF i.action = "inserted" THEN NoRow ELSE i.old]
    /\ Step(u, "undo", [l EXCEPT !.undo = Tail(@)])
    /\ UNCHANGED <<lastId, batches, items, past, edits>>
MarkUndone(u) ==
    /\ AtStep(u, "undo") /\ load[u].undo = <<>>
    /\ batches' = [batches EXCEPT ![load[u].batch].status = "undone"]
    /\ Step(u, "idle", NoLoad)
    /\ UNCHANGED <<stock, lastId, items, past, edits>>

\* The owner, or a trade, changes the copies of a row or removes it.
EditRow(r, copies) ==
    /\ stock[r] # NoRow /\ copies # stock[r].copies /\ edits < MaxEdits /\ edits' = edits + 1
    /\ stock' = [stock EXCEPT ![r] = IF copies = 0 THEN NoRow ELSE [@ EXCEPT !.copies = copies]]
    /\ blurred' = blurred \cup {load[u].batch : u \in {u \in Movers : ~AtStep(u, "idle")}}
    /\ UNCHANGED <<lastId, batches, items, atDesk, before, after>>

MoverNext(u) ==
    \/ \E b \in Batches :
         \/ \E file \in Files, merge \in BOOLEAN, status \in {"preview", "applied"} :
              CreateBatch(u, b, file, merge, status)
         \/ CommitPreview(u, b) \/ ReadBatch(u, b)
    \/ LookForRow(u) \/ MatchRow(u) \/ WriteRow(u) \/ KeepItem(u) \/ FinishImport(u)
    \/ ImportStops(u) \/ UndoItem(u) \/ MarkUndone(u)
ImportNext ==
    \/ \E u \in Movers : MoverNext(u)
    \/ \E r \in RowIds, copies \in 0..MaxCopies : EditRow(r, copies)

ImportSpec == ImportInit /\ [][ImportNext]_importVars

-----------------------------------------------------------------------------
\* Undoing an import leaves the collection exactly as the import found it, with
\* rows merged twice by one file and rows at the cap, if the collection is as
\* the import left it when the undo begins, and neither was cut short nor had
\* another writer beside it.
UndoRestores ==
    [][\A u \in Movers :
          AtStep(u, "undo") /\ ipc'[u] = "idle" /\ load[u].undo = <<>>
              /\ load[u].batch \notin blurred' => stock' = before[load[u].batch]]_importVars
=============================================================================
