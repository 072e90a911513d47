------------------------------- MODULE Decks -------------------------------
(***************************************************************************)
(* The decks and binders of one member, and the merging of duplicate rows  *)
(* (groups.py, cleanup.py).  All rows are of one card, so that any two are *)
(* duplicates.  A deck holds entries, each a row and how many copies of it;*)
(* trade items point at rows as well.  Reads before a transaction are      *)
(* actions of their own, the transaction is one action.                    *)
(***************************************************************************)
EXTENDS Naturals, FiniteSetsExt

CONSTANTS
    Decks, NoDeck,
    Pledges,      \* trade items
    Hands,        \* requests
    MaxOwned,     \* MAX_CARD_QUANTITY: what an owner may enter
    MaxCardRows,  \* bound: rows ever inserted
    MaxEntries,   \* bound: entries ever inserted
    MaxChanges    \* bound: changes of rows by the owner, imports and trades

ASSUME DecksAssumption ==
    /\ NoDeck \notin Decks /\ MaxOwned \in Nat \ {0}
    /\ MaxCardRows \in Nat /\ MaxEntries \in Nat /\ MaxChanges \in Nat

VARIABLES
    copies,       \* collection_items: quantity of each row, 0 for no row
    offered,      \* quantity_for_trade
    lastRow,      \* the newest id
    entries,      \* group_collection_items, by id
    lastEntry,
    pledge,       \* the row each trade item points at, 0 for none
    desk,         \* each request: what it is about to write
    shrunk,       \* history: rows that hold fewer copies than they did
    changes

deckVars == <<copies, offered, lastRow, entries, lastEntry, pledge, desk, shrunk, changes>>

CardRows  == 1..MaxCardRows
EntryIds  == 1..MaxEntries
Entry     == [deck : Decks \cup {NoDeck}, row : 0..MaxCardRows, qty : Nat]
NoEntry   == [deck |-> NoDeck, row |-> 0, qty |-> 0]
Desk == [op : {"none", "merge", "add", "transfer", "set"},
         snap : [CardRows -> Nat], offers : [CardRows -> Nat], stale : BOOLEAN,
         entry : 0..MaxEntries, deck : Decks \cup {NoDeck}, source : Decks \cup {NoDeck},
         row : 0..MaxCardRows, qty : Nat, left : Nat, moves : BOOLEAN]
Empty == [r \in CardRows |-> 0]
Clear == [op |-> "none", snap |-> Empty, offers |-> Empty, stale |-> FALSE,
          entry |-> 0, deck |-> NoDeck, source |-> NoDeck, row |-> 0, qty |-> 0, left |-> 0,
          moves |-> FALSE]

\* A merged row may hold more than an owner may enter.
DecksTypeOK ==
    /\ copies \in [CardRows -> Nat] /\ offered \in [CardRows -> Nat]
    /\ lastRow \in 0..MaxCardRows /\ lastEntry \in 0..MaxEntries
    /\ entries \in [EntryIds -> Entry] /\ pledge \in [Pledges -> 0..MaxCardRows]
    /\ desk \in [Hands -> Desk] /\ shrunk \subseteq CardRows /\ changes \in 0..MaxChanges

DecksInit ==
    /\ copies = Empty /\ offered = Empty /\ lastRow = 0
    /\ entries = [e \in EntryIds |-> NoEntry] /\ lastEntry = 0
    /\ pledge = [p \in Pledges |-> 0]
    /\ desk = [h \in Hands |-> Clear] /\ shrunk = {} /\ changes = 0

-----------------------------------------------------------------------------
Owned(r)      == copies[r] > 0
Lesser(m, n)  == IF m <= n THEN m ELSE n
SumOver(f, S) == MapThenSumSet(LAMBDA r : f[r], S)

\* Rows were written: a merge that has read one of them has read an old one.
Outdated(h, written) ==
    [desk[h] EXCEPT !.stale = @ \/ (desk[h].op = "merge" /\ \E r \in written : desk[h].snap[r] > 0)]
DeskAfter(written) == desk' = [h \in Hands |-> Outdated(h, written)]
Served(h, written) == desk' = [q \in Hands |-> IF q = h THEN Clear ELSE Outdated(q, written)]
Asks(h, what) == desk[h].op = "none" /\ desk' = [desk EXCEPT ![h] = what]

\* Deleted rows take their entries along (ON DELETE CASCADE), and trade items
\* forget them (ON DELETE SET NULL).
Without(es, gone) == [e \in EntryIds |-> IF es[e].row \in gone THEN NoEntry ELSE es[e]]
Forgetting(ps, gone) == [p \in Pledges |-> IF ps[p] \in gone THEN 0 ELSE ps[p]]

-----------------------------------------------------------------------------
(* The rows: the owner, imports, trades.                                   *)

Change(r) == changes < MaxChanges /\ changes' = changes + 1 /\ DeskAfter({r})
NewRow(n, m) ==
    /\ lastRow < MaxCardRows /\ m <= n /\ lastRow' = lastRow + 1
    /\ copies' = [copies EXCEPT ![lastRow + 1] = n]
    /\ offered' = [offered EXCEPT ![lastRow + 1] = m]
    /\ UNCHANGED <<entries, lastEntry, pledge, desk, shrunk, changes>>
EditCopies(r, n, m) ==
    /\ Owned(r) /\ m <= n /\ <<n, m>> # <<copies[r], offered[r]>> /\ Change(r)
    /\ copies' = [copies EXCEPT ![r] = n] /\ offered' = [offered EXCEPT ![r] = m]
    /\ shrunk' = IF n < copies[r] THEN shrunk \cup {r} ELSE shrunk
    /\ UNCHANGED <<lastRow, entries, lastEntry, pledge>>
RemoveRow(r) ==
    /\ Owned(r) /\ Change(r)
    /\ copies' = [copies EXCEPT ![r] = 0] /\ offered' = [offered EXCEPT ![r] = 0]
    /\ entries' = Without(entries, {r}) /\ pledge' = Forgetting(pledge, {r})
    /\ UNCHANGED <<lastRow, lastEntry, shrunk>>
\* A trade item names the row.
PledgeRow(p, r) ==
    /\ Owned(r) /\ pledge[p] = 0 /\ pledge' = [pledge EXCEPT ![p] = r]
    /\ UNCHANGED <<copies, offered, lastRow, entries, lastEntry, desk, shrunk, changes>>

-----------------------------------------------------------------------------
(* Decks.                                                                  *)

InDeck(d, S) == {e \in EntryIds : entries[e].deck = d /\ entries[e].row \in S}
\* Mutant: the copies are added to those the deck holds.
UpsertedAdding(d, r, n) ==
    LET known == InDeck(d, {r}) IN
    IF known = {} THEN [entries EXCEPT ![lastEntry + 1] = [deck |-> d, row |-> r, qty |-> n]]
    ELSE [e \in EntryIds |-> IF e \in known THEN [entries[e] EXCEPT !.qty = @ + n]
                             ELSE entries[e]]
\* INSERT ... ON CONFLICT DO UPDATE SET quantity = excluded.quantity.
Upserted(d, r, n) ==
    LET known == InDeck(d, {r}) IN
    IF known = {} THEN [entries EXCEPT ![lastEntry + 1] = [deck |-> d, row |-> r, qty |-> n]]
    ELSE [e \in EntryIds |-> IF e \in known THEN [entries[e] EXCEPT !.qty = n] ELSE entries[e]]
Upsert(d, r) ==
    IF InDeck(d, {r}) = {} THEN lastEntry < MaxEntries /\ lastEntry' = lastEntry + 1
    ELSE UNCHANGED lastEntry

\* add_collection_item_to_group: the row is read; the number of copies is cut
\* to it, and what is offered to the rest, if the member asks for that.
LookToAdd(h, d, r, n, adjust) ==
    LET qty  == Lesser(n, copies[r])
        rest == Lesser(offered[r], copies[r] - qty) IN
    /\ Owned(r)
    /\ Asks(h, [Clear EXCEPT !.op = "add", !.deck = d, !.row = r, !.qty = qty, !.left = rest,
                             !.moves = adjust /\ rest # offered[r]])
    /\ UNCHANGED <<copies, offered, lastRow, entries, lastEntry, pledge, shrunk, changes>>
\* The row may be gone: the foreign key refuses the entry.
AddToDeck(h) ==
    LET w == desk[h] IN
    /\ w.op = "add"
    /\ IF Owned(w.row)
       THEN /\ Upsert(w.deck, w.row) /\ entries' = Upserted(w.deck, w.row, w.qty)
            /\ offered' = IF w.moves THEN [offered EXCEPT ![w.row] = w.left] ELSE offered
            /\ Served(h, IF w.moves THEN {w.row} ELSE {})
       ELSE Served(h, {}) /\ UNCHANGED <<entries, lastEntry, offered>>
    /\ UNCHANGED <<copies, lastRow, pledge, shrunk, changes>>

\* transfer_group_collection_item: what it reads precedes its first write.
LookToTransfer(h, e, d, n, moves) ==
    LET x   == entries[e]
        qty == Lesser(n, Lesser(x.qty, copies[x.row])) IN
    /\ x # NoEntry /\ d # x.deck
    /\ Asks(h, [Clear EXCEPT !.op = "transfer", !.entry = e, !.deck = d, !.source = x.deck,
                             !.row = x.row, !.qty = qty, !.left = x.qty - qty, !.moves = moves])
    /\ UNCHANGED <<copies, offered, lastRow, entries, lastEntry, pledge, shrunk, changes>>
\* The target's entry gets this number; the source's, by its id, the rest.
Transfer(h) ==
    LET w     == desk[h]
        there == Upserted(w.deck, w.row, w.qty) IN
    /\ w.op = "transfer" /\ Served(h, {})
    /\ IF Owned(w.row)
       THEN /\ Upsert(w.deck, w.row)
            /\ entries' = IF ~w.moves \/ there[w.entry].deck # w.source THEN there
                          ELSE [there EXCEPT ![w.entry] =
                                  IF w.left = 0 THEN NoEntry ELSE [@ EXCEPT !.qty = w.left]]
       ELSE UNCHANGED <<entries, lastEntry>>
    /\ UNCHANGED <<copies, offered, lastRow, pledge, shrunk, changes>>

\* update_group_collection_item_quantities
LookToSet(h, e, n) ==
    /\ entries[e] # NoEntry
    /\ Asks(h, [Clear EXCEPT !.op = "set", !.entry = e, !.qty = Lesser(n, copies[entries[e].row])])
    /\ UNCHANGED <<copies, offered, lastRow, entries, lastEntry, pledge, shrunk, changes>>
SetQuantity(h) ==
    LET w == desk[h] IN
    /\ w.op = "set" /\ Served(h, {})
    /\ entries' = IF entries[w.entry] = NoEntry THEN entries
                  ELSE [entries EXCEPT ![w.entry].qty = w.qty]
    /\ UNCHANGED <<copies, offered, lastRow, lastEntry, pledge, shrunk, changes>>
\* remove_group_items, of one deck.
RemoveEntries(d, gone) ==
    /\ gone # {} /\ gone \subseteq {e \in EntryIds : entries[e].deck = d}
    /\ entries' = [e \in EntryIds |-> IF e \in gone THEN NoEntry ELSE entries[e]]
    /\ UNCHANGED <<copies, offered, lastRow, lastEntry, pledge, desk, shrunk, changes>>

-----------------------------------------------------------------------------
(* cleanup_collection_duplicates.                                          *)

\* collection_duplicate_groups, before the transaction.
LookForDuplicates(h) ==
    /\ Cardinality({r \in CardRows : Owned(r)}) >= 2
    /\ Asks(h, [Clear EXCEPT !.op = "merge", !.snap = copies, !.offers = offered])
    /\ UNCHANGED <<copies, offered, lastRow, entries, lastEntry, pledge, shrunk, changes>>

\* merge_collection_group_rows, for one duplicate after the other: the first
\* entry of a deck becomes that of the row that is kept, the others are added
\* to it, up to what the merged row holds.
MergeEntries(S, keep, total) ==
    [e \in EntryIds |->
       LET x     == entries[e]
           mates == InDeck(x.deck, S) IN
       IF x.row \notin S THEN x
       ELSE IF \E f \in mates : entries[f].row < x.row THEN NoEntry
       ELSE [x EXCEPT !.row = keep,
                      !.qty = IF mates = {e} THEN @
                              ELSE Lesser(total, SumOver([f \in EntryIds |-> entries[f].qty], mates))]]
\* Mutant: the last of them is forgotten.
SelectedButLast(snap) ==
    {r \in CardRows : snap[r] > 0 /\ \E q \in CardRows : q > r /\ snap[q] > 0}
\* The rows a merge works on: those it has read.
Selected(snap) == {r \in CardRows : snap[r] > 0}
\* The oldest row gets the sums of what was read; entries and trade items
\* follow; the other rows are deleted.
MergeInto(h, S, keep, total) ==
    LET rest == S \ {keep} IN
    /\ copies' = [r \in CardRows |-> IF r = keep THEN total
                                     ELSE IF r \in rest THEN 0 ELSE copies[r]]
    /\ offered' = [r \in CardRows |->
                     IF r = keep THEN Lesser(total, SumOver(desk[h].offers, CardRows))
                     ELSE IF r \in rest THEN 0 ELSE offered[r]]
    /\ entries' = MergeEntries(S, keep, total)
    /\ pledge' = [p \in Pledges |-> IF pledge[p] \in rest THEN keep ELSE pledge[p]]
    /\ shrunk' = IF S \cap shrunk # {} \/ total < SumOver(copies, S)
                 THEN shrunk \cup {keep} ELSE shrunk
    /\ Served(h, S)
\* When the oldest row is gone, its UPDATE changes nothing; a reference that
\* should follow is refused by the foreign key and everything rolled back, and if
\* there is none the others are deleted all the same.
Unnamed(rest) ==
    /\ \A e \in EntryIds : entries[e].row \notin rest
    /\ \A p \in Pledges : pledge[p] \notin rest
Discard(h, rest) ==
    /\ copies' = [r \in CardRows |-> IF r \in rest THEN 0 ELSE copies[r]]
    /\ offered' = [r \in CardRows |-> IF r \in rest THEN 0 ELSE offered[r]]
    /\ Served(h, rest) /\ UNCHANGED <<entries, pledge, shrunk>>
\* merge_collection_duplicate_group (noted: prices and lookups refer to rows too).
Merge(h, noted) ==
    LET snap == desk[h].snap
        keep == Min({r \in CardRows : snap[r] > 0})
        S    == Selected(snap) \cup {keep}
        rest == S \ {keep} IN
    /\ desk[h].op = "merge"
    /\ IF Owned(keep) THEN MergeInto(h, S, keep, SumOver(snap, CardRows))
       ELSE IF ~noted /\ Unnamed(rest) THEN Discard(h, rest)
       ELSE Served(h, {}) /\ UNCHANGED <<copies, offered, entries, pledge, shrunk>>
    /\ UNCHANGED <<lastRow, lastEntry, changes>>

HandNext(h) ==
    \/ \E d \in Decks, r \in CardRows, n \in 1..MaxOwned, adjust \in BOOLEAN :
         LookToAdd(h, d, r, n, adjust)
    \/ \E e \in EntryIds, n \in 1..MaxOwned :
         \/ LookToSet(h, e, n)
         \/ \E d \in Decks, moves \in BOOLEAN : LookToTransfer(h, e, d, n, moves)
    \/ LookForDuplicates(h)
    \/ AddToDeck(h) \/ Transfer(h) \/ SetQuantity(h)
    \/ \E noted \in BOOLEAN : Merge(h, noted)
DecksNext ==
    \/ \E h \in Hands : HandNext(h)
    \/ \E n \in 1..MaxOwned, m \in 0..MaxOwned :
         NewRow(n, m) \/ \E r \in CardRows : EditCopies(r, n, m)
    \/ \E r \in CardRows : RemoveRow(r) \/ \E p \in Pledges : PledgeRow(p, r)
    \/ \E d \in Decks, gone \in SUBSET EntryIds : RemoveEntries(d, gone)

DecksSpec == DecksInit /\ [][DecksNext]_deckVars

-----------------------------------------------------------------------------
(* Properties.                                                             *)

\* A merge is over.
Merges(h) == desk[h].op = "merge" /\ desk'[h].op = "none"

\* A merge neither makes nor loses a copy of the rows it has read, and offers no
\* fewer of them than it may, if none of them was written since, and leaves other
\* rows (those that appeared since) alone; and whatever was written, it leaves
\* every trade item that named a row with a row, and every deck that held the
\* card with it.
MergeKeeps ==
    [][\A h \in Hands : Merges(h) =>
          LET read == {r \in CardRows : desk[h].snap[r] > 0} IN
          /\ ~desk[h].stale =>
                /\ SumOver(copies', read) = SumOver(copies, read)
                /\ SumOver(offered', read)
                     >= Lesser(SumOver(copies, read), SumOver(offered, read))
          /\ \A r \in CardRows \ read : copies'[r] = copies[r] /\ offered'[r] = offered[r]
          /\ \A p \in Pledges : pledge[p] # 0 => pledge'[p] # 0 /\ copies'[pledge'[p]] > 0
          /\ \A d \in Decks : InDeck(d, CardRows) # {} =>
                \E e \in EntryIds : entries'[e].deck = d /\ copies'[entries'[e].row] > 0]_deckVars

\* A deck holds no more copies of a row than the member owns, although decks are
\* filled, moved and merged on stale reads, unless the row itself was lowered.
DeckWithinOwned ==
    \A e \in EntryIds :
        entries[e] # NoEntry =>
            entries[e].qty <= copies[entries[e].row] \/ entries[e].row \in shrunk
=============================================================================
