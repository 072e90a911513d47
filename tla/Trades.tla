------------------------------- MODULE Trades -------------------------------
(***************************************************************************)
(* Trade offers and their settlement: binderbridge/trade_service.py, the   *)
(* requests of trade_routes.py that call it, and the owners' own edits of  *)
(* the collection rows the offers refer to (collection_service.py).        *)
(*                                                                         *)
(* Every request is a thread of the web server.  A SELECT before the first *)
(* INSERT, UPDATE or DELETE of `with db()` runs outside the transaction,   *)
(* so what it read may be stale when the request writes.  From its first   *)
(* write on a request holds SQLite's write lock until it commits or rolls  *)
(* back, and nobody sees what it has written: complete_trade moves the     *)
(* items one by one on such a private draft of the table.                  *)
(***************************************************************************)
EXTENDS Naturals, Sequences

CONSTANTS
    Users, Cards,     \* a card: every column complete_trade matches rows by
    RowIds,           \* ids of collection_items
    TradeIds,         \* ids of trades
    Requests,         \* server threads
    NoOne,            \* no owner, no row, no trade
    Collection,       \* the collection rows at the start
    MaxQuantity,      \* MAX_CARD_QUANTITY
    MaxItems,         \* bound: items of an offer
    MaxArrivals,      \* bound: offers, requests and edits in a behaviour
    Interleaved,      \* FALSE: one request at a time
    Relabelling       \* owners may edit which card a row is

Gone == [owner |-> NoOne, card |-> NoOne, qty |-> 0, forTrade |-> 0]
Row == [owner : Users, card : Cards, qty : Nat, forTrade : Nat] \cup {Gone}

ASSUME IdsAssumption == RowIds \subseteq Nat
ASSUME NoOneAssumption ==
    NoOne \notin Users \cup Cards \cup RowIds \cup TradeIds \cup Requests
ASSUME CollectionAssumption ==
    /\ Collection \in [RowIds -> Row]
    /\ \A r \in RowIds : Collection[r].forTrade <= Collection[r].qty
ASSUME BoundsAssumption ==
    /\ MaxQuantity \in Nat /\ MaxItems \in Nat /\ MaxArrivals \in Nat
    /\ Interleaved \in BOOLEAN /\ Relabelling \in BOOLEAN

VARIABLES
    rows,       \* collection_items, as committed
    offers,     \* trades and trade_items, as committed
    req,        \* what each request has read and has still to do
    writer,     \* the request that holds the write lock
    draft,      \* its uncommitted collection_items
    arrivals    \* history: bounds the behaviours

vars == <<rows, offers, req, writer, draft, arrivals>>

Side == {"offered", "requested"}
Item == [row : RowIds \cup {NoOne}, owner : Users, side : Side,
         card : Cards, qty : Nat]
Offer == [status : {"absent", "pending", "accepted", "declined", "cancelled", "completed"},
          proposer : Users \cup {NoOne}, recipient : Users \cup {NoOne},
          items : Seq(Item)]
NoOffer == [status |-> "absent", proposer |-> NoOne, recipient |-> NoOne, items |-> <<>>]

\* A collection row a request has read, or the row an addition will insert.
Source == [id : RowIds \cup {NoOne}, owner : Users \cup {NoOne},
           card : Cards \cup {NoOne}, qty : Nat, forTrade : Nat]
NoSource == [id |-> NoOne, owner |-> NoOne, card |-> NoOne, qty |-> 0, forTrade |-> 0]

Stage == {"idle", "accepted", "declined", "cancelled", "counter",
          "items", "source", "settle", "settling", "add"}
Request == [stage : Stage, trade : TradeIds \cup {NoOne},
            proposer : Users \cup {NoOne}, recipient : Users \cup {NoOne},
            items : Seq(Item), src : Source]
Idle == [stage |-> "idle", trade |-> NoOne, proposer |-> NoOne,
         recipient |-> NoOne, items |-> <<>>, src |-> NoSource]
NoDraft == [r \in RowIds |-> Gone]

\* Types of the tables and of what requests hold in memory.
TypeOK ==
    /\ rows \in [RowIds -> Row]
    /\ offers \in [TradeIds -> Offer]
    /\ req \in [Requests -> Request]
    /\ writer \in Requests \cup {NoOne}
    /\ draft \in [RowIds -> Row]
    /\ arrivals \in Nat

-----------------------------------------------------------------------------
Least(a, b) == IF a <= b THEN a ELSE b
\* Mutant: without max(0, ...).
MinusUnbounded(a, b) == a - b
Minus(a, b) == IF a <= b THEN 0 ELSE a - b

Amounts(row, n, m) == [row EXCEPT !.qty = n, !.forTrade = m]

Present(tbl, r) == tbl[r].owner # NoOne
Matches(tbl, u, c) == {r \in RowIds : tbl[r].owner = u /\ tbl[r].card = c}

\* AUTOINCREMENT never reuses an id: a new row has one nobody refers to.
Remembered(r) == \E q \in Requests :
    \/ req[q].src.id = r
    \/ \E i \in DOMAIN req[q].items : req[q].items[i].row = r
Free(tbl) == {r \in RowIds : tbl[r] = Gone /\ rows[r] = Gone /\ ~Remembered(r)}
NewId(tbl) == {r \in Free(tbl) : \A s \in Free(tbl) : r <= s}

\* Mutant: of the offers that name a deleted row only one is cleared.
UnlinkedOnce(os, tbl) ==
    LET Torn(t) == {i \in DOMAIN os[t].items : os[t].items[i].row # NoOne
                                            /\ ~Present(tbl, os[t].items[i].row)}
        first == {CHOOSE t \in TradeIds : Torn(t) # {} \/ \A u \in TradeIds : Torn(u) = {}}
    IN [t \in TradeIds |-> [os[t] EXCEPT !.items =
           [i \in DOMAIN os[t].items |-> IF t \in first /\ i \in Torn(t)
                THEN [os[t].items[i] EXCEPT !.row = NoOne] ELSE os[t].items[i]]]]
\* trade_items.collection_item_id REFERENCES collection_items ON DELETE SET NULL
Unlinked(os, tbl) ==
    [t \in TradeIds |-> [os[t] EXCEPT !.items =
        [i \in DOMAIN os[t].items |->
            IF os[t].items[i].row # NoOne /\ ~Present(tbl, os[t].items[i].row)
            THEN [os[t].items[i] EXCEPT !.row = NoOne] ELSE os[t].items[i]]]]

\* The items a form can select: tradeable copies of rows of the two parties,
\* each row once, the proposer's side first.
Choice(u, side) ==
    UNION {{[row |-> r, owner |-> u, side |-> side, card |-> rows[r].card, qty |-> n]
              : n \in 1..rows[r].forTrade} : r \in {s \in RowIds : rows[s].owner = u}}
Terms(u, v) ==
    {its \in UNION {[1..n -> Choice(u, "offered") \cup Choice(v, "requested")]
                      : n \in 1..MaxItems} :
        \A i, j \in DOMAIN its : i < j =>
            /\ its[i].row # its[j].row
            /\ its[i].side = "requested" => its[j].side = "requested"}

Init ==
    /\ rows = Collection
    /\ offers = [t \in TradeIds |-> NoOffer]
    /\ req = [q \in Requests |-> Idle]
    /\ writer = NoOne
    /\ draft = NoDraft
    /\ arrivals = 0

Unlocked == writer = NoOne
\* Bounds: the arrivals, and in a serial instance one request at a time.
MayArrive ==
    /\ arrivals < MaxArrivals
    /\ Interleaved \/ \A q \in Requests : req[q] = Idle
    /\ arrivals' = arrivals + 1
Arrives(q, r) ==
    /\ req[q] = Idle
    /\ MayArrive
    /\ req' = [req EXCEPT ![q] = r]
    /\ UNCHANGED <<rows, offers, writer, draft>>
Finish(q) == req' = [req EXCEPT ![q] = Idle]

-----------------------------------------------------------------------------
(* Offers. *)

Pending(u, v, its) ==
    [status |-> "pending", proposer |-> u, recipient |-> v, items |-> its]

\* create_trade_offer of a new trade is one transaction.  The rows its items
\* name were read before; an item whose row has gone since is refused by the
\* foreign key, and any other change commutes with the insertion.
Propose(t, u, v) ==
    /\ u # v
    /\ offers[t].status = "absent"
    /\ Unlocked
    /\ MayArrive
    /\ \E its \in Terms(u, v) : offers' = [offers EXCEPT ![t] = Pending(u, v, its)]
    /\ UNCHANGED <<rows, req, writer, draft>>

CounterRead(q, t) ==
    /\ offers[t].status = "pending"
    /\ Arrives(q, [Idle EXCEPT !.stage = "counter", !.trade = t,
                    !.proposer = offers[t].recipient, !.recipient = offers[t].proposer])

\* Mutant: the countered trade keeps the items it had.
CounterKeepsItems(q) ==
    /\ req[q].stage = "counter"
    /\ Unlocked
    /\ offers' = [offers EXCEPT ![req[q].trade] =
            Pending(req[q].proposer, req[q].recipient, @.items)]
    /\ Finish(q)
    /\ UNCHANGED <<rows, writer, draft, arrivals>>

\* The same trade with the parties exchanged and new items, WHERE id = ?.
CounterWrite(q) ==
    /\ req[q].stage = "counter"
    /\ Unlocked
    /\ \E its \in Terms(req[q].proposer, req[q].recipient) :
         offers' = [offers EXCEPT ![req[q].trade] =
                       Pending(req[q].proposer, req[q].recipient, its)]
    /\ Finish(q)
    /\ UNCHANGED <<rows, writer, draft, arrivals>>

RespondRead(q, t, decision) ==
    /\ offers[t].status = "pending"
    /\ Arrives(q, [Idle EXCEPT !.stage = decision, !.trade = t])

CancelRead(q, t) ==
    /\ offers[t].status = "pending"
    /\ Arrives(q, [Idle EXCEPT !.stage = "cancelled", !.trade = t])

\* UPDATE trades SET status = ? WHERE id = ?, without the status it had.
SetStatus(q, s) ==
    /\ req[q].stage = s
    /\ Unlocked
    /\ offers' = [offers EXCEPT ![req[q].trade].status = s]
    /\ Finish(q)
    /\ UNCHANGED <<rows, writer, draft, arrivals>>
RespondWrite(q) == SetStatus(q, "accepted") \/ SetStatus(q, "declined")
CancelWrite(q) == SetStatus(q, "cancelled")

-----------------------------------------------------------------------------
(* Settlement: complete_trade. *)

CompleteRead(q, t) ==
    /\ offers[t].status = "accepted"
    /\ Arrives(q, [Idle EXCEPT !.stage = "items", !.trade = t,
                    !.proposer = offers[t].proposer, !.recipient = offers[t].recipient])

ReadItems(q) ==
    /\ req[q].stage = "items"
    /\ LET its == offers[req[q].trade].items IN
       req' = [req EXCEPT ![q] = [@ EXCEPT !.stage = "source", !.items = its]]
    /\ UNCHANGED <<rows, offers, writer, draft, arrivals>>

\* The row is still its owner's and holds enough.
CanGive(tbl, it) ==
    /\ it.row # NoOne
    /\ tbl[it.row].owner = it.owner
    /\ it.qty <= tbl[it.row].qty

AsRead(tbl, r) == [id |-> r, owner |-> tbl[r].owner, card |-> tbl[r].card,
                   qty |-> tbl[r].qty, forTrade |-> tbl[r].forTrade]

\* The first item's row is read before the transaction begins.
ReadSource(q) ==
    LET it == Head(req[q].items) IN
    /\ req[q].stage = "source"
    /\ IF CanGive(rows, it)
       THEN LET s == AsRead(rows, it.row) IN
            req' = [req EXCEPT ![q] = [@ EXCEPT !.stage = "settle", !.src = s]]
       ELSE Finish(q)     \* "no longer in the collection", "not enough"
    /\ UNCHANGED <<rows, offers, writer, draft, arrivals>>

\* Mutant: the tradeable amount of the source row is not lowered.
TakenKeepingTradeable(tbl, s, n) ==
    IF s.qty = n THEN [tbl EXCEPT ![s.id] = Gone]
    ELSE IF ~Present(tbl, s.id) THEN tbl
    ELSE [tbl EXCEPT ![s.id] = Amounts(@, s.qty - n, s.forTrade)]

\* The source row is deleted, or overwritten with amounts computed from the
\* row as it was read.
Taken(tbl, s, n) ==
    IF s.qty = n THEN [tbl EXCEPT ![s.id] = Gone]
    ELSE IF ~Present(tbl, s.id) THEN tbl
    ELSE [tbl EXCEPT ![s.id] =
            Amounts(@, s.qty - n, Least(Minus(s.forTrade, n), s.qty - n))]

\* Mutant: a row of the same card is set to the traded amount.
GivenOverwriting(tbl, to, c, n) ==
    IF Matches(tbl, to, c) # {}
    THEN {[tbl EXCEPT ![r].qty = n] : r \in Matches(tbl, to, c)}
    ELSE {[tbl EXCEPT ![r] = [owner |-> to, card |-> c, qty |-> n, forTrade |-> 0]]
             : r \in NewId(tbl)}

\* The card is added to a row of the same card, any one, or to a new row.
Given(tbl, to, c, n) ==
    IF Matches(tbl, to, c) # {}
    THEN {[tbl EXCEPT ![r].qty = @ + n] : r \in Matches(tbl, to, c)}
    ELSE {[tbl EXCEPT ![r] = [owner |-> to, card |-> c, qty |-> n, forTrade |-> 0]]
             : r \in NewId(tbl)}

Receiver(q, it) == IF it.side = "offered" THEN req[q].recipient ELSE req[q].proposer
Moved(r) == [r EXCEPT !.stage = "settling", !.items = Tail(r.items), !.src = NoSource]
\* Moves the first of the remaining items on the draft, from the row s.
Move(q, tbl, s) ==
    LET it == Head(req[q].items) IN
    /\ draft' \in Given(Taken(tbl, s, it.qty), Receiver(q, it), s.card, it.qty)
    /\ req' = [req EXCEPT ![q] = Moved(@)]

SettleFirst(q) ==
    /\ req[q].stage = "settle"
    /\ Unlocked
    /\ writer' = q
    /\ Move(q, rows, req[q].src)
    /\ UNCHANGED <<rows, offers, arrivals>>

SettleNext(q) ==
    /\ req[q].stage = "settling"
    /\ req[q].items # <<>>
    /\ CanGive(draft, Head(req[q].items))
    /\ Move(q, draft, AsRead(draft, Head(req[q].items).row))
    /\ UNCHANGED <<rows, offers, writer, arrivals>>

\* The transaction ends without effect and the request with it.
Rollback(q) ==
    /\ Finish(q)
    /\ IF writer = q THEN writer' = NoOne /\ draft' = NoDraft
                     ELSE UNCHANGED <<writer, draft>>
    /\ UNCHANGED <<rows, offers, arrivals>>

\* Mutant: a failed item is left out and the rest is settled.
SettleSkips(q) ==
    /\ req[q].stage = "settling"
    /\ req[q].items # <<>>
    /\ ~CanGive(draft, Head(req[q].items))
    /\ req' = [req EXCEPT ![q].items = Tail(@)]
    /\ UNCHANGED <<rows, offers, writer, draft, arrivals>>

\* Mutant: the failure leaves the transaction open.
SettleFailsOpen(q) ==
    /\ req[q].stage = "settling"
    /\ req[q].items # <<>>
    /\ ~CanGive(draft, Head(req[q].items))
    /\ Finish(q)
    /\ UNCHANGED <<rows, offers, writer, draft, arrivals>>

\* A later item cannot be given: ValueError, and db() rolls everything back.
SettleFails(q) ==
    /\ req[q].stage = "settling"
    /\ req[q].items # <<>>
    /\ ~CanGive(draft, Head(req[q].items))
    /\ Rollback(q)

Commit(q) ==
    /\ req[q].stage = "settling"
    /\ req[q].items = <<>>
    /\ rows' = draft
    /\ offers' = Unlinked([offers EXCEPT ![req[q].trade].status = "completed"], draft)
    /\ writer' = NoOne /\ draft' = NoDraft
    /\ Finish(q)
    /\ UNCHANGED arrivals

\* A request ends early: a check it makes between read and write refuses, the
\* lock wait times out, or the process stops.
Abandon(q) == req[q] # Idle /\ Rollback(q)

-----------------------------------------------------------------------------
(* Owners. *)

\* update_collection_item: every field of the row from the form.
EditRow(r, c, n, m) ==
    /\ Present(rows, r)
    /\ Relabelling \/ c = rows[r].card
    /\ Unlocked
    /\ MayArrive
    /\ rows' = [rows EXCEPT ![r] = [Amounts(@, n, m) EXCEPT !.card = c]]
    /\ UNCHANGED <<offers, req, writer, draft>>

\* bulk_delete_collection_items
DeleteRow(r) ==
    /\ Present(rows, r)
    /\ Unlocked
    /\ MayArrive
    /\ rows' = [rows EXCEPT ![r] = Gone]
    /\ offers' = Unlinked(offers, rows')
    /\ UNCHANGED <<req, writer, draft>>

\* upsert_collection_item: the row to merge into is read in a transaction of
\* its own.
AddRead(q, u, c) ==
    \/ \E r \in Matches(rows, u, c) :
          Arrives(q, [Idle EXCEPT !.stage = "add", !.src = AsRead(rows, r)])
    \/ /\ Matches(rows, u, c) = {}
       /\ Arrives(q, [Idle EXCEPT !.stage = "add",
                        !.src = [NoSource EXCEPT !.owner = u, !.card = c]])

AddWrite(q, n, m) ==
    LET s == req[q].src
        total == Least(MaxQuantity, s.qty + n)
        added == [owner |-> s.owner, card |-> s.card, qty |-> n, forTrade |-> m]
    IN
    /\ req[q].stage = "add"
    /\ Unlocked
    /\ IF s.id = NoOne
       THEN \E r \in NewId(rows) : rows' = [rows EXCEPT ![r] = added]
       ELSE rows' = IF Present(rows, s.id)
                    THEN [rows EXCEPT ![s.id] =
                            Amounts(@, total, Least(s.forTrade + m, total))]
                    ELSE rows
    /\ Finish(q)
    /\ UNCHANGED <<offers, writer, draft, arrivals>>

-----------------------------------------------------------------------------
Settle(q) ==
    \/ ReadItems(q) \/ ReadSource(q)
    \/ SettleFirst(q) \/ SettleNext(q) \/ SettleFails(q) \/ Commit(q)

Next ==
    \/ \E t \in TradeIds, u, v \in Users : Propose(t, u, v)
    \/ \E q \in Requests, t \in TradeIds :
          \/ CounterRead(q, t) \/ CancelRead(q, t) \/ CompleteRead(q, t)
          \/ \E d \in {"accepted", "declined"} : RespondRead(q, t, d)
    \/ \E q \in Requests :
          CounterWrite(q) \/ RespondWrite(q) \/ CancelWrite(q) \/ Settle(q) \/ Abandon(q)
    \/ \E r \in RowIds : DeleteRow(r)
    \/ \E r \in RowIds, c \in Cards, n \in 0..MaxQuantity :
          \E m \in 0..n : EditRow(r, c, n, m)
    \/ \E q \in Requests, u \in Users, c \in Cards : AddRead(q, u, c)
    \/ \E q \in Requests, n \in 0..MaxQuantity : \E m \in 0..n : AddWrite(q, n, m)

Spec == Init /\ [][Next]_vars

-----------------------------------------------------------------------------
\* Properties.

\* No row offers more copies than it holds, in the table, in an uncommitted
\* settlement, or in what a request will write back: the amounts that
\* complete_trade, the edit form and upsert compute from rows they read
\* earlier stay within the row's quantity whatever happened since.
TradeableWithinQuantity ==
    /\ \A r \in RowIds : /\ rows[r].forTrade <= rows[r].qty
                         /\ draft[r].forTrade <= draft[r].qty
    /\ \A q \in Requests : req[q].src.forTrade <= req[q].src.qty

\* An offer always asks of each party what that party owns: a counter-offer
\* exchanges the parties and replaces the items in one transaction, also when
\* two counters, an answer and a cancellation overlap.
ItemsMatchParties ==
    \A t \in TradeIds : \A i \in DOMAIN offers[t].items :
        offers[t].items[i].owner = IF offers[t].items[i].side = "offered"
                                   THEN offers[t].proposer ELSE offers[t].recipient

\* An item points at a row of its owner or at none: rows that a settlement or
\* an owner deletes take the references of every other offer with them, so a
\* later settlement can only fail, never take somebody else's row.
ItemsLinked ==
    \A t \in TradeIds : \A i \in DOMAIN offers[t].items :
        LET it == offers[t].items[i] IN
        it.row # NoOne => rows[it.row].owner = it.owner

\* A settlement commits only a trade that is accepted at that moment
\* (trade_service.py:1000, "Only accepted trades can be completed.").
OnlyAcceptedComplete ==
    [][\A q \in Requests : Commit(q) => offers[req[q].trade].status = "accepted"]_vars

\* A settlement that has begun to write always ends, by a commit or a
\* rollback, so the write lock is given back.
SettlementEnds ==
    \A q \in Requests : (writer = q) ~> (writer # q)

\* A thread that is settling goes on: nothing in the loop of complete_trade
\* waits once the transaction has the write lock.
Fairness == \A q \in Requests :
    WF_vars(SettleNext(q) \/ SettleFails(q) \/ Commit(q))
FairSpec == Spec /\ Fairness
=============================================================================
