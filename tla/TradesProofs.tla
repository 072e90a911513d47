---------------------------- MODULE TradesProofs ----------------------------
(***************************************************************************)
(* Proofs about Trades, for any members, cards, rows, trades, requests and *)
(* bounds, with requests interleaved or not.                               *)
(*                                                                         *)
(* The inductive invariant Inv adds to the three safety invariants what    *)
(* they need of each other: offers and requests in progress name members   *)
(* and trades that exist (GoodOffer, GoodRequest), and the draft of a      *)
(* settlement never gives a row of the table to another owner              *)
(* (KeepsOwners), so that committing it leaves no item on a foreign row.   *)
(*                                                                         *)
(* Conservation: copies of a card are a sum over the rows (CopiesAreShares *)
(* turns the selection into shares), and moving an item changes the sum of *)
(* two owners by the same amount (MoveConserves), so the total stays.      *)
(*                                                                         *)
(* Refinement of TradeLedger, one request at a time: SerialInv adds that   *)
(* what a request has read is still what the tables say (AsRequested),     *)
(* and that between the table and a draft exactly the items already moved  *)
(* have changed hands (Halfway), so that a commit settles the whole deal.  *)
(***************************************************************************)
EXTENDS TradesRefinement, SumTheorems, TLAPS

Tradeable(tbl) == \A r \in RowIds : tbl[r].forTrade <= tbl[r].qty

\* A row of tbl that the committed table has too belongs to the same owner.
KeepsOwners(tbl) == \A r \in RowIds :
    tbl[r].owner # NoOne /\ rows[r].owner # NoOne => tbl[r].owner = rows[r].owner

GoodItem(o, it, tbl) ==
    /\ it.owner = IF it.side = "offered" THEN o.proposer ELSE o.recipient
    /\ it.row # NoOne => tbl[it.row].owner = it.owner

GoodOffer(o, tbl) ==
    /\ o.status # "absent" => /\ o.proposer \in Users /\ o.recipient \in Users
                              /\ o.items # <<>>
    /\ \A i \in DOMAIN o.items : GoodItem(o, o.items[i], tbl)

Settling == {"items", "source", "settle", "settling"}

GoodRequest(r, os) ==
    /\ r.trade # NoOne => os[r.trade].status # "absent"
    /\ r.stage \in {"accepted", "declined", "cancelled", "counter"} \cup Settling
          => r.trade # NoOne
    /\ r.stage \in {"counter"} \cup Settling => r.proposer \in Users /\ r.recipient \in Users
    /\ r.stage \in {"source", "settle"} => r.items # <<>>
    /\ r.stage \in {"settle", "add"} => r.src.owner \in Users /\ r.src.card \in Cards
    /\ r.stage = "settle" => r.src.id \in RowIds /\ Head(r.items).qty <= r.src.qty
    /\ r.src.forTrade <= r.src.qty

Inv ==
    /\ TypeOK
    /\ Tradeable(rows) /\ Tradeable(draft)
    /\ KeepsOwners(draft)
    /\ writer = NoOne => draft = NoDraft
    /\ \A q \in Requests : req[q].stage = "settling" <=> writer = q
    /\ \A t \in TradeIds : GoodOffer(offers[t], rows)
    /\ \A q \in Requests : GoodRequest(req[q], offers)

-----------------------------------------------------------------------------
(* The helpers. *)

LEMMA RowFields ==
    ASSUME NEW tbl \in [RowIds -> Row], NEW r \in RowIds
    PROVE  /\ tbl[r].owner \in Users \cup {NoOne} /\ tbl[r].card \in Cards \cup {NoOne}
           /\ tbl[r].qty \in Nat /\ tbl[r].forTrade \in Nat
           /\ tbl[r].owner \in Users <=> tbl[r].owner # NoOne
           /\ tbl[r].owner # NoOne =>
                 tbl[r] \in [owner : Users, card : Cards, qty : Nat, forTrade : Nat]
<1>1. tbl[r] \in Row
  OBVIOUS
<1>2. CASE tbl[r] = Gone
  BY <1>2, NoOneAssumption DEF Gone
<1>3. CASE tbl[r] \in [owner : Users, card : Cards, qty : Nat, forTrade : Nat]
  BY <1>3, NoOneAssumption
<1> QED
  BY <1>1, <1>2, <1>3 DEF Row

LEMMA GoneIsRow == Gone \in Row /\ Gone.forTrade <= Gone.qty /\ Gone.owner = NoOne
BY DEF Gone, Row

\* What Terms offers to choose from.
LEMMA TermsGood ==
    ASSUME rows \in [RowIds -> Row], NEW u \in Users, NEW v \in Users,
           NEW its \in Terms(u, v)
    PROVE  /\ its \in Seq(Item) /\ its # <<>>
           /\ \A i \in DOMAIN its :
                /\ its[i].owner = IF its[i].side = "offered" THEN u ELSE v
                /\ rows[its[i].row].owner = its[i].owner
                /\ rows[its[i].row].card = its[i].card
<1> DEFINE C == Choice(u, "offered") \cup Choice(v, "requested")
<1>1. \A w \in Users, side \in Side : \A it \in Choice(w, side) :
         /\ it \in Item /\ it.owner = w /\ it.side = side
         /\ rows[it.row].owner = w /\ rows[it.row].card = it.card
  <2>1. SUFFICES ASSUME NEW w \in Users, NEW side \in Side, NEW it \in Choice(w, side)
                 PROVE  /\ it \in Item /\ it.owner = w /\ it.side = side
                        /\ rows[it.row].owner = w /\ rows[it.row].card = it.card
    OBVIOUS
  <2>2. PICK r \in RowIds : \E n \in 1..rows[r].forTrade :
           /\ rows[r].owner = w
           /\ it = [row |-> r, owner |-> w, side |-> side, card |-> rows[r].card, qty |-> n]
    BY DEF Choice
  <2>3. rows[r].card \in Cards /\ rows[r].forTrade \in Nat
    BY <2>2, RowFields, NoOneAssumption
  <2>4. 1..rows[r].forTrade \subseteq Nat
    BY <2>3
  <2> QED
    BY <2>2, <2>3, <2>4 DEF Item
<1>2. PICK n \in 1..MaxItems : its \in [1..n -> C]
  BY DEF Terms
<1>3. n \in Nat /\ n > 0
  BY BoundsAssumption
<1>4. \A it \in C : /\ it \in Item
                    /\ it.owner = IF it.side = "offered" THEN u ELSE v
                    /\ rows[it.row].owner = it.owner /\ rows[it.row].card = it.card
  BY <1>1 DEF Side
<1>5. its \in Seq(C) /\ DOMAIN its = 1..n /\ Len(its) = n
  BY <1>2, <1>3
<1>6. its \in Seq(Item)
  <2>1. its \in [1..n -> Item]
    BY <1>2, <1>4
  <2> QED
    BY <2>1, <1>3
<1>7. its # <<>>
  BY <1>3, <1>5
<1>8. \A i \in DOMAIN its : its[i] \in C
  BY <1>2
<1> QED
  BY <1>4, <1>6, <1>7, <1>8

\* Unlinked changes nothing of an offer but rows that have gone.
LEMMA UnlinkedGood ==
    ASSUME NEW os \in [TradeIds -> Offer], NEW old \in [RowIds -> Row],
           NEW new \in [RowIds -> Row],
           \A r \in RowIds : new[r].owner # NoOne /\ old[r].owner # NoOne
                               => new[r].owner = old[r].owner,
           \A t \in TradeIds : GoodOffer(os[t], old)
    PROVE  /\ Unlinked(os, new) \in [TradeIds -> Offer]
           /\ \A t \in TradeIds : /\ GoodOffer(Unlinked(os, new)[t], new)
                                  /\ Unlinked(os, new)[t].status = os[t].status
<1> DEFINE U == Unlinked(os, new)
<1>1. SUFFICES ASSUME NEW t \in TradeIds
               PROVE  /\ U[t] \in Offer /\ GoodOffer(U[t], new)
                      /\ U[t].status = os[t].status
  <2>1. DOMAIN U = TradeIds /\ U = [t \in TradeIds |-> U[t]]
    BY DEF Unlinked
  <2> QED
    BY <2>1
<1> DEFINE its == os[t].items
           f(i) == IF its[i].row # NoOne /\ ~Present(new, its[i].row)
                   THEN [its[i] EXCEPT !.row = NoOne] ELSE its[i]
           jts == [i \in DOMAIN its |-> f(i)]
<1>2. os[t] \in Offer /\ its \in Seq(Item)
  BY DEF Offer
<1>3. U[t] = [os[t] EXCEPT !.items = jts]
  BY DEF Unlinked
<1>4. /\ U[t].status = os[t].status /\ U[t].proposer = os[t].proposer
      /\ U[t].recipient = os[t].recipient /\ U[t].items = jts
  BY <1>2, <1>3 DEF Offer
<1>5. ASSUME NEW i \in DOMAIN its
      PROVE  f(i) \in Item /\ f(i).owner = its[i].owner /\ f(i).side = its[i].side
             /\ (f(i).row # NoOne => f(i).row = its[i].row /\ Present(new, its[i].row))
  <2>1. its[i] \in Item
    BY <1>2, <1>5
  <2> QED
    BY <2>1 DEF Item
<1>6. jts \in Seq(Item) /\ DOMAIN jts = DOMAIN its
  <2>1. DOMAIN its = 1..Len(its) /\ Len(its) \in Nat
    BY <1>2
  <2>2. jts \in [1..Len(its) -> Item]
    BY <1>5, <2>1
  <2> QED
    BY <2>1, <2>2
<1>7. U[t] \in Offer
  BY <1>2, <1>3, <1>6 DEF Offer
<1>8. \A i \in DOMAIN jts : GoodItem(U[t], jts[i], new)
  <2>1. SUFFICES ASSUME NEW i \in DOMAIN its PROVE GoodItem(U[t], f(i), new)
    BY <1>6
  <2>2. GoodItem(os[t], its[i], old)
    BY DEF GoodOffer
  <2>3. its[i] \in Item
    BY <1>2
  <2>4. ASSUME f(i).row # NoOne PROVE new[f(i).row].owner = f(i).owner
    <3>1. f(i).row = its[i].row /\ new[its[i].row].owner # NoOne /\ its[i].row \in RowIds
      BY <1>5, <2>3, <2>4 DEF Present, Item
    <3>2. old[its[i].row].owner = its[i].owner /\ its[i].owner # NoOne
      BY <2>2, <2>3, <2>4, <3>1, NoOneAssumption DEF GoodItem, Item
    <3> QED
      BY <1>5, <3>1, <3>2
  <2> QED
    BY <1>4, <1>5, <2>2, <2>4 DEF GoodItem
<1>9. os[t].items # <<>> => jts # <<>>
  BY <1>2, <1>6
<1>10. GoodOffer(os[t], old)
  OBVIOUS
<1> QED
  BY <1>4, <1>7, <1>8, <1>9, <1>10 DEF GoodOffer

\* A table a settlement works on: typed, tradeable, owners kept.
GoodTable(tbl) == tbl \in [RowIds -> Row] /\ Tradeable(tbl) /\ KeepsOwners(tbl)

LEMMA AmountsFields ==
    ASSUME NEW r \in [owner : Users, card : Cards, qty : Nat, forTrade : Nat],
           NEW n \in Nat, NEW m \in Nat
    PROVE  /\ Amounts(r, n, m) \in Row /\ Amounts(r, n, m).owner = r.owner
           /\ Amounts(r, n, m).qty = n /\ Amounts(r, n, m).forTrade = m
           /\ \A c \in Cards :
                 LET x == [Amounts(r, n, m) EXCEPT !.card = c] IN
                 x \in Row /\ x.owner = r.owner /\ x.qty = n /\ x.forTrade = m
BY DEF Amounts, Row

LEMMA TakenGood ==
    ASSUME NEW tbl, GoodTable(tbl), NEW s \in Source, s.id \in RowIds,
           s.forTrade <= s.qty, NEW n \in Nat, n <= s.qty
    PROVE  GoodTable(Taken(tbl, s, n))
<1> DEFINE new == Taken(tbl, s, n)
<1>1. CASE s.qty = n
  <2>1. new = [tbl EXCEPT ![s.id] = Gone]
    BY <1>1 DEF Taken
  <2> QED
    BY <2>1, GoneIsRow DEF GoodTable, Tradeable, KeepsOwners
<1>2. CASE s.qty # n /\ ~Present(tbl, s.id)
  BY <1>2 DEF Taken
<1>3. CASE s.qty # n /\ Present(tbl, s.id)
  <2> DEFINE left == s.qty - n
             trade == Least(Minus(s.forTrade, n), left)
  <2>1. left \in Nat /\ trade \in Nat /\ trade <= left
    BY DEF Source, Least, Minus
  <2>2. tbl[s.id] \in [owner : Users, card : Cards, qty : Nat, forTrade : Nat]
    BY <1>3, RowFields DEF Present, GoodTable
  <2> HIDE DEF left, trade
  <2> DEFINE mine == Amounts(tbl[s.id], left, trade)
  <2>3. new = [tbl EXCEPT ![s.id] = mine]
    BY <1>3 DEF Taken, left, trade
  <2>4. mine \in Row /\ mine.forTrade <= mine.qty /\ mine.owner = tbl[s.id].owner
    BY <2>1, <2>2, AmountsFields
  <2> HIDE DEF mine
  <2> QED
    BY <2>3, <2>4 DEF GoodTable, Tradeable, KeepsOwners
<1> QED
  BY <1>1, <1>2, <1>3

LEMMA GivenGood ==
    ASSUME rows \in [RowIds -> Row], NEW tbl, GoodTable(tbl), NEW to \in Users,
           NEW c \in Cards, NEW n \in Nat, NEW new \in Given(tbl, to, c, n)
    PROVE  GoodTable(new)
<1>1. CASE Matches(tbl, to, c) # {}
  <2>1. PICK r \in Matches(tbl, to, c) : new = [tbl EXCEPT ![r].qty = @ + n]
    BY <1>1 DEF Given
  <2>2. r \in RowIds /\ tbl[r].owner = to
    BY <2>1 DEF Matches
  <2>3. tbl[r] \in [owner : Users, card : Cards, qty : Nat, forTrade : Nat]
        /\ tbl[r].forTrade <= tbl[r].qty
    BY <2>2, RowFields, NoOneAssumption DEF GoodTable, Tradeable
  <2> DEFINE mine == [tbl[r] EXCEPT !.qty = @ + n]
  <2>4. new = [tbl EXCEPT ![r] = mine]
    BY <2>1
  <2>5. mine \in Row /\ mine.forTrade <= mine.qty /\ mine.owner = tbl[r].owner
    BY <2>3 DEF Row
  <2> HIDE DEF mine
  <2> QED
    BY <2>2, <2>4, <2>5 DEF GoodTable, Tradeable, KeepsOwners
<1>2. CASE Matches(tbl, to, c) = {}
  <2> DEFINE mine == [owner |-> to, card |-> c, qty |-> n, forTrade |-> 0]
  <2>1. PICK r \in NewId(tbl) : new = [tbl EXCEPT ![r] = mine]
    BY <1>2 DEF Given
  <2>2. r \in RowIds /\ rows[r].owner = NoOne
    BY <2>1, GoneIsRow DEF NewId, Free
  <2>3. mine \in Row /\ mine.forTrade <= mine.qty
    BY DEF Row
  <2> HIDE DEF mine
  <2> QED
    BY <2>1, <2>2, <2>3 DEF GoodTable, Tradeable, KeepsOwners
<1> QED
  BY <1>1, <1>2

\* One item of a settlement.
LEMMA MoveGood ==
    ASSUME Inv, NEW q \in Requests, NEW tbl, GoodTable(tbl), NEW s \in Source,
           s.id \in RowIds, s.owner \in Users, s.card \in Cards, s.forTrade <= s.qty,
           req[q].stage \in {"settle", "settling"}, req[q].items # <<>>,
           Head(req[q].items).qty <= s.qty, Move(q, tbl, s), UNCHANGED offers
    PROVE  /\ GoodTable(draft')
           /\ req' \in [Requests -> Request]
           /\ \A p \in Requests : GoodRequest(req'[p], offers')
<1> DEFINE it == Head(req[q].items)
<1>1. req[q] \in Request /\ GoodRequest(req[q], offers)
  BY DEF Inv, TypeOK
<1>2. req[q].items \in Seq(Item)
  BY <1>1 DEF Request
<1>3. it \in Item /\ Tail(req[q].items) \in Seq(Item)
  BY <1>2
<1>4. it.qty \in Nat
  BY <1>3 DEF Item
<1>5. Receiver(q, it) \in Users
  BY <1>1 DEF Receiver, GoodRequest, Settling
<1>6. GoodTable(draft')
  <2>1. draft' \in Given(Taken(tbl, s, it.qty), Receiver(q, it), s.card, it.qty)
    BY DEF Move
  <2>2. GoodTable(Taken(tbl, s, it.qty))
    BY <1>4, TakenGood
  <2> HIDE DEF it
  <2> QED
    BY <1>4, <1>5, <2>1, <2>2, GivenGood DEF Inv, TypeOK
<1> DEFINE new == Moved(req[q])
<1>7. req' = [req EXCEPT ![q] = new]
  BY DEF Move
<1>8. NoSource \in Source /\ NoSource.forTrade <= NoSource.qty
  BY DEF NoSource, Source
<1>9. /\ new \in Request
      /\ new.stage = "settling" /\ new.trade = req[q].trade /\ new.src = NoSource
      /\ new.proposer = req[q].proposer /\ new.recipient = req[q].recipient
  BY <1>1, <1>3, <1>8 DEF Moved, Request, Stage
<1>10. GoodRequest(new, offers)
  <2> HIDE DEF new
  <2> QED
    BY <1>1, <1>8, <1>9 DEF GoodRequest, Settling
<1> HIDE DEF new
<1> QED
  BY <1>6, <1>7, <1>9, <1>10 DEF Inv, TypeOK

LEMMA NoDraftGood == GoodTable(NoDraft)
BY GoneIsRow DEF GoodTable, NoDraft, Tradeable, KeepsOwners

\* A step that only changes one request, and may end its transaction.
LEMMA RequestStep ==
    ASSUME Inv, NEW q \in Requests, NEW r \in Request, GoodRequest(r, offers),
           r.stage # "settling",
           req' = [req EXCEPT ![q] = r], UNCHANGED <<rows, offers>>,
           \/ UNCHANGED <<writer, draft>> /\ writer # q
           \/ writer = q /\ writer' = NoOne /\ draft' = NoDraft,
           arrivals' \in Nat
    PROVE  Inv'
<1>1. TypeOK'
  BY NoDraftGood DEF Inv, TypeOK, GoodTable
<1>2. Tradeable(rows)' /\ Tradeable(draft)' /\ KeepsOwners(draft)'
  BY NoDraftGood DEF Inv, Tradeable, KeepsOwners, GoodTable
<1>3. \A t \in TradeIds : GoodOffer(offers[t], rows)'
  BY DEF Inv, GoodOffer, GoodItem
<1>4. \A p \in Requests : GoodRequest(req[p], offers)'
  BY DEF Inv, TypeOK, GoodRequest
<1>5. (writer = NoOne => draft = NoDraft)'
  BY DEF Inv
<1>6. \A p \in Requests : (req[p].stage = "settling" <=> writer = p)'
  BY NoOneAssumption DEF Inv, TypeOK
<1> QED
  BY <1>1, <1>2, <1>3, <1>4, <1>5, <1>6 DEF Inv

LEMMA NoSourceGood ==
    /\ NoSource \in Source /\ NoSource.id = NoOne
    /\ NoSource.qty = 0 /\ NoSource.forTrade = 0
BY DEF NoSource, Source

LEMMA IdleGood ==
    /\ Idle \in Request /\ Idle.stage = "idle" /\ Idle.trade = NoOne
    /\ Idle.src = NoSource
    /\ \A os : GoodRequest(Idle, os)
BY DEF Idle, Request, Stage, NoSource, Source, GoodRequest, Settling

\* A step that writes offers and rows, both good, that ends one request or
\* none, and that leaves nobody with an open transaction.
LEMMA WriteStep ==
    ASSUME Inv, rows' \in [RowIds -> Row], Tradeable(rows'),
           offers' \in [TradeIds -> Offer],
           \A t \in TradeIds : GoodOffer(offers'[t], rows'),
           \A t \in TradeIds : offers[t].status # "absent" => offers'[t].status # "absent",
           req' = req \/ \E q \in Requests : Finish(q),
           \A q \in Requests : req'[q].stage # "settling",
           writer' = NoOne, draft' = NoDraft, arrivals' \in Nat
    PROVE  Inv'
<1>1. req' \in [Requests -> Request]
  BY IdleGood DEF Inv, TypeOK, Finish
<1>2. TypeOK'
  BY <1>1, NoDraftGood DEF TypeOK, GoodTable
<1>3. Tradeable(rows)' /\ Tradeable(draft)' /\ KeepsOwners(draft)'
  BY GoneIsRow DEF Tradeable, KeepsOwners, NoDraft
<1>4. \A t \in TradeIds : GoodOffer(offers[t], rows)'
  BY DEF GoodOffer, GoodItem
<1>5. \A p \in Requests : GoodRequest(req[p], offers)'
  <2>1. SUFFICES ASSUME NEW p \in Requests PROVE GoodRequest(req'[p], offers')
    BY DEF GoodRequest
  <2>2. req'[p] = req[p] \/ req'[p] = Idle
    BY DEF Finish, Inv, TypeOK
  <2>3. CASE req'[p] = Idle
    BY <2>3, IdleGood
  <2>4. CASE req'[p] = req[p]
    <3>1. req[p] \in Request /\ GoodRequest(req[p], offers)
      BY DEF Inv, TypeOK
    <3>2. req[p].trade \in TradeIds \cup {NoOne}
      BY <3>1 DEF Request
    <3> QED
      BY <2>4, <3>1, <3>2 DEF GoodRequest
  <2> QED
    BY <2>2, <2>3, <2>4
<1>6. \A p \in Requests : (req[p].stage = "settling" <=> writer = p)'
  BY NoOneAssumption
<1> QED
  BY <1>2, <1>3, <1>4, <1>5, <1>6 DEF Inv

\* When nobody holds the lock, nobody is inside a transaction.
LEMMA NobodySettles ==
    ASSUME Inv, Unlocked
    PROVE  draft = NoDraft /\ \A q \in Requests : req[q].stage # "settling"
BY NoOneAssumption DEF Inv, Unlocked

LEMMA FinishEnds ==
    ASSUME Inv, NEW q \in Requests, Finish(q)
    PROVE  \A p \in Requests : req'[p] = IF p = q THEN Idle ELSE req[p]
BY DEF Inv, TypeOK, Finish

-----------------------------------------------------------------------------
(* The steps. *)

LEMMA PendingGood ==
    ASSUME Inv, NEW u \in Users, NEW v \in Users, NEW its \in Terms(u, v)
    PROVE  /\ Pending(u, v, its) \in Offer /\ GoodOffer(Pending(u, v, its), rows)
           /\ Pending(u, v, its).status = "pending"
<1>1. /\ its \in Seq(Item) /\ its # <<>>
      /\ \A i \in DOMAIN its :
            /\ its[i].owner = IF its[i].side = "offered" THEN u ELSE v
            /\ rows[its[i].row].owner = its[i].owner
  BY TermsGood DEF Inv, TypeOK
<1> QED
  BY <1>1 DEF Pending, Offer, GoodOffer, GoodItem

LEMMA ProposeStep ==
    ASSUME Inv, NEW t \in TradeIds, NEW u \in Users, NEW v \in Users, Propose(t, u, v)
    PROVE  Inv'
<1>1. PICK its \in Terms(u, v) : offers' = [offers EXCEPT ![t] = Pending(u, v, its)]
  BY DEF Propose
<1> DEFINE new == Pending(u, v, its)
<1>2. new \in Offer /\ GoodOffer(new, rows) /\ new.status = "pending"
  BY PendingGood
<1> HIDE DEF new
<1>3. /\ draft = NoDraft /\ writer = NoOne
      /\ \A q \in Requests : req[q].stage # "settling"
  BY NobodySettles DEF Propose, Unlocked
<1>4. offers' = [offers EXCEPT ![t] = new]
  BY <1>1 DEF new
<1>5. offers' \in [TradeIds -> Offer] /\ \A s \in TradeIds :
         /\ GoodOffer(offers'[s], rows)
         /\ offers[s].status # "absent" => offers'[s].status # "absent"
  BY <1>2, <1>4 DEF Inv, TypeOK
<1>6. UNCHANGED <<rows, req, writer, draft>> /\ arrivals' \in Nat
  BY DEF Propose, MayArrive, Inv, TypeOK
<1> QED
  BY <1>3, <1>5, <1>6, WriteStep DEF Inv, TypeOK

LEMMA CounterWriteStep ==
    ASSUME Inv, NEW q \in Requests, CounterWrite(q)
    PROVE  Inv'
<1> DEFINE t == req[q].trade
<1>1. req[q] \in Request /\ GoodRequest(req[q], offers) /\ req[q].stage = "counter"
  BY DEF Inv, TypeOK, CounterWrite
<1>2. t \in TradeIds /\ req[q].proposer \in Users /\ req[q].recipient \in Users
  BY <1>1 DEF GoodRequest, Request
<1>3. PICK its \in Terms(req[q].proposer, req[q].recipient) :
         offers' = [offers EXCEPT ![t] = Pending(req[q].proposer, req[q].recipient, its)]
  BY DEF CounterWrite
<1> DEFINE new == Pending(req[q].proposer, req[q].recipient, its)
<1>4. new \in Offer /\ GoodOffer(new, rows) /\ new.status = "pending"
  BY <1>2, PendingGood
<1>5. offers' = [offers EXCEPT ![t] = new]
  BY <1>3
<1> HIDE DEF new, t
<1>6. offers' \in [TradeIds -> Offer] /\ \A s \in TradeIds :
         /\ GoodOffer(offers'[s], rows)
         /\ offers[s].status # "absent" => offers'[s].status # "absent"
  BY <1>2, <1>4, <1>5 DEF Inv, TypeOK
<1>7. Finish(q) /\ UNCHANGED <<rows, writer, draft, arrivals>> /\ Unlocked
  BY DEF CounterWrite
<1>8. \A p \in Requests : req'[p].stage # "settling"
  BY <1>7, NobodySettles, FinishEnds, IdleGood
<1> QED
  BY <1>6, <1>7, <1>8, NobodySettles, WriteStep DEF Inv, TypeOK, Unlocked

LEMMA SetStatusStep ==
    ASSUME Inv, NEW q \in Requests, NEW s \in {"accepted", "declined", "cancelled"},
           SetStatus(q, s)
    PROVE  Inv'
<1> DEFINE t == req[q].trade
           new == [offers[t] EXCEPT !.status = s]
<1>1. req[q] \in Request /\ GoodRequest(req[q], offers) /\ req[q].stage = s
  BY DEF Inv, TypeOK, SetStatus
<1>2. t \in TradeIds /\ offers[t].status # "absent"
  BY <1>1 DEF GoodRequest, Request
<1>3. offers[t] \in Offer /\ GoodOffer(offers[t], rows)
  BY <1>2 DEF Inv, TypeOK
<1>4. /\ new \in Offer /\ new.status = s /\ new.proposer = offers[t].proposer
      /\ new.recipient = offers[t].recipient /\ new.items = offers[t].items
  BY <1>3 DEF Offer
<1>5. offers' = [offers EXCEPT ![t] = new]
  BY DEF SetStatus
<1> HIDE DEF new, t
<1>6. GoodOffer(new, rows)
  BY <1>2, <1>3, <1>4 DEF GoodOffer, GoodItem
<1>7. offers' \in [TradeIds -> Offer] /\ \A x \in TradeIds :
         /\ GoodOffer(offers'[x], rows)
         /\ offers[x].status # "absent" => offers'[x].status # "absent"
  BY <1>2, <1>4, <1>5, <1>6 DEF Inv, TypeOK
<1>8. Finish(q) /\ UNCHANGED <<rows, writer, draft, arrivals>> /\ Unlocked
  BY DEF SetStatus
<1>9. \A p \in Requests : req'[p].stage # "settling"
  BY <1>8, NobodySettles, FinishEnds, IdleGood
<1> QED
  BY <1>7, <1>8, <1>9, NobodySettles, WriteStep DEF Inv, TypeOK, Unlocked

\* The first read of a request.
LEMMA ArriveStep ==
    ASSUME Inv, NEW q \in Requests, NEW r \in Request, GoodRequest(r, offers),
           r.stage # "settling", Arrives(q, r)
    PROVE  Inv'
<1>1. req[q].stage # "settling"
  BY IdleGood DEF Arrives
<1>2. arrivals' \in Nat
  BY DEF Arrives, MayArrive, Inv, TypeOK
<1>3. writer # q
  BY <1>1 DEF Inv
<1> QED
  BY <1>2, <1>3, RequestStep DEF Arrives

LEMMA AsReadGood ==
    ASSUME NEW r \in RowIds, NEW tbl \in [RowIds -> Row]
    PROVE  /\ AsRead(tbl, r) \in Source
           /\ AsRead(tbl, r).id = r /\ AsRead(tbl, r).owner = tbl[r].owner
           /\ AsRead(tbl, r).card = tbl[r].card /\ AsRead(tbl, r).qty = tbl[r].qty
           /\ AsRead(tbl, r).forTrade = tbl[r].forTrade
BY RowFields DEF AsRead, Source

\* A request that arrives on a trade that exists.
LEMMA ArrivalStep ==
    ASSUME Inv, NEW q \in Requests, NEW t \in TradeIds, offers[t].status # "absent",
           \/ CounterRead(q, t) \/ CancelRead(q, t) \/ CompleteRead(q, t)
           \/ RespondRead(q, t, "accepted") \/ RespondRead(q, t, "declined")
    PROVE  Inv'
<1>1. offers[t].proposer \in Users /\ offers[t].recipient \in Users
  BY DEF Inv, GoodOffer
<1>2. NoSource \in Source /\ NoSource.forTrade <= NoSource.qty
  BY DEF NoSource, Source
<1>3. t # NoOne
  BY NoOneAssumption
<1>4. ASSUME NEW s \in {"accepted", "declined", "cancelled"},
             Arrives(q, [Idle EXCEPT !.stage = s, !.trade = t])
      PROVE  Inv'
  <2> DEFINE new == [Idle EXCEPT !.stage = s, !.trade = t]
  <2>1. new \in Request /\ new.stage = s /\ new.trade = t /\ new.src = NoSource
    BY IdleGood DEF Request, Stage
  <2> HIDE DEF new
  <2>2. GoodRequest(new, offers)
    BY <1>2, <1>3, <2>1 DEF GoodRequest, Settling
  <2>3. Arrives(q, new) /\ new.stage # "settling"
    BY <1>4, <2>1 DEF new
  <2> QED
    BY <2>1, <2>2, <2>3, ArriveStep
<1>5. ASSUME NEW s \in {"counter", "items"}, NEW u \in Users, NEW v \in Users,
             Arrives(q, [Idle EXCEPT !.stage = s, !.trade = t,
                                     !.proposer = u, !.recipient = v])
      PROVE  Inv'
  <2> DEFINE new == [Idle EXCEPT !.stage = s, !.trade = t, !.proposer = u, !.recipient = v]
  <2>1. /\ new \in Request /\ new.stage = s /\ new.trade = t /\ new.src = NoSource
        /\ new.proposer = u /\ new.recipient = v
    BY IdleGood DEF Request, Stage
  <2> HIDE DEF new
  <2>2. GoodRequest(new, offers)
    BY <1>2, <1>3, <2>1 DEF GoodRequest, Settling
  <2>3. Arrives(q, new) /\ new.stage # "settling"
    BY <1>5, <2>1 DEF new
  <2> QED
    BY <2>1, <2>2, <2>3, ArriveStep
<1>6. CASE CounterRead(q, t)
  BY <1>1, <1>5, <1>6 DEF CounterRead
<1>7. CASE CancelRead(q, t)
  BY <1>4, <1>7 DEF CancelRead
<1>8. CASE CompleteRead(q, t)
  BY <1>1, <1>5, <1>8 DEF CompleteRead
<1>9. CASE RespondRead(q, t, "accepted") \/ RespondRead(q, t, "declined")
  BY <1>4, <1>9 DEF RespondRead
<1> QED
  BY <1>6, <1>7, <1>8, <1>9

LEMMA AddReadStep ==
    ASSUME Inv, NEW q \in Requests, NEW u \in Users, NEW c \in Cards, AddRead(q, u, c)
    PROVE  Inv'
<1>1. ASSUME NEW s \in Source, s.owner \in Users, s.card \in Cards, s.forTrade <= s.qty,
             Arrives(q, [Idle EXCEPT !.stage = "add", !.src = s])
      PROVE  Inv'
  <2> DEFINE new == [Idle EXCEPT !.stage = "add", !.src = s]
  <2>1. /\ new \in Request /\ new.stage = "add" /\ new.trade = NoOne /\ new.src = s
    BY IdleGood DEF Request, Stage
  <2> HIDE DEF new
  <2>2. GoodRequest(new, offers)
    BY <1>1, <2>1 DEF GoodRequest, Settling
  <2>3. Arrives(q, new) /\ new.stage # "settling"
    BY <1>1, <2>1 DEF new
  <2> QED
    BY <2>1, <2>2, <2>3, ArriveStep
<1>2. ASSUME NEW r \in Matches(rows, u, c),
             Arrives(q, [Idle EXCEPT !.stage = "add", !.src = AsRead(rows, r)])
      PROVE  Inv'
  <2>1. r \in RowIds /\ rows[r].owner = u /\ rows[r].card = c
    BY DEF Matches
  <2>2. rows \in [RowIds -> Row] /\ rows[r].forTrade <= rows[r].qty
    BY <2>1 DEF Inv, TypeOK, Tradeable
  <2> QED
    BY <1>1, <1>2, <2>1, <2>2, AsReadGood
<1>3. ASSUME Arrives(q, [Idle EXCEPT !.stage = "add",
                            !.src = [NoSource EXCEPT !.owner = u, !.card = c]])
      PROVE  Inv'
  <2> DEFINE s == [NoSource EXCEPT !.owner = u, !.card = c]
  <2>1. s \in Source /\ s.owner = u /\ s.card = c /\ s.forTrade <= s.qty
    <3>1. NoSource \in [id : RowIds \cup {NoOne}, owner : Users \cup {NoOne},
                        card : Cards \cup {NoOne}, qty : Nat, forTrade : Nat]
      BY NoSourceGood DEF Source
    <3>2. s \in Source /\ s.owner = u /\ s.card = c
      BY <3>1 DEF Source
    <3>3. s.qty = NoSource.qty /\ s.forTrade = NoSource.forTrade
      BY <3>1
    <3> QED
      BY <3>2, <3>3, NoSourceGood
  <2>2. Arrives(q, [Idle EXCEPT !.stage = "add", !.src = s])
    BY <1>3
  <2> HIDE DEF s
  <2> QED
    BY <1>1, <2>1, <2>2
<1> QED
  BY <1>2, <1>3 DEF AddRead

LEMMA FinishStep ==
    ASSUME Inv, NEW q \in Requests, Finish(q), UNCHANGED <<rows, offers, arrivals>>,
           \/ UNCHANGED <<writer, draft>> /\ writer # q
           \/ writer = q /\ writer' = NoOne /\ draft' = NoDraft
    PROVE  Inv'
<1>1. arrivals' \in Nat
  BY DEF Inv, TypeOK
<1> QED
  BY <1>1, IdleGood, RequestStep DEF Finish

LEMMA RollbackStep ==
    ASSUME Inv, NEW q \in Requests, Rollback(q)
    PROVE  Inv'
BY FinishStep DEF Rollback

LEMMA ReadItemsStep ==
    ASSUME Inv, NEW q \in Requests, ReadItems(q)
    PROVE  Inv'
<1> DEFINE its == offers[req[q].trade].items
           new == [req[q] EXCEPT !.stage = "source", !.items = its]
<1>1. req[q] \in Request /\ GoodRequest(req[q], offers) /\ req[q].stage = "items"
  BY DEF Inv, TypeOK, ReadItems
<1>2. req[q].trade \in TradeIds /\ offers[req[q].trade].status # "absent"
  BY <1>1 DEF GoodRequest, Request, Settling
<1>3. its \in Seq(Item) /\ its # <<>>
  BY <1>2 DEF Inv, TypeOK, Offer, GoodOffer
<1>4. req' = [req EXCEPT ![q] = new]
  BY DEF ReadItems
<1> HIDE DEF its
<1>5. /\ new \in Request /\ new.stage = "source" /\ new.items = its
      /\ new.trade = req[q].trade /\ new.proposer = req[q].proposer
      /\ new.recipient = req[q].recipient /\ new.src = req[q].src
  BY <1>1, <1>3 DEF Request, Stage
<1> HIDE DEF new
<1>6. GoodRequest(new, offers)
  BY <1>1, <1>3, <1>5 DEF GoodRequest, Settling
<1>7. writer # q /\ arrivals \in Nat /\ UNCHANGED <<rows, offers, writer, draft, arrivals>>
  BY <1>1 DEF Inv, TypeOK, ReadItems
<1> QED
  BY <1>4, <1>5, <1>6, <1>7, RequestStep

\* The head of the items that remain, and the row it names.
LEMMA HeadGood ==
    ASSUME Inv, NEW q \in Requests, req[q].items # <<>>, NEW tbl \in [RowIds -> Row],
           CanGive(tbl, Head(req[q].items))
    PROVE  LET it == Head(req[q].items)
               s  == AsRead(tbl, it.row) IN
           /\ it \in Item /\ it.row \in RowIds
           /\ s \in Source /\ s.id = it.row
           /\ s.owner \in Users /\ s.card \in Cards /\ it.qty <= s.qty
           /\ s.qty = tbl[it.row].qty /\ s.forTrade = tbl[it.row].forTrade
<1> DEFINE it == Head(req[q].items)
<1>1. it \in Item
  BY DEF Inv, TypeOK, Request
<1>2. it.row \in RowIds /\ it.owner \in Users /\ tbl[it.row].owner = it.owner
      /\ it.qty <= tbl[it.row].qty
  BY <1>1 DEF CanGive, Item
<1>3. tbl[it.row].card \in Cards
  BY <1>2, RowFields, NoOneAssumption
<1> HIDE DEF it
<1> QED
  BY <1>1, <1>2, <1>3, AsReadGood DEF it

LEMMA ReadSourceStep ==
    ASSUME Inv, NEW q \in Requests, ReadSource(q)
    PROVE  Inv'
<1> DEFINE it == Head(req[q].items)
           s  == AsRead(rows, it.row)
           new == [req[q] EXCEPT !.stage = "settle", !.src = s]
<1>1. req[q] \in Request /\ GoodRequest(req[q], offers) /\ req[q].stage = "source"
  BY DEF Inv, TypeOK, ReadSource
<1>2. writer # q /\ arrivals \in Nat /\ UNCHANGED <<rows, offers, writer, draft, arrivals>>
  BY <1>1 DEF Inv, TypeOK, ReadSource
<1>3. CASE ~CanGive(rows, it)
  <2>1. Finish(q)
    BY <1>3 DEF ReadSource
  <2> QED
    BY <1>2, <2>1, FinishStep
<1>4. CASE CanGive(rows, it)
  <2>1. req[q].items # <<>>
    BY <1>1 DEF GoodRequest
  <2>2. /\ it.row \in RowIds /\ s \in Source /\ s.id = it.row
        /\ s.owner \in Users /\ s.card \in Cards /\ it.qty <= s.qty
        /\ s.qty = rows[it.row].qty /\ s.forTrade = rows[it.row].forTrade
    BY <1>4, <2>1, HeadGood DEF Inv, TypeOK
  <2>3. s.forTrade <= s.qty
    BY <2>2 DEF Inv, Tradeable
  <2>4. req' = [req EXCEPT ![q] = new]
    BY <1>4 DEF ReadSource
  <2> HIDE DEF s
  <2>5. /\ new \in Request /\ new.stage = "settle" /\ new.items = req[q].items
        /\ new.trade = req[q].trade /\ new.proposer = req[q].proposer
        /\ new.recipient = req[q].recipient /\ new.src = s
    BY <1>1, <2>2 DEF Request, Stage
  <2> HIDE DEF new
  <2>6. GoodRequest(new, offers)
    BY <1>1, <2>1, <2>2, <2>3, <2>5 DEF GoodRequest, Settling
  <2> QED
    BY <1>2, <2>4, <2>5, <2>6, RequestStep
<1> QED
  BY <1>3, <1>4

\* A move on the draft keeps the invariant when the mover holds the lock.
LEMMA DraftStep ==
    ASSUME Inv, NEW q \in Requests, GoodTable(draft'), writer' = q,
           writer = q \/ Unlocked, req' = [req EXCEPT ![q] = Moved(@)],
           req' \in [Requests -> Request],
           \A p \in Requests : GoodRequest(req'[p], offers'),
           UNCHANGED <<rows, offers, arrivals>>
    PROVE  Inv'
<1>1. TypeOK'
  BY DEF Inv, TypeOK, GoodTable
<1>2. Tradeable(rows)' /\ Tradeable(draft)' /\ KeepsOwners(draft)'
  BY DEF Inv, Tradeable, KeepsOwners, GoodTable
<1>3. \A t \in TradeIds : GoodOffer(offers[t], rows)'
  BY DEF Inv, GoodOffer, GoodItem
<1>4. \A p \in Requests : GoodRequest(req[p], offers)'
  BY DEF GoodRequest
<1>5. \A p \in Requests : (req[p].stage = "settling" <=> writer = p)'
  <2>1. SUFFICES ASSUME NEW p \in Requests
                 PROVE  req'[p].stage = "settling" <=> q = p
    OBVIOUS
  <2>2. CASE p = q
    <3>1. req'[q] = Moved(req[q]) /\ req[q] \in Request
      BY DEF Inv, TypeOK
    <3>2. Moved(req[q]).stage = "settling"
      BY <3>1 DEF Moved, Request
    <3> QED
      BY <2>2, <3>1, <3>2
  <2>3. CASE p # q
    <3>1. req'[p] = req[p]
      BY <2>3 DEF Inv, TypeOK
    <3>2. writer # p
      BY <2>3, NoOneAssumption DEF Unlocked
    <3> QED
      BY <2>3, <3>1, <3>2 DEF Inv
  <2> QED
    BY <2>2, <2>3
<1>6. (writer = NoOne => draft = NoDraft)'
  BY NoOneAssumption
<1> QED
  BY <1>1, <1>2, <1>3, <1>4, <1>5, <1>6 DEF Inv

LEMMA SettleFirstStep ==
    ASSUME Inv, NEW q \in Requests, SettleFirst(q)
    PROVE  Inv'
<1> DEFINE s == req[q].src
<1>1. req[q] \in Request /\ GoodRequest(req[q], offers) /\ req[q].stage = "settle"
  BY DEF Inv, TypeOK, SettleFirst
<1>2. /\ s \in Source /\ s.id \in RowIds /\ s.owner \in Users /\ s.card \in Cards
      /\ s.forTrade <= s.qty /\ req[q].items # <<>> /\ Head(req[q].items).qty <= s.qty
  BY <1>1 DEF GoodRequest, Request
<1>3. GoodTable(rows)
  BY DEF GoodTable, Inv, TypeOK, KeepsOwners
<1>4. Move(q, rows, s) /\ writer' = q /\ Unlocked /\ UNCHANGED <<rows, offers, arrivals>>
  BY DEF SettleFirst
<1> HIDE DEF s
<1>5. /\ GoodTable(draft') /\ req' \in [Requests -> Request]
      /\ \A p \in Requests : GoodRequest(req'[p], offers')
  BY <1>1, <1>2, <1>3, <1>4, MoveGood
<1>6. req' = [req EXCEPT ![q] = Moved(@)]
  BY <1>4 DEF Move
<1> QED
  BY <1>4, <1>5, <1>6, DraftStep

LEMMA SettleNextStep ==
    ASSUME Inv, NEW q \in Requests, SettleNext(q)
    PROVE  Inv'
<1> DEFINE it == Head(req[q].items)
           s  == AsRead(draft, it.row)
<1>1. req[q].stage = "settling" /\ req[q].items # <<>> /\ CanGive(draft, it)
  BY DEF SettleNext
<1>2. /\ it.row \in RowIds /\ s \in Source /\ s.id = it.row
      /\ s.owner \in Users /\ s.card \in Cards /\ it.qty <= s.qty
      /\ s.qty = draft[it.row].qty /\ s.forTrade = draft[it.row].forTrade
  BY <1>1, HeadGood DEF Inv, TypeOK
<1>3. s.forTrade <= s.qty
  BY <1>2 DEF Inv, Tradeable
<1>4. GoodTable(draft)
  BY DEF GoodTable, Inv, TypeOK
<1>5. Move(q, draft, s) /\ UNCHANGED <<rows, offers, writer, arrivals>>
  BY DEF SettleNext
<1> HIDE DEF s
<1>6. /\ GoodTable(draft') /\ req' \in [Requests -> Request]
      /\ \A p \in Requests : GoodRequest(req'[p], offers')
  BY <1>1, <1>2, <1>3, <1>4, <1>5, MoveGood
<1>7. req' = [req EXCEPT ![q] = Moved(@)]
  BY <1>5 DEF Move
<1>8. writer = q /\ writer' = q
  BY <1>1, <1>5 DEF Inv
<1> QED
  BY <1>5, <1>6, <1>7, <1>8, DraftStep

LEMMA CommitStep ==
    ASSUME Inv, NEW q \in Requests, Commit(q)
    PROVE  Inv'
<1> DEFINE t == req[q].trade
           done == [offers[t] EXCEPT !.status = "completed"]
           os == [offers EXCEPT ![t] = done]
<1>1. req[q] \in Request /\ GoodRequest(req[q], offers) /\ req[q].stage = "settling"
  BY DEF Inv, TypeOK, Commit
<1>2. t \in TradeIds /\ offers[t].status # "absent"
  BY <1>1 DEF GoodRequest, Request, Settling
<1>3. offers[t] \in Offer /\ GoodOffer(offers[t], rows)
  BY <1>2 DEF Inv, TypeOK
<1>4. /\ done \in Offer /\ done.status = "completed" /\ done.proposer = offers[t].proposer
      /\ done.recipient = offers[t].recipient /\ done.items = offers[t].items
  BY <1>3 DEF Offer
<1>5. /\ rows' = draft /\ offers' = Unlinked(os, draft)
      /\ writer' = NoOne /\ draft' = NoDraft /\ Finish(q) /\ UNCHANGED arrivals
  BY DEF Commit
<1> HIDE DEF done, t
<1>6. GoodOffer(done, rows)
  BY <1>2, <1>3, <1>4 DEF GoodOffer, GoodItem
<1>7. os \in [TradeIds -> Offer] /\ \A x \in TradeIds :
         /\ GoodOffer(os[x], rows)
         /\ offers[x].status # "absent" => os[x].status # "absent"
  BY <1>2, <1>4, <1>6 DEF Inv, TypeOK
<1> HIDE DEF os
<1>8. /\ Unlinked(os, draft) \in [TradeIds -> Offer]
      /\ \A x \in TradeIds : /\ GoodOffer(Unlinked(os, draft)[x], draft)
                             /\ Unlinked(os, draft)[x].status = os[x].status
  BY <1>7, UnlinkedGood DEF Inv, TypeOK, KeepsOwners
<1>9. \A p \in Requests : req'[p].stage # "settling"
  <2>1. \A p \in Requests : p # q => req[p].stage # "settling"
    BY <1>1 DEF Inv
  <2> QED
    BY <1>5, <2>1, FinishEnds, IdleGood
<1>10. rows' \in [RowIds -> Row] /\ Tradeable(rows') /\ arrivals' \in Nat
  BY <1>5 DEF Inv, TypeOK
<1>11. \A x \in TradeIds : /\ GoodOffer(offers'[x], rows')
                           /\ offers[x].status # "absent" => offers'[x].status # "absent"
  BY <1>5, <1>7, <1>8
<1> QED
  BY <1>5, <1>8, <1>9, <1>10, <1>11, WriteStep

\* Items stay good on a table that keeps the rows there are with their owners.
LEMMA OffersStayGood ==
    ASSUME Inv, NEW new, \A r \in RowIds :
              rows[r].owner # NoOne => new[r].owner = rows[r].owner
    PROVE  \A t \in TradeIds : GoodOffer(offers[t], new)
<1>1. SUFFICES ASSUME NEW t \in TradeIds PROVE GoodOffer(offers[t], new)
  OBVIOUS
<1>2. GoodOffer(offers[t], rows) /\ offers[t] \in Offer
  BY DEF Inv, TypeOK
<1>3. \A i \in DOMAIN offers[t].items : GoodItem(offers[t], offers[t].items[i], new)
  <2>1. SUFFICES ASSUME NEW i \in DOMAIN offers[t].items
                 PROVE  GoodItem(offers[t], offers[t].items[i], new)
    OBVIOUS
  <2>2. offers[t].items[i] \in Item /\ GoodItem(offers[t], offers[t].items[i], rows)
    BY <1>2 DEF Offer, GoodOffer
  <2> QED
    BY <2>2, NoOneAssumption DEF GoodItem, Item
<1> QED
  BY <1>2, <1>3 DEF GoodOffer

LEMMA EditRowStep ==
    ASSUME Inv, NEW r \in RowIds, NEW c \in Cards, NEW n \in 0..MaxQuantity,
           NEW m \in 0..n, EditRow(r, c, n, m)
    PROVE  Inv'
<1> DEFINE new == [Amounts(rows[r], n, m) EXCEPT !.card = c]
<1>1. n \in Nat /\ m \in Nat /\ m <= n
  BY BoundsAssumption
<1>2. rows[r] \in [owner : Users, card : Cards, qty : Nat, forTrade : Nat]
  BY RowFields DEF EditRow, Present, Inv, TypeOK
<1>3. new \in Row /\ new.owner = rows[r].owner /\ new.qty = n /\ new.forTrade = m
  BY <1>1, <1>2, AmountsFields
<1>4. rows' = [rows EXCEPT ![r] = new]
  BY DEF EditRow
<1> HIDE DEF new
<1>5. rows' \in [RowIds -> Row] /\ Tradeable(rows')
  BY <1>1, <1>3, <1>4 DEF Inv, TypeOK, Tradeable
<1>6. \A t \in TradeIds : GoodOffer(offers[t], rows')
  BY <1>3, <1>4, OffersStayGood DEF Inv, TypeOK
<1>7. Unlocked /\ UNCHANGED <<offers, req, writer, draft>> /\ arrivals' \in Nat
  BY DEF EditRow, MayArrive, Inv, TypeOK
<1> QED
  BY <1>5, <1>6, <1>7, NobodySettles, WriteStep DEF Unlocked, Inv, TypeOK

LEMMA DeleteRowStep ==
    ASSUME Inv, NEW r \in RowIds, DeleteRow(r)
    PROVE  Inv'
<1>1. rows' = [rows EXCEPT ![r] = Gone] /\ offers' = Unlinked(offers, rows')
  BY DEF DeleteRow
<1>2. rows' \in [RowIds -> Row] /\ Tradeable(rows')
  BY <1>1, GoneIsRow DEF Inv, TypeOK, Tradeable
<1>3. \A x \in RowIds : rows'[x].owner # NoOne /\ rows[x].owner # NoOne
                          => rows'[x].owner = rows[x].owner
  BY <1>1, GoneIsRow DEF Inv, TypeOK
<1>4. /\ offers' \in [TradeIds -> Offer]
      /\ \A t \in TradeIds : /\ GoodOffer(offers'[t], rows')
                             /\ offers'[t].status = offers[t].status
  <2> DEFINE new == rows'
  <2>1. /\ new \in [RowIds -> Row] /\ offers' = Unlinked(offers, new)
        /\ \A x \in RowIds : new[x].owner # NoOne /\ rows[x].owner # NoOne
                              => new[x].owner = rows[x].owner
    BY <1>1, <1>2, <1>3
  <2>2. /\ offers \in [TradeIds -> Offer] /\ rows \in [RowIds -> Row]
        /\ \A t \in TradeIds : GoodOffer(offers[t], rows)
    BY DEF Inv, TypeOK
  <2> HIDE DEF new
  <2>3. /\ Unlinked(offers, new) \in [TradeIds -> Offer]
        /\ \A t \in TradeIds : /\ GoodOffer(Unlinked(offers, new)[t], new)
                               /\ Unlinked(offers, new)[t].status = offers[t].status
    BY <2>1, <2>2, UnlinkedGood
  <2> QED
    BY <2>1, <2>3 DEF new
<1>5. Unlocked /\ UNCHANGED <<req, writer, draft>> /\ arrivals' \in Nat
  BY DEF DeleteRow, MayArrive, Inv, TypeOK
<1> QED
  BY <1>2, <1>4, <1>5, NobodySettles, WriteStep DEF Unlocked

LEMMA AddWriteStep ==
    ASSUME Inv, NEW q \in Requests, NEW n \in 0..MaxQuantity, NEW m \in 0..n,
           AddWrite(q, n, m)
    PROVE  Inv'
<1> DEFINE s == req[q].src
           total == Least(MaxQuantity, s.qty + n)
           trade == Least(s.forTrade + m, total)
<1>1. n \in Nat /\ m \in Nat /\ m <= n
  BY BoundsAssumption
<1>2. req[q] \in Request /\ GoodRequest(req[q], offers) /\ req[q].stage = "add"
  BY DEF Inv, TypeOK, AddWrite
<1>3. s \in Source /\ s.owner \in Users /\ s.card \in Cards
  BY <1>2 DEF Request, GoodRequest
<1>4. total \in Nat /\ trade \in Nat /\ trade <= total
  BY <1>1, <1>3, BoundsAssumption DEF Source, Least
<1>5. /\ rows' \in [RowIds -> Row] /\ Tradeable(rows')
      /\ \A x \in RowIds : rows[x].owner # NoOne => rows'[x].owner = rows[x].owner
  <2>1. CASE s.id = NoOne
    <3> DEFINE added == [owner |-> s.owner, card |-> s.card, qty |-> n, forTrade |-> m]
    <3>1. PICK r \in NewId(rows) : rows' = [rows EXCEPT ![r] = added]
      BY <2>1 DEF AddWrite
    <3>2. r \in RowIds /\ rows[r].owner = NoOne
      BY <3>1, GoneIsRow DEF NewId, Free
    <3>3. added \in Row /\ added.forTrade <= added.qty
      BY <1>1, <1>3 DEF Row
    <3> HIDE DEF added
    <3> QED
      BY <3>1, <3>2, <3>3 DEF Inv, TypeOK, Tradeable
  <2>2. CASE s.id # NoOne /\ Present(rows, s.id)
    <3>1. s.id \in RowIds
      BY <1>3, <2>2 DEF Source
    <3>2. rows[s.id] \in [owner : Users, card : Cards, qty : Nat, forTrade : Nat]
      BY <2>2, <3>1, RowFields DEF Present, Inv, TypeOK
    <3> DEFINE new == Amounts(rows[s.id], total, trade)
    <3>3. rows' = [rows EXCEPT ![s.id] = new]
      BY <2>2 DEF AddWrite
    <3> HIDE DEF total, trade
    <3>4. new \in Row /\ new.owner = rows[s.id].owner /\ new.forTrade <= new.qty
      BY <1>4, <3>2, AmountsFields
    <3> HIDE DEF new, s
    <3> QED
      BY <3>1, <3>3, <3>4 DEF Inv, TypeOK, Tradeable
  <2>3. CASE s.id # NoOne /\ ~Present(rows, s.id)
    <3>1. rows' = rows
      BY <2>3 DEF AddWrite
    <3> QED
      BY <3>1 DEF Inv, TypeOK
  <2> QED
    BY <2>1, <2>2, <2>3
<1>6. \A t \in TradeIds : GoodOffer(offers[t], rows')
  BY <1>5, OffersStayGood
<1>7. Unlocked /\ Finish(q) /\ UNCHANGED <<offers, writer, draft, arrivals>>
  BY DEF AddWrite
<1>8. \A p \in Requests : req'[p].stage # "settling"
  BY <1>7, NobodySettles, FinishEnds, IdleGood
<1> QED
  BY <1>5, <1>6, <1>7, <1>8, NobodySettles, WriteStep DEF Unlocked, Inv, TypeOK

-----------------------------------------------------------------------------
(* The theorems. *)

LEMMA InitGood == Init => Inv
<1> SUFFICES ASSUME Init PROVE Inv
  OBVIOUS
<1>1. NoOffer \in Offer /\ \A tbl : GoodOffer(NoOffer, tbl)
  BY DEF NoOffer, Offer, GoodOffer
<1>2. TypeOK
  BY <1>1, IdleGood, NoDraftGood, CollectionAssumption
     DEF Init, TypeOK, GoodTable
<1>3. Tradeable(rows) /\ Tradeable(draft) /\ KeepsOwners(draft)
  BY CollectionAssumption, GoneIsRow DEF Init, Tradeable, KeepsOwners, NoDraft
<1>4. writer = NoOne /\ draft = NoDraft
      /\ \A q \in Requests : req[q].stage = "settling" <=> writer = q
  BY IdleGood, NoOneAssumption DEF Init
<1>5. /\ \A t \in TradeIds : GoodOffer(offers[t], rows)
      /\ \A q \in Requests : GoodRequest(req[q], offers)
  BY <1>1, IdleGood DEF Init
<1> QED
  BY <1>2, <1>3, <1>4, <1>5 DEF Inv

LEMMA NextGood == Inv /\ [Next]_vars => Inv'
<1> SUFFICES ASSUME Inv, [Next]_vars PROVE Inv'
  OBVIOUS
<1>1. CASE UNCHANGED vars
  BY <1>1 DEF vars, Inv, TypeOK, Tradeable, KeepsOwners, GoodOffer, GoodItem, GoodRequest
<1>2. CASE \E t \in TradeIds, u, v \in Users : Propose(t, u, v)
  BY <1>2, ProposeStep
<1>3. CASE \E q \in Requests, t \in TradeIds :
             \/ CounterRead(q, t) \/ CancelRead(q, t) \/ CompleteRead(q, t)
             \/ \E d \in {"accepted", "declined"} : RespondRead(q, t, d)
  <2>1. PICK q \in Requests, t \in TradeIds :
             \/ CounterRead(q, t) \/ CancelRead(q, t) \/ CompleteRead(q, t)
             \/ RespondRead(q, t, "accepted") \/ RespondRead(q, t, "declined")
    BY <1>3
  <2>2. offers[t].status # "absent"
    BY <2>1 DEF CounterRead, CancelRead, CompleteRead, RespondRead
  <2> QED
    BY <2>1, <2>2, ArrivalStep
<1>4. ASSUME NEW q \in Requests,
             CounterWrite(q) \/ RespondWrite(q) \/ CancelWrite(q) \/ Settle(q) \/ Abandon(q)
      PROVE  Inv'
  <2>1. CASE CounterWrite(q)
    BY <2>1, CounterWriteStep
  <2>2. CASE RespondWrite(q) \/ CancelWrite(q)
    BY <2>2, SetStatusStep DEF RespondWrite, CancelWrite
  <2>3. CASE Settle(q)
    BY <2>3, ReadItemsStep, ReadSourceStep, SettleFirstStep, SettleNextStep,
       RollbackStep, CommitStep DEF Settle, SettleFails
  <2>4. CASE Abandon(q)
    BY <2>4, RollbackStep DEF Abandon
  <2> QED
    BY <1>4, <2>1, <2>2, <2>3, <2>4
<1>5. CASE \E r \in RowIds : DeleteRow(r)
  BY <1>5, DeleteRowStep
<1>6. CASE \E r \in RowIds, c \in Cards, n \in 0..MaxQuantity :
             \E m \in 0..n : EditRow(r, c, n, m)
  BY <1>6, EditRowStep
<1>7. CASE \E q \in Requests, u \in Users, c \in Cards : AddRead(q, u, c)
  BY <1>7, AddReadStep
<1>8. CASE \E q \in Requests, n \in 0..MaxQuantity : \E m \in 0..n : AddWrite(q, n, m)
  BY <1>8, AddWriteStep
<1> QED
  BY <1>1, <1>2, <1>3, <1>4, <1>5, <1>6, <1>7, <1>8 DEF Next

\* The inductive invariant, for the whole of Next.
THEOREM InvHolds == Spec => []Inv
BY InitGood, NextGood, PTL DEF Spec

\* The tables and what requests hold in memory keep their types.
THEOREM TypeCorrect == Spec => []TypeOK
<1>1. Inv => TypeOK
  BY DEF Inv
<1> QED
  BY <1>1, InvHolds, PTL

\* No row offers more copies than it holds, whatever requests write back from
\* what they read earlier.
THEOREM TradeableCorrect == Spec => []TradeableWithinQuantity
<1>1. Inv => TradeableWithinQuantity
  BY DEF Inv, Tradeable, GoodRequest, TradeableWithinQuantity
<1> QED
  BY <1>1, InvHolds, PTL

\* An offer asks of each party what that party owns.
THEOREM ItemsMatchCorrect == Spec => []ItemsMatchParties
<1>1. Inv => ItemsMatchParties
  BY DEF Inv, GoodOffer, GoodItem, ItemsMatchParties
<1> QED
  BY <1>1, InvHolds, PTL

\* No item of any offer ever points at a row of somebody else.
THEOREM ItemsLinkedCorrect == Spec => []ItemsLinked
<1>1. Inv => ItemsLinked
  BY DEF Inv, GoodOffer, GoodItem, ItemsLinked
<1> QED
  BY <1>1, InvHolds, PTL
-----------------------------------------------------------------------------
(* Copies of cards.                                                        *)

\* What a row holds of a card in a member's name.
Share(row, u, c) == IF row.owner = u /\ row.card = c THEN row.qty ELSE 0
\* n copies of card c, if they are d's and v's.
Just(n, u, c, v, d) == IF u = v /\ c = d THEN n ELSE 0

LEMMA SumOverIsSum == \A f, S : SumOver(f, S) = Sum(f, S)
BY DEF SumOver, Sum

\* Copies are a sum over all rows.
LEMMA CopiesAreShares ==
    ASSUME IsFiniteSet(RowIds), NEW tbl \in [RowIds -> Row], NEW u \in Users, NEW c
    PROVE  /\ Copies(tbl, u, c) = Sum([r \in RowIds |-> Share(tbl[r], u, c)], RowIds)
           /\ Copies(tbl, u, c) \in Nat
<1> DEFINE all == [r \in RowIds |-> tbl[r].qty]
           mine == [r \in RowIds |-> Share(tbl[r], u, c)]
           M == Matches(tbl, u, c)
<1>1. M \in SUBSET RowIds /\ IsFiniteSet(M) /\ IsFiniteSet(RowIds \ M)
  BY FS_Subset DEF Matches
<1>2. \A r \in RowIds : mine[r] \in Nat
  BY RowFields DEF Share
<1>3. \A r \in M : all[r] = mine[r]
  BY DEF Share, Matches
<1>4. \A r \in RowIds \ M : mine[r] = 0
  BY DEF Share, Matches
<1> HIDE DEF all, mine, M
<1>5. Sum(all, M) = Sum(mine, M)
  BY <1>1, <1>3, SumSame
<1>6. Sum(mine, RowIds \ M) = 0
  BY <1>1, <1>4, SumZero
<1>7. Sum(mine, M) \in Nat /\ Sum(mine, RowIds) = Sum(mine, M) + Sum(mine, RowIds \ M)
  BY <1>1, <1>2, SumPart
<1>8. Copies(tbl, u, c) = Sum(all, M)
  BY SumOverIsSum DEF Copies, all, M
<1> QED  BY <1>5, <1>6, <1>7, <1>8 DEF mine

\* Where one row changes, the copies change by as much.
LEMMA CopiesChange ==
    ASSUME IsFiniteSet(RowIds), NEW tbl \in [RowIds -> Row], NEW new \in [RowIds -> Row],
           NEW r \in RowIds, \A s \in RowIds \ {r} : new[s] = tbl[s],
           NEW u \in Users, NEW c
    PROVE  Copies(new, u, c) + Share(tbl[r], u, c) = Copies(tbl, u, c) + Share(new[r], u, c)
<1>1. PICK f : f = [s \in RowIds |-> Share(tbl[s], u, c)]
  OBVIOUS
<1>2. PICK h : h = [s \in RowIds |-> Share(new[s], u, c)]
  OBVIOUS
<1>3. \A s \in RowIds : f[s] \in Nat /\ h[s] \in Nat
  BY <1>1, <1>2, RowFields DEF Share
<1>4. \A s \in RowIds \ {r} : h[s] = f[s]
  BY <1>1, <1>2
<1>5. Sum(h, RowIds) + f[r] = Sum(f, RowIds) + h[r]
  BY <1>3, <1>4, SumChange
<1>6. Copies(tbl, u, c) = Sum(f, RowIds) /\ Copies(new, u, c) = Sum(h, RowIds)
  BY <1>1, <1>2, CopiesAreShares
<1> QED  BY <1>1, <1>2, <1>5, <1>6

\* The source row, still as it was read, gives n copies.
LEMMA TakenCopies ==
    ASSUME IsFiniteSet(RowIds), NEW tbl, GoodTable(tbl), NEW r \in RowIds,
           tbl[r].owner \in Users, tbl[r].forTrade <= tbl[r].qty,
           NEW n \in Nat, n <= tbl[r].qty, NEW u \in Users, NEW c
    PROVE  Copies(Taken(tbl, AsRead(tbl, r), n), u, c) + Just(n, u, c, tbl[r].owner, tbl[r].card)
             = Copies(tbl, u, c)
<1>1. PICK s : s = AsRead(tbl, r)
  OBVIOUS
<1>2. /\ s \in Source /\ s.id = r /\ s.qty = tbl[r].qty /\ s.forTrade = tbl[r].forTrade
      /\ tbl \in [RowIds -> Row]
  BY <1>1, AsReadGood DEF GoodTable
<1>3. PICK new : new = Taken(tbl, s, n)
  OBVIOUS
<1>4. new \in [RowIds -> Row]
  BY <1>2, <1>3, TakenGood DEF GoodTable
<1>5. tbl[r].owner # NoOne /\ tbl[r].qty \in Nat
      /\ tbl[r] \in [owner : Users, card : Cards, qty : Nat, forTrade : Nat]
  BY <1>2, RowFields, NoOneAssumption
<1>6. (\A x \in RowIds \ {r} : new[x] = tbl[x])
      /\ Share(new[r], u, c) + Just(n, u, c, tbl[r].owner, tbl[r].card) = Share(tbl[r], u, c)
  <2>1. CASE s.qty = n
    <3>1. new = [tbl EXCEPT ![r] = Gone]
      BY <1>2, <1>3, <2>1 DEF Taken
    <3>2. Share(Gone, u, c) = 0
      BY NoOneAssumption, GoneIsRow DEF Share
    <3> QED  BY <1>2, <1>5, <2>1, <3>1, <3>2 DEF Share, Just
  <2>2. CASE s.qty # n
    <3>1. PICK m : m = Least(Minus(s.forTrade, n), s.qty - n)
      OBVIOUS
    <3>2. new = [tbl EXCEPT ![r] = Amounts(@, s.qty - n, m)]
      BY <1>2, <1>3, <1>5, <2>2, <3>1 DEF Taken, Present
    <3>3. PICK x : x = Amounts(tbl[r], s.qty - n, m)
      OBVIOUS
    <3>4. x.owner = tbl[r].owner /\ x.card = tbl[r].card /\ x.qty = tbl[r].qty - n
      BY <1>2, <1>5, <3>3 DEF Amounts
    <3>5. new[r] = x /\ \A y \in RowIds \ {r} : new[y] = tbl[y]
      BY <1>2, <3>2, <3>3
    <3> QED  BY <1>5, <3>4, <3>5 DEF Share, Just
  <2> QED  BY <2>1, <2>2
<1>7. Copies(new, u, c) + Share(tbl[r], u, c) = Copies(tbl, u, c) + Share(new[r], u, c)
  BY <1>2, <1>4, <1>6, CopiesChange
<1>8. Share(tbl[r], u, c) \in Nat /\ Share(new[r], u, c) \in Nat
      /\ Just(n, u, c, tbl[r].owner, tbl[r].card) \in Nat
  BY <1>2, <1>4, RowFields DEF Share, Just
<1>9. Copies(new, u, c) \in Nat /\ Copies(tbl, u, c) \in Nat
  BY <1>2, <1>4, CopiesAreShares
<1> QED  BY <1>1, <1>3, <1>6, <1>7, <1>8, <1>9

\* Whoever receives n copies has n more, in an old row or a new one.
LEMMA GivenCopies ==
    ASSUME IsFiniteSet(RowIds), rows \in [RowIds -> Row], NEW tbl, GoodTable(tbl),
           NEW to \in Users, NEW d \in Cards, NEW n \in Nat, NEW new \in Given(tbl, to, d, n),
           NEW u \in Users, NEW c
    PROVE  Copies(new, u, c) = Copies(tbl, u, c) + Just(n, u, c, to, d)
<1>1. tbl \in [RowIds -> Row] /\ new \in [RowIds -> Row]
  BY GivenGood DEF GoodTable
<1>2. PICK r \in RowIds : (\A x \in RowIds \ {r} : new[x] = tbl[x])
         /\ Share(new[r], u, c) = Share(tbl[r], u, c) + Just(n, u, c, to, d)
  <2>1. CASE Matches(tbl, to, d) # {}
    <3>1. PICK r \in Matches(tbl, to, d) : new = [tbl EXCEPT ![r].qty = @ + n]
      BY <2>1 DEF Given
    <3>2. r \in RowIds /\ tbl[r].owner = to /\ tbl[r].card = d
      BY <3>1 DEF Matches
    <3>3. tbl[r] \in [owner : Users, card : Cards, qty : Nat, forTrade : Nat]
      BY <1>1, <3>2, RowFields, NoOneAssumption
    <3>4. PICK x : x = [tbl[r] EXCEPT !.qty = @ + n]
      OBVIOUS
    <3>5. x.owner = to /\ x.card = d /\ x.qty = tbl[r].qty + n
      BY <3>2, <3>3, <3>4
    <3>6. new[r] = x /\ \A y \in RowIds \ {r} : new[y] = tbl[y]
      BY <1>1, <3>1, <3>2, <3>4
    <3> QED  BY <3>2, <3>3, <3>5, <3>6 DEF Share, Just
  <2>2. CASE Matches(tbl, to, d) = {}
    <3>1. PICK x : x = [owner |-> to, card |-> d, qty |-> n, forTrade |-> 0]
      OBVIOUS
    <3>2. PICK r \in NewId(tbl) : new = [tbl EXCEPT ![r] = x]
      BY <2>2, <3>1 DEF Given
    <3>3. r \in RowIds /\ tbl[r] = Gone
      BY <3>2 DEF NewId, Free
    <3>4. new[r] = x /\ \A y \in RowIds \ {r} : new[y] = tbl[y]
      BY <1>1, <3>2, <3>3
    <3>5. Share(Gone, u, c) = 0
      BY NoOneAssumption, GoneIsRow DEF Share
    <3> QED  BY <3>1, <3>3, <3>4, <3>5 DEF Share, Just
  <2> QED  BY <2>1, <2>2
<1>3. Copies(new, u, c) + Share(tbl[r], u, c) = Copies(tbl, u, c) + Share(new[r], u, c)
  BY <1>1, <1>2, CopiesChange
<1>4. Share(tbl[r], u, c) \in Nat /\ Just(n, u, c, to, d) \in Nat
  BY <1>1, RowFields DEF Share, Just
<1>5. Copies(new, u, c) \in Nat /\ Copies(tbl, u, c) \in Nat
  BY <1>1, CopiesAreShares
<1> QED  BY <1>2, <1>3, <1>4, <1>5

\* n copies of a card change hands: what the giver loses the receiver gets.
LEMMA MoveCopies ==
    ASSUME IsFiniteSet(RowIds), rows \in [RowIds -> Row], NEW tbl, GoodTable(tbl),
           NEW r \in RowIds, tbl[r].owner \in Users, tbl[r].card \in Cards,
           NEW n \in Nat, n <= tbl[r].qty, NEW to \in Users,
           NEW new \in Given(Taken(tbl, AsRead(tbl, r), n), to, tbl[r].card, n),
           NEW u \in Users, NEW c
    PROVE  Copies(new, u, c) + Just(n, u, c, tbl[r].owner, tbl[r].card)
             = Copies(tbl, u, c) + Just(n, u, c, to, tbl[r].card)
<1>1. PICK mid : mid = Taken(tbl, AsRead(tbl, r), n)
  OBVIOUS
<1>2. tbl \in [RowIds -> Row] /\ tbl[r].forTrade <= tbl[r].qty
  BY DEF GoodTable, Tradeable
<1>3. GoodTable(mid) /\ mid \in [RowIds -> Row]
  BY <1>1, <1>2, AsReadGood, TakenGood DEF GoodTable
<1>4. Copies(mid, u, c) + Just(n, u, c, tbl[r].owner, tbl[r].card) = Copies(tbl, u, c)
  BY <1>1, <1>2, TakenCopies
<1>5. Copies(new, u, c) = Copies(mid, u, c) + Just(n, u, c, to, tbl[r].card)
  BY <1>1, <1>3, GivenCopies
<1>6. Copies(mid, u, c) \in Nat /\ Copies(tbl, u, c) \in Nat
  BY <1>2, <1>3, CopiesAreShares
<1>7. Just(n, u, c, tbl[r].owner, tbl[r].card) \in Nat /\ Just(n, u, c, to, tbl[r].card) \in Nat
  BY DEF Just
<1> QED  BY <1>4, <1>5, <1>6, <1>7

\* n copies of d went from v to w, as far as card c is concerned.
Exchanged(tbl, new, c, n, v, w, d) ==
    \A u \in Users : Copies(new, u, c) + Just(n, u, c, v, d)
                       = Copies(tbl, u, c) + Just(n, u, c, w, d)

\* Copies that change hands stay in the community.
LEMMA TotalStays ==
    ASSUME IsFiniteSet(RowIds), IsFiniteSet(Users),
           NEW tbl \in [RowIds -> Row], NEW new \in [RowIds -> Row],
           NEW n \in Nat, NEW v \in Users, NEW w \in Users, NEW c, NEW d,
           Exchanged(tbl, new, c, n, v, w, d)
    PROVE  Total(new, c) = Total(tbl, c)
<1>1. PICK f : f = [u \in Users |-> Copies(tbl, u, c)]
  OBVIOUS
<1>2. PICK g : g = [u \in Users |-> Copies(new, u, c)]
  OBVIOUS
<1>3. PICK a : a = [u \in Users |-> Just(n, u, c, v, d)]
  OBVIOUS
<1>4. PICK b : b = [u \in Users |-> Just(n, u, c, w, d)]
  OBVIOUS
<1>5. PICK h : h = [u \in Users |-> f[u] + b[u]]
  OBVIOUS
<1>6. \A u \in Users : /\ f[u] \in Nat /\ g[u] \in Nat /\ a[u] \in Nat /\ b[u] \in Nat
                       /\ h[u] = f[u] + b[u] /\ h[u] = g[u] + a[u]
  <2>1. \A u \in Users : Copies(tbl, u, c) \in Nat /\ Copies(new, u, c) \in Nat
    BY CopiesAreShares
  <2> QED  BY <1>1, <1>2, <1>3, <1>4, <1>5, <2>1 DEF Just, Exchanged
<1>7. Sum(h, Users) = Sum(f, Users) + Sum(b, Users)
  BY <1>6, SumPlus
<1>8. Sum(h, Users) = Sum(g, Users) + Sum(a, Users)
  BY <1>6, SumPlus
<1>9. Sum(a, Users) = a[v] /\ Sum(b, Users) = b[w]
  <2>1. \A u \in Users \ {v} : a[u] = 0
    BY <1>3 DEF Just
  <2>2. \A u \in Users \ {w} : b[u] = 0
    BY <1>4 DEF Just
  <2>3. Sum(a, Users) = a[v]
    BY <1>6, <2>1, SumOne
  <2>4. Sum(b, Users) = b[w]
    BY <1>6, <2>2, SumOne
  <2> QED  BY <2>3, <2>4
<1>10. a[v] = b[w]
  BY <1>3, <1>4 DEF Just
<1>11. Sum(f, Users) \in Nat /\ Sum(g, Users) \in Nat /\ a[v] \in Nat
  BY <1>6, SumNat
<1>12. Total(new, c) = Sum(g, Users) /\ Total(tbl, c) = Sum(f, Users)
  BY <1>1, <1>2, SumOverIsSum DEF Total
<1> QED  BY <1>7, <1>8, <1>9, <1>10, <1>11, <1>12

\* One item of a settlement, from a row that is as it was read.
LEMMA MoveConserves ==
    ASSUME Inv, IsFiniteSet(RowIds), NEW q \in Requests, NEW tbl, GoodTable(tbl),
           NEW r \in RowIds, tbl[r].owner \in Users, tbl[r].card \in Cards,
           req[q].stage \in {"settle", "settling"}, req[q].items # <<>>,
           Head(req[q].items).qty <= tbl[r].qty, Move(q, tbl, AsRead(tbl, r))
    PROVE  LET it == Head(req[q].items) IN
           /\ it \in Item /\ Receiver(q, it) \in Users /\ draft' \in [RowIds -> Row]
           /\ \A u \in Users, c \in Cards :
                 Copies(draft', u, c) + Just(it.qty, u, c, tbl[r].owner, tbl[r].card)
                   = Copies(tbl, u, c) + Just(it.qty, u, c, Receiver(q, it), tbl[r].card)
<1>1. PICK it : it = Head(req[q].items)
  OBVIOUS
<1>2. it \in Item /\ it.qty \in Nat /\ it.qty <= tbl[r].qty
  <2>1. req[q].items \in Seq(Item)
    BY DEF Inv, TypeOK, Request
  <2>2. it \in Item
    BY <1>1, <2>1
  <2> QED  BY <1>1, <2>2 DEF Item
<1>3. PICK to : to = Receiver(q, it)
  OBVIOUS
<1>4. to \in Users
  BY <1>3 DEF Receiver, Inv, GoodRequest, Settling
<1>5. PICK new : new = draft'
  OBVIOUS
<1>6. PICK mid : mid = Taken(tbl, AsRead(tbl, r), it.qty)
  OBVIOUS
<1>7. new \in Given(mid, to, tbl[r].card, it.qty)
  <2>1. new \in Given(Taken(tbl, AsRead(tbl, r), it.qty), Receiver(q, it),
                      AsRead(tbl, r).card, it.qty)
    BY <1>1, <1>5 DEF Move
  <2>2. AsRead(tbl, r).card = tbl[r].card
    BY DEF AsRead
  <2> QED  BY <1>3, <1>6, <2>1, <2>2
<1>8. rows \in [RowIds -> Row] /\ tbl \in [RowIds -> Row] /\ tbl[r].forTrade <= tbl[r].qty
  BY DEF Inv, TypeOK, GoodTable, Tradeable
<1>9. GoodTable(mid)
  BY <1>2, <1>6, <1>8, AsReadGood, TakenGood
<1>10. new \in [RowIds -> Row]
  BY <1>2, <1>4, <1>7, <1>8, <1>9, GivenGood DEF GoodTable
<1>11. ASSUME NEW u \in Users, NEW c \in Cards
       PROVE  Copies(new, u, c) + Just(it.qty, u, c, tbl[r].owner, tbl[r].card)
                = Copies(tbl, u, c) + Just(it.qty, u, c, to, tbl[r].card)
  BY <1>2, <1>4, <1>6, <1>7, <1>8, MoveCopies
<1> QED  BY <1>1, <1>2, <1>3, <1>4, <1>5, <1>10, <1>11

\* Copies appear or vanish in a settlement only through its read of a row that
\* has changed when it is written, for collections of any size: what an item
\* takes from its giver its receiver gets, on merged and on new rows.
THEOREM LossOnlyFromStaleReadCorrect ==
    ASSUME IsFiniteSet(RowIds), IsFiniteSet(Users)
    PROVE  Spec => LossOnlyFromStaleRead
<1>1. ASSUME Inv, NEW q \in Requests, NEW c \in Cards, SettleFirst(q), Unchanged(q)
      PROVE  Total(draft', c) = Total(rows, c)
  <2>1. PICK r : r = req[q].src.id
    OBVIOUS
  <2>2. AsRead(rows, r) = req[q].src /\ req[q].stage = "settle" /\ Move(q, rows, AsRead(rows, r))
    BY <1>1, <2>1 DEF Unchanged, SettleFirst
  <2>3. GoodRequest(req[q], offers)
    BY <1>1 DEF Inv
  <2>4. /\ r \in RowIds /\ rows[r].owner \in Users /\ rows[r].card \in Cards
        /\ req[q].items # <<>> /\ Head(req[q].items).qty <= rows[r].qty
    BY <2>1, <2>2, <2>3 DEF GoodRequest, AsRead
  <2>5. GoodTable(rows) /\ rows \in [RowIds -> Row]
    BY <1>1 DEF GoodTable, Inv, TypeOK, KeepsOwners
  <2>6. PICK it : it = Head(req[q].items)
    OBVIOUS
  <2>7. /\ it \in Item /\ Receiver(q, it) \in Users /\ draft' \in [RowIds -> Row]
        /\ \A u \in Users, x \in Cards :
              Copies(draft', u, x) + Just(it.qty, u, x, rows[r].owner, rows[r].card)
                = Copies(rows, u, x) + Just(it.qty, u, x, Receiver(q, it), rows[r].card)
    BY <1>1, <2>2, <2>4, <2>5, <2>6, MoveConserves
  <2>8. it.qty \in Nat
    BY <2>7 DEF Item
  <2>9. PICK to : to = Receiver(q, it) /\ to \in Users
    BY <2>7
  <2>10. PICK d : d = rows[r].card
    OBVIOUS
  <2>11. PICK v : v = rows[r].owner /\ v \in Users
    BY <2>4
  <2>12. PICK new, tbl, n : new = draft' /\ tbl = rows /\ n = it.qty
    OBVIOUS
  <2>13. new \in [RowIds -> Row] /\ tbl \in [RowIds -> Row] /\ n \in Nat
    BY <2>5, <2>7, <2>8, <2>12
  <2>14. Exchanged(tbl, new, c, n, v, to, d)
    BY <2>7, <2>9, <2>10, <2>11, <2>12 DEF Exchanged
  <2>15. Total(new, c) = Total(tbl, c)
    BY <2>9, <2>11, <2>13, <2>14, TotalStays
  <2> QED  BY <2>12, <2>15
<1>2. ASSUME Inv, NEW q \in Requests, NEW c \in Cards, SettleNext(q)
      PROVE  Total(draft', c) = Total(draft, c)
  <2>1. PICK it : it = Head(req[q].items)
    OBVIOUS
  <2>2. PICK r : r = it.row
    OBVIOUS
  <2>3. /\ req[q].stage = "settling" /\ req[q].items # <<>> /\ CanGive(draft, it)
        /\ Move(q, draft, AsRead(draft, r))
    BY <1>2, <2>1, <2>2 DEF SettleNext
  <2>4. GoodTable(draft) /\ draft \in [RowIds -> Row]
    BY <1>2 DEF GoodTable, Inv, TypeOK
  <2>5. /\ r \in RowIds /\ draft[r].owner \in Users /\ draft[r].card \in Cards
        /\ it.qty <= draft[r].qty
    <3>1. LET s == AsRead(draft, it.row) IN
          /\ it \in Item /\ it.row \in RowIds
          /\ s.owner \in Users /\ s.card \in Cards /\ it.qty <= s.qty /\ s.qty = draft[it.row].qty
      BY <1>2, <2>1, <2>3, <2>4, HeadGood
    <3> QED  BY <2>2, <3>1 DEF AsRead
  <2>6. /\ it \in Item /\ Receiver(q, it) \in Users /\ draft' \in [RowIds -> Row]
        /\ \A u \in Users, x \in Cards :
              Copies(draft', u, x) + Just(it.qty, u, x, draft[r].owner, draft[r].card)
                = Copies(draft, u, x) + Just(it.qty, u, x, Receiver(q, it), draft[r].card)
    BY <1>2, <2>1, <2>3, <2>4, <2>5, MoveConserves
  <2>7. it.qty \in Nat
    BY <2>6 DEF Item
  <2>8. PICK to : to = Receiver(q, it) /\ to \in Users
    BY <2>6
  <2>9. PICK d : d = draft[r].card
    OBVIOUS
  <2>10. PICK v : v = draft[r].owner /\ v \in Users
    BY <2>5
  <2>11. PICK new, tbl, n : new = draft' /\ tbl = draft /\ n = it.qty
    OBVIOUS
  <2>12. new \in [RowIds -> Row] /\ tbl \in [RowIds -> Row] /\ n \in Nat
    BY <2>4, <2>6, <2>7, <2>11
  <2>13. Exchanged(tbl, new, c, n, v, to, d)
    BY <2>6, <2>8, <2>9, <2>10, <2>11 DEF Exchanged
  <2>14. Total(new, c) = Total(tbl, c)
    BY <2>8, <2>10, <2>12, <2>13, TotalStays
  <2> QED  BY <2>11, <2>14
<1>3. Inv /\ [Next]_vars => [\A q \in Requests : \A c \in Cards :
          /\ SettleFirst(q) /\ Unchanged(q) => Total(draft', c) = Total(rows, c)
          /\ SettleNext(q) => Total(draft', c) = Total(draft, c)]_vars
  BY <1>1, <1>2
<1> QED  BY <1>3, InvHolds, PTL DEF Spec, LossOnlyFromStaleRead

-----------------------------------------------------------------------------
(* The ledger. *)

LEMMA ItemIs ==
    ASSUME NEW its \in Seq(Item), NEW i \in DOMAIN its
    PROVE  /\ its[i] \in Item /\ its[i].qty \in Nat /\ its[i].owner \in Users
           /\ its[i].card \in Cards /\ its[i].row \in RowIds \cup {NoOne}
           /\ its[i].side \in Side
<1>1. its[i] \in Item
  OBVIOUS
<1> QED  BY <1>1 DEF Item

LEMMA TailIs ==
    ASSUME NEW its \in Seq(Item), its # <<>>
    PROVE  /\ Head(its) \in Item /\ Head(its) = its[1] /\ Len(its) \in Nat /\ Len(its) > 0
           /\ Tail(its) \in Seq(Item) /\ DOMAIN its = 1..Len(its) /\ 1 \in DOMAIN its
           /\ DOMAIN Tail(its) = 1..(Len(its) - 1)
           /\ \A i \in DOMAIN Tail(its) : i + 1 \in DOMAIN its /\ Tail(its)[i] = its[i + 1]
OBVIOUS

Shares(its, u, c) == [i \in DOMAIN its |-> Share(its[i], u, c)]

LEMMA GivesAreShares ==
    ASSUME NEW its \in Seq(Item), NEW u, NEW c
    PROVE  /\ Gives(its, u, c) = Sum(Shares(its, u, c), DOMAIN its)
           /\ Gives(its, u, c) \in Nat
<1> DEFINE D == DOMAIN its
           all == [i \in D |-> its[i].qty]
           mine == [i \in D |-> Share(its[i], u, c)]
           M == {i \in D : its[i].owner = u /\ its[i].card = c}
<1>1. IsFiniteSet(D) /\ M \in SUBSET D /\ IsFiniteSet(M) /\ IsFiniteSet(D \ M)
  <2>1. D = 1..Len(its) /\ Len(its) \in Nat
    OBVIOUS
  <2>2. IsFiniteSet(1..Len(its))
    BY <2>1, FS_Interval
  <2> QED  BY <2>1, <2>2, FS_Subset
<1>2. \A i \in D : mine[i] \in Nat
  <2>1. \A i \in D : its[i].qty \in Nat
    BY ItemIs
  <2> QED  BY <2>1 DEF Share
<1>3. (\A i \in M : all[i] = mine[i]) /\ \A i \in D \ M : mine[i] = 0
  BY DEF Share
<1>4. Gives(its, u, c) = Sum(all, M)
  BY SumOverIsSum DEF Gives
<1> HIDE DEF all, mine, M, D
<1>5. Sum(all, M) = Sum(mine, M)
  BY <1>1, <1>3, SumSame
<1>6. Sum(mine, D \ M) = 0
  BY <1>1, <1>3, SumZero
<1>7. Sum(mine, M) \in Nat /\ Sum(mine, D) = Sum(mine, M) + Sum(mine, D \ M)
  BY <1>1, <1>2, SumPart
<1>8. Gives(its, u, c) = Sum(mine, D) /\ Gives(its, u, c) \in Nat
  BY <1>4, <1>5, <1>6, <1>7
<1> QED  BY <1>8 DEF mine, D, Shares

LEMMA GivesEmpty == ASSUME NEW u, NEW c PROVE Gives(<<>>, u, c) = 0
<1>1. {i \in DOMAIN <<>> : <<>>[i].owner = u /\ <<>>[i].card = c} = {}
  OBVIOUS
<1>2. Sum([i \in DOMAIN <<>> |-> <<>>[i].qty], {}) = 0
  BY SumEmpty
<1> QED  BY <1>1, <1>2, SumOverIsSum DEF Gives

\* The first item and the others.
LEMMA GivesTail ==
    ASSUME NEW its \in Seq(Item), its # <<>>, NEW u, NEW c
    PROVE  Gives(its, u, c) = Gives(Tail(its), u, c) + Share(Head(its), u, c)
<1>1. PICK n : n = Len(its) - 1 /\ n \in Nat
  BY TailIs
<1>2. PICK rest : rest = Tail(its) /\ rest \in Seq(Item)
  BY TailIs
<1>3. PICK D, E : D = 1..(n + 1) /\ E = 1..n
  OBVIOUS
<1>4. /\ DOMAIN its = D /\ DOMAIN rest = E /\ 1 \in D
      /\ \A i \in E : i + 1 \in D \ {1} /\ rest[i] = its[i + 1]
      /\ \A i \in D \ {1} : i - 1 \in E
  <2>1. DOMAIN its = D /\ DOMAIN rest = E /\ 1 \in D
    BY <1>1, <1>2, <1>3, TailIs
  <2>2. \A i \in E : rest[i] = its[i + 1]
    BY <1>2, <2>1, TailIs
  <2> QED  BY <1>1, <1>3, <2>1, <2>2
<1>5. IsFiniteSet(D) /\ IsFiniteSet(E)
  <2>1. IsFiniteSet(1..(n + 1)) /\ IsFiniteSet(1..n)
    BY <1>1, FS_Interval
  <2> QED  BY <1>3, <2>1
<1>6. PICK f : f = Shares(its, u, c) /\ f = [i \in D |-> Share(its[i], u, c)]
  BY <1>4 DEF Shares
<1>7. PICK g : g = Shares(rest, u, c) /\ g = [i \in E |-> Share(rest[i], u, c)]
  BY <1>4 DEF Shares
<1>8. PICK name : name = [i \in E |-> i + 1]
  OBVIOUS
<1>9. (\A i \in D : f[i] \in Nat) /\ \A i \in E : g[i] \in Nat
  <2>1. \A i \in D : its[i].qty \in Nat
    BY <1>4, ItemIs
  <2>2. \A i \in E : rest[i].qty \in Nat
    BY <1>2, <1>4, ItemIs
  <2> QED  BY <1>6, <1>7, <2>1, <2>2 DEF Share
<1>10. Sum(f, D) = f[1] + Sum(f, D \ {1})
  BY <1>4, <1>5, <1>9, SumTake
<1>11. {name[i] : i \in E} = D \ {1}
  <2>1. \A i \in E : name[i] \in D \ {1}
    BY <1>4, <1>8
  <2>2. \A x \in D \ {1} : x - 1 \in E /\ name[x - 1] = x
    BY <1>1, <1>3, <1>4, <1>8
  <2> QED  BY <2>1, <2>2
<1>12. Sum(f, D \ {1}) = Sum(g, E)
  <2>1. \A i, j \in E : name[i] = name[j] => i = j
    BY <1>1, <1>3, <1>8
  <2>2. \A i \in E : f[name[i]] = g[i]
    BY <1>4, <1>6, <1>7, <1>8
  <2>3. Renames(name, f, g, E)
    BY <1>9, <2>1, <2>2 DEF Renames
  <2>4. Sum(f, {name[i] : i \in E}) = Sum(g, E)
    BY <1>5, <2>3, SumRenamed
  <2> QED  BY <1>11, <2>4
<1>13. Gives(its, u, c) = Sum(f, D)
  <2>1. Gives(its, u, c) = Sum(Shares(its, u, c), DOMAIN its)
    BY GivesAreShares
  <2> QED  BY <1>4, <1>6, <2>1, Zenon
<1>14. Gives(rest, u, c) = Sum(g, E) /\ Gives(rest, u, c) \in Nat
  <2>1. Gives(rest, u, c) = Sum(Shares(rest, u, c), DOMAIN rest) /\ Gives(rest, u, c) \in Nat
    BY <1>2, GivesAreShares
  <2> QED  BY <1>4, <1>7, <2>1, Zenon
<1>15. f[1] = Share(Head(its), u, c) /\ f[1] \in Nat
  BY <1>4, <1>6, <1>9, TailIs
<1> HIDE DEF Item
<1> QED  BY <1>2, <1>10, <1>12, <1>13, <1>14, <1>15

\* Only amounts, owners and cards count.
LEMMA GivesSame ==
    ASSUME NEW its \in Seq(Item), NEW jts \in Seq(Item), DOMAIN jts = DOMAIN its,
           \A i \in DOMAIN its : /\ jts[i].owner = its[i].owner /\ jts[i].card = its[i].card
                                 /\ jts[i].qty = its[i].qty,
           NEW u, NEW c
    PROVE  Gives(jts, u, c) = Gives(its, u, c)
<1>1. Shares(its, u, c) = Shares(jts, u, c)
  BY DEF Share, Shares
<1> QED  BY <1>1, GivesAreShares

LEMMA GivesNone ==
    ASSUME NEW its \in Seq(Item), NEW u, NEW c, \A i \in DOMAIN its : its[i].owner # u
    PROVE  Gives(its, u, c) = 0
<1>1. PICK f : f = Shares(its, u, c)
  OBVIOUS
<1>2. \A i \in DOMAIN its : f[i] = 0
  BY <1>1 DEF Share, Shares
<1>3. IsFiniteSet(DOMAIN its)
  <2>1. DOMAIN its = 1..Len(its) /\ Len(its) \in Nat
    OBVIOUS
  <2> QED  BY <2>1, FS_Interval
<1>4. Sum(f, DOMAIN its) = 0
  BY <1>2, <1>3, SumZero
<1> QED  BY <1>1, <1>4, GivesAreShares

LEMMA OfferIs ==
    ASSUME NEW o \in Offer
    PROVE  /\ o.items \in Seq(Item) /\ o.proposer \in Users \cup {NoOne}
           /\ o.recipient \in Users \cup {NoOne}
           /\ o.status \in {"absent", "pending", "accepted", "declined", "cancelled", "completed"}
BY DEF Offer

LEMMA DealIs ==
    ASSUME NEW o \in Offer
    PROVE  /\ DealOf(o) \in Ledger!Deal
           /\ DealOf(o).status = o.status /\ DealOf(o).proposer = o.proposer
           /\ DealOf(o).recipient = o.recipient
           /\ \A u \in Users, c \in Cards : DealOf(o).gives[u][c] = Gives(o.items, u, c)
<1>1. PICK g : g = [u \in Users |-> [c \in Cards |-> Gives(o.items, u, c)]]
  OBVIOUS
<1>2. \A u \in Users, c \in Cards : Gives(o.items, u, c) \in Nat
  BY OfferIs, GivesAreShares
<1>3. g \in [Users -> [Cards -> Nat]]
  BY <1>1, <1>2
<1>4. DealOf(o) = [status |-> o.status, proposer |-> o.proposer, recipient |-> o.recipient,
                   gives |-> g]
  BY <1>1 DEF DealOf
<1>5. DealOf(o) \in Ledger!Deal
  BY <1>3, <1>4, OfferIs DEF Ledger!Deal, Ledger!Amounts
<1>6. \A u \in Users, c \in Cards : g[u][c] = Gives(o.items, u, c)
  BY <1>1
<1> QED  BY <1>4, <1>5, <1>6

LEMMA DealBetween ==
    ASSUME NEW o \in Offer, NEW u \in Users, NEW v \in Users, u # v,
           o.status = "pending", o.proposer = u, o.recipient = v,
           \A i \in DOMAIN o.items : o.items[i].owner \in {u, v}
    PROVE  Ledger!Between(DealOf(o), u, v)
<1>1. \A w \in Users \ {u, v} : \A c \in Cards : Gives(o.items, w, c) = 0
  BY OfferIs, GivesNone
<1>2. PICK d : d = DealOf(o)
  OBVIOUS
<1>3. /\ d \in Ledger!Deal /\ d.status = "pending" /\ d.proposer = u /\ d.recipient = v
      /\ \A w \in Users \ {u, v} : \A c \in Cards : d.gives[w][c] = 0
  BY <1>1, <1>2, DealIs
<1>4. Ledger!Between(d, u, v)
  BY <1>3 DEF Ledger!Between
<1> QED  BY <1>2, <1>4

LEMMA DealStatus ==
    ASSUME NEW o \in Offer, NEW s
    PROVE  DealOf([o EXCEPT !.status = s]) = [DealOf(o) EXCEPT !.status = s]
<1>1. PICK p : p = [o EXCEPT !.status = s]
  OBVIOUS
<1>2. p.status = s /\ p.proposer = o.proposer /\ p.recipient = o.recipient /\ p.items = o.items
  BY <1>1 DEF Offer
<1>3. PICK g : g = [u \in Users |-> [c \in Cards |-> Gives(o.items, u, c)]]
  OBVIOUS
<1>4. DealOf(p) = [status |-> s, proposer |-> o.proposer, recipient |-> o.recipient, gives |-> g]
  BY <1>2, <1>3 DEF DealOf
<1>5. DealOf(o) = [status |-> o.status, proposer |-> o.proposer, recipient |-> o.recipient,
                   gives |-> g]
  BY <1>3 DEF DealOf
<1> QED  BY <1>1, <1>4, <1>5

LEMMA DealsExcept ==
    ASSUME NEW os \in [TradeIds -> Offer], NEW t \in TradeIds, NEW o
    PROVE  Deals([os EXCEPT ![t] = o]) = [Deals(os) EXCEPT ![t] = DealOf(o)]
BY DEF Deals

LEMMA DealsIs ==
    ASSUME NEW os \in [TradeIds -> Offer], NEW t \in TradeIds PROVE Deals(os)[t] = DealOf(os[t])
BY DEF Deals

\* The ledger does not see which row an item is taken from.
LEMMA DealsUnlinked ==
    ASSUME NEW os \in [TradeIds -> Offer], NEW tbl
    PROVE  Deals(Unlinked(os, tbl)) = Deals(os)
<1> SUFFICES ASSUME NEW t \in TradeIds PROVE DealOf(Unlinked(os, tbl)[t]) = DealOf(os[t])
  BY DEF Deals
<1>1. PICK o : o = os[t] /\ o \in Offer
  OBVIOUS
<1>2. PICK its : its = o.items /\ its \in Seq(Item)
  BY <1>1, OfferIs
<1>3. PICK jts : jts = [i \in DOMAIN its |-> IF its[i].row # NoOne /\ ~Present(tbl, its[i].row)
                                            THEN [its[i] EXCEPT !.row = NoOne] ELSE its[i]]
  OBVIOUS
<1>4. PICK p : p = Unlinked(os, tbl)[t]
  OBVIOUS
<1>5. p = [o EXCEPT !.items = jts]
  BY <1>1, <1>2, <1>3, <1>4 DEF Unlinked
<1>6. p.status = o.status /\ p.proposer = o.proposer /\ p.recipient = o.recipient /\ p.items = jts
  BY <1>1, <1>5 DEF Offer
<1>7. ASSUME NEW i \in DOMAIN its
      PROVE  /\ jts[i] \in Item /\ jts[i].owner = its[i].owner /\ jts[i].card = its[i].card
             /\ jts[i].qty = its[i].qty
  <2>1. its[i] \in Item
    BY <1>2, ItemIs
  <2> QED  BY <1>3, <2>1 DEF Item
<1>8. DOMAIN jts = DOMAIN its /\ jts \in Seq(Item)
  <2>1. DOMAIN its = 1..Len(its) /\ Len(its) \in Nat
    BY <1>2
  <2>2. jts \in [1..Len(its) -> Item]
    BY <1>3, <1>7, <2>1
  <2> QED  BY <1>3, <2>1, <2>2
<1>9. \A u, c : Gives(jts, u, c) = Gives(its, u, c)
  BY <1>2, <1>7, <1>8, GivesSame
<1>10. DealOf(p) = DealOf(o)
  BY <1>2, <1>6, <1>9 DEF DealOf
<1> QED  BY <1>1, <1>4, <1>10

-----------------------------------------------------------------------------
(* Steps of the ledger. *)

LEMMA LedgerStays == UNCHANGED <<rows, offers>> => UNCHANGED Ledger!vars
BY DEF Ledger!vars

LEMMA HeldIs ==
    ASSUME IsFiniteSet(RowIds), NEW tbl \in [RowIds -> Row]
    PROVE  /\ Held(tbl) \in Ledger!Amounts
           /\ \A u \in Users : Held(tbl)[u] = [c \in Cards |-> Copies(tbl, u, c)]
           /\ \A u \in Users, c \in Cards : Held(tbl)[u][c] = Copies(tbl, u, c)
<1>1. \A u \in Users, c \in Cards : Copies(tbl, u, c) \in Nat
  BY CopiesAreShares
<1> QED  BY <1>1 DEF Held, Ledger!Amounts

\* A row of one owner comes, goes or changes.
LEMMA LedgerManages ==
    ASSUME IsFiniteSet(RowIds), rows \in [RowIds -> Row], rows' \in [RowIds -> Row],
           NEW r \in RowIds, \A s \in RowIds \ {r} : rows'[s] = rows[s],
           NEW u \in Users, rows[r].owner \in {u, NoOne}, rows'[r].owner \in {u, NoOne},
           Deals(offers') = Deals(offers)
    PROVE  Ledger!Manage(u)
<1>1. PICK tbl, new : tbl = rows /\ new = rows'
  OBVIOUS
<1>2. ASSUME NEW v \in Users \ {u}, NEW c \in Cards PROVE Copies(new, v, c) = Copies(tbl, v, c)
  <2>1. Share(tbl[r], v, c) = 0 /\ Share(new[r], v, c) = 0
    BY <1>1, NoOneAssumption DEF Share
  <2>2. Copies(new, v, c) + Share(tbl[r], v, c) = Copies(tbl, v, c) + Share(new[r], v, c)
    BY <1>1, CopiesChange
  <2>3. Copies(new, v, c) \in Nat /\ Copies(tbl, v, c) \in Nat
    BY <1>1, CopiesAreShares
  <2> QED  BY <2>1, <2>2, <2>3
<1>3. ASSUME NEW v \in Users \ {u} PROVE Held(new)[v] = Held(tbl)[v]
  <2>1. /\ Held(new)[v] = [c \in Cards |-> Copies(new, v, c)]
        /\ Held(tbl)[v] = [c \in Cards |-> Copies(tbl, v, c)]
    BY <1>1, HeldIs
  <2>2. [c \in Cards |-> Copies(new, v, c)] = [c \in Cards |-> Copies(tbl, v, c)]
    BY <1>2
  <2> QED  BY <2>1, <2>2
<1>4. Held(new)[u] \in [Cards -> Nat]
  BY <1>1, HeldIs DEF Ledger!Amounts
<1> QED  BY <1>1, <1>3, <1>4 DEF Ledger!Manage

LEMMA LedgerCloses ==
    ASSUME offers \in [TradeIds -> Offer], NEW t \in TradeIds, offers[t].status = "pending",
           NEW s \in {"accepted", "declined", "cancelled"},
           offers' = [offers EXCEPT ![t].status = s], UNCHANGED rows
    PROVE  Ledger!Close(t)
<1>1. PICK o : o = [offers[t] EXCEPT !.status = s]
  OBVIOUS
<1>2. offers' = [offers EXCEPT ![t] = o]
  BY <1>1
<1>3. Deals(offers') = [Deals(offers) EXCEPT ![t] = DealOf(o)]
  <2>1. Deals([offers EXCEPT ![t] = o]) = [Deals(offers) EXCEPT ![t] = DealOf(o)]
    BY DealsExcept
  <2> QED  BY <1>2, <2>1
<1>4. DealOf(o) = [Deals(offers)[t] EXCEPT !.status = s]
  BY <1>1, DealStatus, DealsIs
<1>5. Deals(offers') = [Deals(offers) EXCEPT ![t].status = s]
  BY <1>3, <1>4
<1>6. Deals(offers)[t].status = "pending"
  BY DealsIs, DealIs
<1> QED  BY <1>5, <1>6 DEF Ledger!Close

\* A new offer, or a counter-offer, of u to v.
LEMMA LedgerOffers ==
    ASSUME offers \in [TradeIds -> Offer], NEW t \in TradeIds,
           NEW u \in Users, NEW v \in Users, u # v, NEW its \in Seq(Item),
           \A i \in DOMAIN its : its[i].owner \in {u, v},
           offers' = [offers EXCEPT ![t] = Pending(u, v, its)], UNCHANGED rows,
           \/ offers[t].status = "absent"
           \/ offers[t].status = "pending" /\ offers[t].recipient = u /\ offers[t].proposer = v
    PROVE  Ledger!Propose(t) \/ Ledger!Counter(t)
<1>1. PICK o : o = Pending(u, v, its)
  OBVIOUS
<1>2. o \in Offer /\ o.status = "pending" /\ o.proposer = u /\ o.recipient = v /\ o.items = its
  BY <1>1 DEF Pending, Offer
<1>3. Deals(offers') = [Deals(offers) EXCEPT ![t] = DealOf(o)]
  BY <1>1, DealsExcept
<1>4. Deals(offers')[t] = DealOf(o) /\ \A s \in TradeIds \ {t} : Deals(offers')[s] = Deals(offers)[s]
  BY <1>3 DEF Deals
<1>5. Ledger!Between(Deals(offers')[t], u, v)
  BY <1>2, <1>4, DealBetween
<1>6. Ledger!Others(t)
  BY <1>4 DEF Ledger!Others
<1>7. CASE offers[t].status = "absent"
  <2>1. Deals(offers)[t].status = "absent"
    BY <1>7, DealsIs, DealIs
  <2> QED  BY <1>5, <1>6, <2>1 DEF Ledger!Propose
<1>8. CASE offers[t].status = "pending" /\ offers[t].recipient = u /\ offers[t].proposer = v
  <2>1. Deals(offers)[t].status = "pending" /\ Deals(offers)[t].recipient = u
        /\ Deals(offers)[t].proposer = v
    BY <1>8, DealsIs, DealIs
  <2> QED  BY <1>5, <1>6, <2>1 DEF Ledger!Counter
<1> QED  BY <1>7, <1>8

-----------------------------------------------------------------------------
(* What holds besides Inv when requests come one at a time and no owner     *)
(* turns a row into another card.                                           *)

OnlyOne == \A p, q \in Requests : req[p] # Idle /\ req[q] # Idle => p = q

\* Items name the card of the row they point at.
Named(its, tbl) == \A i \in DOMAIN its :
    its[i].row # NoOne /\ Present(tbl, its[i].row) => tbl[its[i].row].card = its[i].card
OfParties(its, u, v) == \A i \in DOMAIN its :
    its[i].owner = IF its[i].side = "offered" THEN u ELSE v
OffersNamed == \A t \in TradeIds : Named(offers[t].items, rows)
Apart == \A t \in TradeIds :
    offers[t].status # "absent" => offers[t].proposer # offers[t].recipient
KeepsCards(tbl) == \A r \in RowIds :
    Present(rows, r) /\ Present(tbl, r) => tbl[r].card = rows[r].card

\* What w receives of the items that u and v exchange.
Gets(its, u, v, w, c) ==
    IF w = v THEN Gives(its, u, c) ELSE IF w = u THEN Gives(its, v, c) ELSE 0
\* Between rows and tbl, o's items have been moved but for its.
Halfway(o, its, tbl) == \A w \in Users, c \in Cards :
    Copies(tbl, w, c) + Gives(o.items, w, c) + Gets(its, o.proposer, o.recipient, w, c)
      = Copies(rows, w, c) + Gets(o.items, o.proposer, o.recipient, w, c) + Gives(its, w, c)

AsRequested(r, os, tbl) ==
    LET o == os[r.trade] IN
    /\ r.stage = "counter" => /\ o.status = "pending"
                              /\ r.proposer = o.recipient /\ r.recipient = o.proposer
    /\ r.stage \in {"accepted", "declined", "cancelled"} => o.status = "pending"
    /\ r.stage \in {"items", "source", "settle", "settling"} =>
          o.status = "accepted" /\ r.proposer = o.proposer /\ r.recipient = o.recipient
    /\ r.stage \in {"source", "settle"} => r.items = o.items
    /\ r.stage = "settle" => /\ CanGive(rows, Head(r.items))
                             /\ r.src = AsRead(rows, Head(r.items).row)
    /\ r.stage = "settling" => /\ OfParties(r.items, o.proposer, o.recipient)
                               /\ Named(r.items, tbl) /\ Halfway(o, r.items, tbl)

SerialInv ==
    /\ Inv /\ OnlyOne /\ OffersNamed /\ Apart /\ KeepsCards(draft)
    /\ \A q \in Requests : AsRequested(req[q], offers, draft)

\* A move makes no present row another card, and new rows nobody refers to.
LEMMA MoveKeeps ==
    ASSUME rows \in [RowIds -> Row], NEW tbl, GoodTable(tbl), NEW s \in Source, s.id \in RowIds,
           s.forTrade <= s.qty, NEW n \in Nat, n <= s.qty, NEW to \in Users, NEW c \in Cards,
           NEW new \in Given(Taken(tbl, s, n), to, c, n), NEW x \in RowIds, Present(new, x)
    PROVE  \/ Present(tbl, x) /\ new[x].card = tbl[x].card
           \/ rows[x] = Gone /\ ~Remembered(x)
<1>1. PICK mid : mid = Taken(tbl, s, n)
  OBVIOUS
<1>2. GoodTable(mid) /\ mid \in [RowIds -> Row] /\ tbl \in [RowIds -> Row]
  BY <1>1, TakenGood DEF GoodTable
<1>3. Present(mid, x) => Present(tbl, x) /\ mid[x].card = tbl[x].card
  <2>1. CASE s.qty = n
    BY <1>1, <1>2, <2>1, GoneIsRow DEF Taken, Present
  <2>2. CASE s.qty # n /\ ~Present(tbl, s.id)
    BY <1>1, <2>2 DEF Taken
  <2>3. CASE s.qty # n /\ Present(tbl, s.id)
    <3>1. PICK m : m = Least(Minus(s.forTrade, n), s.qty - n)
      OBVIOUS
    <3>2. PICK y : y = Amounts(tbl[s.id], s.qty - n, m)
      OBVIOUS
    <3>3. mid = [tbl EXCEPT ![s.id] = y]
      BY <1>1, <2>3, <3>1, <3>2 DEF Taken
    <3>4. tbl[s.id] \in [owner : Users, card : Cards, qty : Nat, forTrade : Nat]
      BY <1>2, <2>3, RowFields DEF Present
    <3>5. y.owner = tbl[s.id].owner /\ y.card = tbl[s.id].card
      BY <3>2, <3>4 DEF Amounts
    <3> QED  BY <1>2, <3>3, <3>5 DEF Present
  <2> QED  BY <2>1, <2>2, <2>3
<1>4. \/ Present(mid, x) /\ new[x].card = mid[x].card
      \/ x \in NewId(mid)
  <2>1. new \in Given(mid, to, c, n)
    BY <1>1
  <2>2. CASE Matches(mid, to, c) # {}
    <3>1. PICK r \in Matches(mid, to, c) : new = [mid EXCEPT ![r].qty = @ + n]
      BY <2>1, <2>2 DEF Given
    <3>2. r \in RowIds /\ mid[r].owner = to
      BY <3>1 DEF Matches
    <3>3. mid[r] \in [owner : Users, card : Cards, qty : Nat, forTrade : Nat]
      BY <1>2, <3>2, RowFields, NoOneAssumption
    <3>4. PICK y : y = [mid[r] EXCEPT !.qty = @ + n]
      OBVIOUS
    <3>5. y.owner = mid[r].owner /\ y.card = mid[r].card
      BY <3>3, <3>4
    <3>6. new = [mid EXCEPT ![r] = y]
      BY <3>1, <3>4
    <3> QED  BY <1>2, <3>2, <3>5, <3>6 DEF Present
  <2>3. CASE Matches(mid, to, c) = {}
    <3>1. PICK y : y = [owner |-> to, card |-> c, qty |-> n, forTrade |-> 0]
      OBVIOUS
    <3>2. PICK r \in NewId(mid) : new = [mid EXCEPT ![r] = y]
      BY <2>1, <2>3, <3>1 DEF Given
    <3> QED  BY <1>2, <3>2 DEF Present
  <2> QED  BY <2>2, <2>3
<1>5. x \in NewId(mid) => rows[x] = Gone /\ ~Remembered(x)
  BY DEF NewId, Free
<1> QED  BY <1>3, <1>4, <1>5

\* What is received of an item and of the others.
LEMMA GetsTail ==
    ASSUME NEW its \in Seq(Item), its # <<>>, NEW u, NEW v, u # v, OfParties(its, u, v),
           NEW to, to = (IF Head(its).side = "offered" THEN v ELSE u), NEW w, NEW c
    PROVE  Gets(its, u, v, w, c)
             = Gets(Tail(its), u, v, w, c) + Just(Head(its).qty, w, c, to, Head(its).card)
<1>1. PICK it : it = Head(its)
  OBVIOUS
<1>2. it.qty \in Nat /\ it.owner = IF it.side = "offered" THEN u ELSE v
  <2>1. it = its[1] /\ 1 \in DOMAIN its
    BY <1>1, TailIs
  <2> QED  BY <2>1, ItemIs DEF OfParties
<1>3. PICK rest : rest = Tail(its) /\ rest \in Seq(Item)
  BY TailIs
<1>4. Gives(its, u, c) = Gives(rest, u, c) + Share(it, u, c)
  BY <1>1, <1>3, GivesTail
<1>5. Gives(its, v, c) = Gives(rest, v, c) + Share(it, v, c)
  BY <1>1, <1>3, GivesTail
<1>6. Gives(rest, u, c) \in Nat /\ Gives(rest, v, c) \in Nat
  BY <1>3, GivesAreShares
<1>7. CASE w = v
  <2>1. Gets(its, u, v, w, c) = Gives(its, u, c) /\ Gets(rest, u, v, w, c) = Gives(rest, u, c)
    BY <1>7 DEF Gets
  <2>2. Share(it, u, c) = Just(it.qty, w, c, to, it.card)
    BY <1>1, <1>2, <1>7 DEF Share, Just
  <2> QED  BY <1>1, <1>3, <1>4, <2>1, <2>2
<1>8. CASE w # v /\ w = u
  <2>1. Gets(its, u, v, w, c) = Gives(its, v, c) /\ Gets(rest, u, v, w, c) = Gives(rest, v, c)
    BY <1>8 DEF Gets
  <2>2. Share(it, v, c) = Just(it.qty, w, c, to, it.card)
    BY <1>1, <1>2, <1>8 DEF Share, Just
  <2> QED  BY <1>1, <1>3, <1>5, <2>1, <2>2
<1>9. CASE w # v /\ w # u
  <2>1. Gets(its, u, v, w, c) = 0 /\ Gets(rest, u, v, w, c) = 0
    BY <1>9 DEF Gets
  <2>2. Just(it.qty, w, c, to, it.card) = 0
    BY <1>1, <1>9 DEF Just
  <2> QED  BY <1>1, <1>3, <2>1, <2>2
<1> QED  BY <1>7, <1>8, <1>9

LEMMA GetsNat ==
    ASSUME NEW its \in Seq(Item), NEW u, NEW v, NEW w, NEW c
    PROVE  Gets(its, u, v, w, c) \in Nat
BY GivesAreShares DEF Gets

Balance(now, old, was, all, rem, got, left, s, j) ==
    /\ now \in Nat /\ old \in Nat /\ was \in Nat /\ all \in Nat /\ rem \in Nat
    /\ got \in Nat /\ left \in Nat /\ s \in Nat /\ j \in Nat
    /\ now + s = old + j
    /\ old + all + (rem + j) = was + got + (left + s)

LEMMA Balanced ==
    ASSUME NEW now, NEW old, NEW was, NEW all, NEW rem, NEW got, NEW left, NEW s, NEW j,
           Balance(now, old, was, all, rem, got, left, s, j)
    PROVE  now + all + rem = was + got + left
BY DEF Balance

\* One item is moved: half of the deal is still done as agreed.
LEMMA MoveHalfway ==
    ASSUME SerialInv, IsFiniteSet(RowIds), NEW q \in Requests, NEW tbl, GoodTable(tbl), KeepsCards(tbl),
           NEW o \in Offer, NEW its, its = req[q].items, its # <<>>,
           o.proposer \in Users, o.recipient \in Users, o.proposer # o.recipient,
           req[q].proposer = o.proposer, req[q].recipient = o.recipient,
           req[q].stage \in {"settle", "settling"},
           CanGive(tbl, Head(its)), OfParties(its, o.proposer, o.recipient),
           Named(its, tbl), Halfway(o, its, tbl),
           Move(q, tbl, AsRead(tbl, Head(its).row))
    PROVE  /\ KeepsCards(draft') /\ OfParties(Tail(its), o.proposer, o.recipient)
           /\ Named(Tail(its), draft') /\ Halfway(o, Tail(its), draft')
<1>1. Inv /\ rows \in [RowIds -> Row] /\ tbl \in [RowIds -> Row] /\ its \in Seq(Item)
  BY DEF SerialInv, Inv, TypeOK, GoodTable, Request
<1>2. PICK it : it = Head(its) /\ it \in Item /\ it = its[1] /\ 1 \in DOMAIN its
  BY <1>1, TailIs
<1>3. PICK r : r = it.row
  OBVIOUS
<1>4. it.row # NoOne /\ tbl[it.row].owner = it.owner /\ it.qty <= tbl[it.row].qty
  BY <1>2 DEF CanGive
<1>5. /\ r \in RowIds /\ tbl[r].owner = it.owner /\ it.qty <= tbl[r].qty
      /\ it.qty \in Nat /\ it.owner \in Users /\ it.card \in Cards
  BY <1>2, <1>3, <1>4 DEF Item
<1>6. tbl[r].card = it.card
  BY <1>2, <1>3, <1>4, <1>5, NoOneAssumption DEF Named, Present
<1>7. PICK to : to = Receiver(q, it)
  OBVIOUS
<1>8. to = (IF it.side = "offered" THEN o.recipient ELSE o.proposer) /\ to \in Users
  BY <1>7 DEF Receiver
<1>9. PICK new : new = draft'
  OBVIOUS
<1>10. PICK rest : rest = Tail(its) /\ rest \in Seq(Item) /\ DOMAIN its = 1..Len(its)
         /\ \A i \in DOMAIN rest : i + 1 \in DOMAIN its /\ rest[i] = its[i + 1]
  BY <1>1, TailIs
<1>11. \A w \in Users, c \in Cards :
         Copies(new, w, c) + Just(it.qty, w, c, it.owner, it.card)
           = Copies(tbl, w, c) + Just(it.qty, w, c, to, it.card)
  <2>1. \A w \in Users, c \in Cards :
           Copies(draft', w, c) + Just(it.qty, w, c, tbl[r].owner, tbl[r].card)
             = Copies(tbl, w, c) + Just(it.qty, w, c, Receiver(q, it), tbl[r].card)
    BY <1>1, <1>2, <1>3, <1>5, <1>6, MoveConserves
  <2> QED  BY <1>5, <1>6, <1>7, <1>9, <2>1
<1>12. new \in [RowIds -> Row]
  BY <1>1, <1>2, <1>3, <1>5, <1>6, <1>9, MoveConserves
<1>13. ASSUME NEW w \in Users, NEW c \in Cards
       PROVE  Copies(new, w, c) + Gives(o.items, w, c) + Gets(rest, o.proposer, o.recipient, w, c)
                = Copies(rows, w, c) + Gets(o.items, o.proposer, o.recipient, w, c) + Gives(rest, w, c)
  <2>1. PICK s : s = Just(it.qty, w, c, it.owner, it.card) /\ s \in Nat /\ s = Share(it, w, c)
    BY <1>5 DEF Just, Share
  <2>2. PICK j : j = Just(it.qty, w, c, to, it.card) /\ j \in Nat
    BY <1>5 DEF Just
  <2>3. Copies(new, w, c) + s = Copies(tbl, w, c) + j
    BY <1>11, <2>1, <2>2
  <2>4. Gives(its, w, c) = Gives(rest, w, c) + s
    BY <1>1, <1>2, <1>10, <2>1, GivesTail
  <2>5. Gets(its, o.proposer, o.recipient, w, c) = Gets(rest, o.proposer, o.recipient, w, c) + j
    BY <1>1, <1>2, <1>8, <1>10, <2>2, GetsTail
  <2>6. Copies(tbl, w, c) + Gives(o.items, w, c) + Gets(its, o.proposer, o.recipient, w, c)
          = Copies(rows, w, c) + Gets(o.items, o.proposer, o.recipient, w, c) + Gives(its, w, c)
    BY DEF Halfway
  <2>7. Copies(new, w, c) \in Nat /\ Copies(tbl, w, c) \in Nat /\ Copies(rows, w, c) \in Nat
    BY <1>1, <1>12, CopiesAreShares
  <2>8. /\ Gives(o.items, w, c) \in Nat /\ Gives(its, w, c) \in Nat /\ Gives(rest, w, c) \in Nat
    BY <1>1, <1>10, OfferIs, GivesAreShares
  <2>9. /\ Gets(o.items, o.proposer, o.recipient, w, c) \in Nat
        /\ Gets(rest, o.proposer, o.recipient, w, c) \in Nat
    BY <1>10, OfferIs, GetsNat
  <2>10. Copies(tbl, w, c) + Gives(o.items, w, c) + (Gets(rest, o.proposer, o.recipient, w, c) + j)
           = Copies(rows, w, c) + Gets(o.items, o.proposer, o.recipient, w, c) + (Gives(rest, w, c) + s)
    BY <2>4, <2>5, <2>6
  <2>11. PICK now, old, was : /\ now = Copies(new, w, c) /\ old = Copies(tbl, w, c)
                              /\ was = Copies(rows, w, c)
    OBVIOUS
  <2>12. PICK all, left, got, rem :
            /\ all = Gives(o.items, w, c) /\ left = Gives(rest, w, c)
            /\ got = Gets(o.items, o.proposer, o.recipient, w, c)
            /\ rem = Gets(rest, o.proposer, o.recipient, w, c)
    OBVIOUS
  <2>13. /\ now \in Nat /\ old \in Nat /\ was \in Nat /\ all \in Nat /\ left \in Nat
         /\ got \in Nat /\ rem \in Nat /\ s \in Nat /\ j \in Nat
    BY <2>1, <2>2, <2>7, <2>8, <2>9, <2>11, <2>12
  <2>14. now + s = old + j /\ old + all + (rem + j) = was + got + (left + s)
    BY <2>3, <2>10, <2>11, <2>12
  <2>15. Balance(now, old, was, all, rem, got, left, s, j)
    BY <2>13, <2>14 DEF Balance
  <2>16. now + all + rem = was + got + left
    BY <2>15, Balanced
  <2> QED  BY <2>11, <2>12, <2>16
<1>14. ASSUME NEW x \in RowIds, Present(new, x)
       PROVE  \/ Present(tbl, x) /\ new[x].card = tbl[x].card
              \/ rows[x] = Gone /\ ~Remembered(x)
  <2>1. PICK src : src = AsRead(tbl, r)
    OBVIOUS
  <2>2. src \in Source /\ src.id = r /\ src.qty = tbl[r].qty /\ src.forTrade <= src.qty
        /\ src.card = it.card
    BY <1>1, <1>5, <1>6, <2>1, AsReadGood DEF GoodTable, Tradeable
  <2>3. new \in Given(Taken(tbl, src, it.qty), to, it.card, it.qty)
    BY <1>2, <1>3, <1>7, <1>9, <2>1, <2>2 DEF Move
  <2> QED  BY <1>1, <1>5, <1>8, <1>14, <2>2, <2>3, MoveKeeps
<1>15. KeepsCards(new)
  BY <1>14, GoneIsRow DEF KeepsCards, Present
<1>16. OfParties(rest, o.proposer, o.recipient)
  BY <1>10 DEF OfParties
<1>17. Named(rest, new)
  <2> SUFFICES ASSUME NEW i \in DOMAIN rest, rest[i].row # NoOne, Present(new, rest[i].row)
               PROVE  new[rest[i].row].card = rest[i].card
    BY DEF Named
  <2>1. rest[i] = its[i + 1] /\ i + 1 \in DOMAIN its /\ rest[i].row \in RowIds
    BY <1>10, ItemIs
  <2>2. Remembered(rest[i].row)
    BY <2>1 DEF Remembered
  <2>3. Present(tbl, rest[i].row) /\ new[rest[i].row].card = tbl[rest[i].row].card
    BY <1>14, <2>1, <2>2
  <2> QED  BY <2>1, <2>3 DEF Named
<1>18. Halfway(o, rest, new)
  BY <1>13 DEF Halfway
<1> QED  BY <1>9, <1>10, <1>15, <1>16, <1>17, <1>18

-----------------------------------------------------------------------------
(* The steps, one request at a time.                                        *)

\* A step after which no request is in progress.
LEMMA QuietStep ==
    ASSUME Inv', \A p \in Requests : req'[p] = Idle, OffersNamed', Apart'
    PROVE  SerialInv'
<1>1. Idle.stage = "idle"
  BY DEF Idle
<1>2. writer' = NoOne
  <2>1. \A p \in Requests : req'[p].stage # "settling"
    BY <1>1
  <2> QED  BY <2>1 DEF Inv, TypeOK
<1>3. draft' = NoDraft
  BY <1>2 DEF Inv
<1>4. KeepsCards(draft)'
  BY <1>3, GoneIsRow DEF KeepsCards, Present, NoDraft
<1>5. OnlyOne'
  BY DEF OnlyOne
<1>6. \A q \in Requests : AsRequested(req[q], offers, draft)'
  BY <1>1 DEF AsRequested
<1> QED  BY <1>4, <1>5, <1>6 DEF SerialInv

\* A step of the one request in progress, or of one that arrives.
LEMMA BusyStep ==
    ASSUME SerialInv, Inv', NEW q \in Requests, NEW r, req' = [req EXCEPT ![q] = r],
           req[q] # Idle \/ \A p \in Requests : req[p] = Idle,
           UNCHANGED <<rows, offers>>, KeepsCards(draft'), AsRequested(r, offers, draft')
    PROVE  SerialInv'
<1>1. req'[q] = r /\ \A p \in Requests \ {q} : req'[p] = Idle
  BY DEF SerialInv, Inv, TypeOK, OnlyOne
<1>2. OnlyOne'
  BY <1>1 DEF OnlyOne
<1>3. OffersNamed' /\ Apart' /\ KeepsCards(draft)'
  BY DEF SerialInv, OffersNamed, Named, Apart, KeepsCards, Present
<1>4. ASSUME NEW p \in Requests PROVE AsRequested(req[p], offers, draft)'
  <2>1. CASE p = q
    <3>1. AsRequested(req[p], offers, draft)' <=> AsRequested(r, offers, draft')
      BY <1>1, <2>1 DEF AsRequested, CanGive, AsRead, Halfway
    <3> QED  BY <3>1
  <2>2. CASE p # q
    <3>1. req'[p].stage = "idle"
      BY <1>1, <2>2 DEF Idle
    <3> QED  BY <3>1 DEF AsRequested
  <2> QED  BY <2>1, <2>2
<1> QED  BY <1>2, <1>3, <1>4 DEF SerialInv

LEMMA AloneEnds ==
    ASSUME SerialInv, NEW q \in Requests, req[q] # Idle, Finish(q)
    PROVE  \A p \in Requests : req'[p] = Idle
BY DEF SerialInv, Inv, TypeOK, OnlyOne, Finish

\* A request arrives when there is no other.
LEMMA ArriveSerial ==
    ASSUME SerialInv, Inv', Interleaved = FALSE, NEW q \in Requests, NEW r, Arrives(q, r),
           AsRequested(r, offers, draft)
    PROVE  SerialInv' /\ UNCHANGED <<rows, offers>>
<1>1. /\ req' = [req EXCEPT ![q] = r] /\ \A p \in Requests : req[p] = Idle
      /\ UNCHANGED <<rows, offers, draft>>
  BY DEF Arrives, MayArrive
<1>2. KeepsCards(draft') /\ AsRequested(r, offers, draft')
  BY <1>1 DEF SerialInv
<1> QED  BY <1>1, <1>2, BusyStep

LEMMA ArrivalSerial ==
    ASSUME SerialInv, Inv', Interleaved = FALSE, NEW q \in Requests, NEW t \in TradeIds,
           \/ CounterRead(q, t) \/ CancelRead(q, t) \/ CompleteRead(q, t)
           \/ RespondRead(q, t, "accepted") \/ RespondRead(q, t, "declined")
    PROVE  SerialInv' /\ UNCHANGED <<rows, offers>>
<1>1. CASE CounterRead(q, t)
  <2>1. PICK r : r = [Idle EXCEPT !.stage = "counter", !.trade = t,
                    !.proposer = offers[t].recipient, !.recipient = offers[t].proposer]
    OBVIOUS
  <2>2. /\ r.stage = "counter" /\ r.trade = t /\ r.proposer = offers[t].recipient
        /\ r.recipient = offers[t].proposer /\ offers[t].status = "pending" /\ Arrives(q, r)
    BY <1>1, <2>1 DEF CounterRead, Idle
  <2>3. AsRequested(r, offers, draft)
    BY <2>2 DEF AsRequested
  <2> QED  BY <2>2, <2>3, ArriveSerial
<1>2. CASE CompleteRead(q, t)
  <2>1. PICK r : r = [Idle EXCEPT !.stage = "items", !.trade = t,
                    !.proposer = offers[t].proposer, !.recipient = offers[t].recipient]
    OBVIOUS
  <2>2. /\ r.stage = "items" /\ r.trade = t /\ r.proposer = offers[t].proposer
        /\ r.recipient = offers[t].recipient /\ offers[t].status = "accepted" /\ Arrives(q, r)
    BY <1>2, <2>1 DEF CompleteRead, Idle
  <2>3. AsRequested(r, offers, draft)
    BY <2>2 DEF AsRequested
  <2> QED  BY <2>2, <2>3, ArriveSerial
<1>3. ASSUME NEW d \in {"accepted", "declined", "cancelled"}, offers[t].status = "pending",
             Arrives(q, [Idle EXCEPT !.stage = d, !.trade = t])
      PROVE  SerialInv' /\ UNCHANGED <<rows, offers>>
  <2>1. PICK r : r = [Idle EXCEPT !.stage = d, !.trade = t]
    OBVIOUS
  <2>2. r.stage = d /\ r.trade = t /\ Arrives(q, r)
    BY <1>3, <2>1 DEF Idle
  <2>3. AsRequested(r, offers, draft)
    BY <1>3, <2>2 DEF AsRequested
  <2> QED  BY <2>2, <2>3, ArriveSerial
<1> QED  BY <1>1, <1>2, <1>3 DEF CancelRead, RespondRead

LEMMA AddReadSerial ==
    ASSUME SerialInv, Inv', Interleaved = FALSE, NEW q \in Requests, NEW u \in Users,
           NEW c \in Cards, AddRead(q, u, c)
    PROVE  SerialInv' /\ UNCHANGED <<rows, offers>>
<1>1. PICK s : Arrives(q, [Idle EXCEPT !.stage = "add", !.src = s])
  BY DEF AddRead
<1>2. PICK r : r = [Idle EXCEPT !.stage = "add", !.src = s] /\ Arrives(q, r)
  BY <1>1
<1>3. r.stage = "add"
  BY <1>2 DEF Idle
<1>4. AsRequested(r, offers, draft)
  BY <1>3 DEF AsRequested
<1> QED  BY <1>2, <1>4, ArriveSerial

LEMMA FinishSerial ==
    ASSUME SerialInv, Inv', NEW q \in Requests, req[q] # Idle, Finish(q), UNCHANGED <<rows, offers>>
    PROVE  SerialInv'
<1>1. OffersNamed' /\ Apart'
  BY DEF SerialInv, OffersNamed, Named, Apart, Present
<1> QED  BY <1>1, AloneEnds, QuietStep

LEMMA NotIdle ==
    ASSUME NEW q \in Requests, req[q].stage # "idle" PROVE req[q] # Idle
BY DEF Idle

\* The trade that a request answers or settles.
LEMMA TradeIs ==
    ASSUME Inv, NEW q \in Requests, req[q].stage \in {"accepted", "declined", "cancelled", "counter"} \cup Settling
    PROVE  /\ req[q].trade \in TradeIds /\ offers[req[q].trade] \in Offer
           /\ offers[req[q].trade].status # "absent"
           /\ GoodOffer(offers[req[q].trade], rows)
<1>1. req[q] \in Request /\ GoodRequest(req[q], offers)
  BY DEF Inv, TypeOK
<1>2. req[q].trade \in TradeIds
  BY <1>1 DEF GoodRequest, Request
<1> QED  BY <1>1, <1>2, NoOneAssumption DEF GoodRequest, Inv, TypeOK

LEMMA ReadItemsSerial ==
    ASSUME SerialInv, Inv', NEW q \in Requests, ReadItems(q)
    PROVE  SerialInv' /\ UNCHANGED <<rows, offers>>
<1>1. PICK o : o = offers[req[q].trade]
  OBVIOUS
<1>2. PICK r : r = [req[q] EXCEPT !.stage = "source", !.items = o.items]
  OBVIOUS
<1>3. /\ req[q].stage = "items" /\ req' = [req EXCEPT ![q] = r]
      /\ UNCHANGED <<rows, offers, draft>> /\ req[q] \in Request
  BY <1>1, <1>2 DEF ReadItems, SerialInv, Inv, TypeOK
<1>4. /\ r.stage = "source" /\ r.items = o.items /\ r.trade = req[q].trade
      /\ r.proposer = req[q].proposer /\ r.recipient = req[q].recipient
  BY <1>2, <1>3 DEF Request
<1>5. AsRequested(req[q], offers, draft)
  BY DEF SerialInv
<1>6. AsRequested(r, offers, draft')
  BY <1>1, <1>3, <1>4, <1>5 DEF AsRequested
<1>7. KeepsCards(draft')
  BY <1>3 DEF SerialInv
<1> QED  BY <1>3, <1>6, <1>7, NotIdle, BusyStep

LEMMA ReadSourceSerial ==
    ASSUME SerialInv, Inv', NEW q \in Requests, ReadSource(q)
    PROVE  SerialInv' /\ UNCHANGED <<rows, offers>>
<1>1. PICK it : it = Head(req[q].items)
  OBVIOUS
<1>2. req[q].stage = "source" /\ UNCHANGED <<rows, offers, draft>> /\ req[q] \in Request
      /\ req[q] # Idle
  BY NotIdle DEF ReadSource, SerialInv, Inv, TypeOK
<1>3. CASE CanGive(rows, it)
  <2>1. PICK s : s = AsRead(rows, it.row)
    OBVIOUS
  <2>2. PICK r : r = [req[q] EXCEPT !.stage = "settle", !.src = s]
    OBVIOUS
  <2>3. req' = [req EXCEPT ![q] = r]
    BY <1>1, <1>3, <2>1, <2>2 DEF ReadSource
  <2>4. /\ r.stage = "settle" /\ r.items = req[q].items /\ r.trade = req[q].trade
        /\ r.proposer = req[q].proposer /\ r.recipient = req[q].recipient /\ r.src = s
    BY <1>2, <2>2 DEF Request
  <2>5. AsRequested(req[q], offers, draft) /\ KeepsCards(draft')
    BY <1>2 DEF SerialInv
  <2>6. AsRequested(r, offers, draft')
    BY <1>1, <1>2, <1>3, <2>1, <2>4, <2>5 DEF AsRequested
  <2> QED  BY <1>2, <2>3, <2>5, <2>6, BusyStep
<1>4. CASE ~CanGive(rows, it)
  <2>1. Finish(q)
    BY <1>1, <1>4 DEF ReadSource
  <2> QED  BY <1>2, <2>1, FinishSerial
<1> QED  BY <1>3, <1>4

\* One item is moved on a table that the request may work on.
LEMMA MoveSerial ==
    ASSUME SerialInv, Inv', IsFiniteSet(RowIds), NEW q \in Requests, NEW tbl, GoodTable(tbl),
           KeepsCards(tbl), req[q].stage \in {"settle", "settling"}, req[q].items # <<>>,
           CanGive(tbl, Head(req[q].items)),
           OfParties(req[q].items, offers[req[q].trade].proposer, offers[req[q].trade].recipient),
           Named(req[q].items, tbl), Halfway(offers[req[q].trade], req[q].items, tbl),
           Move(q, tbl, AsRead(tbl, Head(req[q].items).row)), UNCHANGED <<rows, offers>>
    PROVE  SerialInv'
<1>1. PICK o : o = offers[req[q].trade]
  OBVIOUS
<1>2. PICK its : its = req[q].items
  OBVIOUS
<1>3. PICK r : r = Moved(req[q])
  OBVIOUS
<1>4. Inv /\ req[q] \in Request /\ req[q] # Idle
  BY NotIdle DEF SerialInv, Inv, TypeOK
<1>5. /\ o \in Offer /\ o.status = "accepted" /\ GoodOffer(o, rows)
      /\ req[q].proposer = o.proposer /\ req[q].recipient = o.recipient
  <2>1. AsRequested(req[q], offers, draft)
    BY DEF SerialInv
  <2> QED  BY <1>1, <1>4, <2>1, TradeIs DEF AsRequested, Settling
<1>6. o.proposer \in Users /\ o.recipient \in Users /\ o.proposer # o.recipient
  <2>1. req[q].trade \in TradeIds
    BY <1>4, TradeIs DEF Settling
  <2> QED  BY <1>1, <1>5, <2>1 DEF GoodOffer, SerialInv, Apart
<1>7. /\ KeepsCards(draft') /\ OfParties(Tail(its), o.proposer, o.recipient)
      /\ Named(Tail(its), draft') /\ Halfway(o, Tail(its), draft')
  BY <1>1, <1>2, <1>5, <1>6, MoveHalfway
<1>8. /\ r.stage = "settling" /\ r.items = Tail(its) /\ r.trade = req[q].trade
      /\ r.proposer = req[q].proposer /\ r.recipient = req[q].recipient
      /\ req' = [req EXCEPT ![q] = r]
  BY <1>2, <1>3, <1>4 DEF Moved, Request, Move
<1>9. AsRequested(r, offers, draft')
  BY <1>1, <1>5, <1>7, <1>8 DEF AsRequested
<1> QED  BY <1>4, <1>7, <1>8, <1>9, BusyStep

LEMMA SettleFirstSerial ==
    ASSUME SerialInv, Inv', IsFiniteSet(RowIds), NEW q \in Requests, SettleFirst(q)
    PROVE  SerialInv' /\ UNCHANGED <<rows, offers>>
<1>1. PICK o : o = offers[req[q].trade]
  OBVIOUS
<1>2. PICK its : its = req[q].items
  OBVIOUS
<1>3. /\ req[q].stage = "settle" /\ Move(q, rows, req[q].src) /\ UNCHANGED <<rows, offers>>
      /\ Inv /\ GoodRequest(req[q], offers)
  BY DEF SettleFirst, SerialInv, Inv
<1>4. /\ its = o.items /\ CanGive(rows, Head(its)) /\ req[q].src = AsRead(rows, Head(its).row)
  <2>1. AsRequested(req[q], offers, draft)
    BY DEF SerialInv
  <2> QED  BY <1>1, <1>2, <1>3, <2>1 DEF AsRequested
<1>5. its # <<>>
  BY <1>2, <1>3 DEF GoodRequest
<1>6. GoodTable(rows) /\ KeepsCards(rows)
  BY <1>3 DEF GoodTable, Inv, TypeOK, KeepsOwners, KeepsCards
<1>7. o \in Offer /\ GoodOffer(o, rows) /\ req[q].trade \in TradeIds
  BY <1>1, <1>3, TradeIs DEF Settling
<1>8. OfParties(its, o.proposer, o.recipient) /\ Named(its, rows)
  BY <1>1, <1>4, <1>7 DEF GoodOffer, GoodItem, OfParties, SerialInv, OffersNamed
<1>9. Halfway(o, its, rows)
  <2> SUFFICES ASSUME NEW w \in Users, NEW c \in Cards
               PROVE  Copies(rows, w, c) + Gives(its, w, c) + Gets(its, o.proposer, o.recipient, w, c)
                        = Copies(rows, w, c) + Gets(its, o.proposer, o.recipient, w, c) + Gives(its, w, c)
    BY <1>4 DEF Halfway
  <2>1. PICK x : x = Copies(rows, w, c) /\ x \in Nat
    BY <1>3, CopiesAreShares DEF Inv, TypeOK
  <2>2. PICK y : y = Gives(its, w, c) /\ y \in Nat
    BY <1>4, <1>7, OfferIs, GivesAreShares
  <2>3. PICK z : z = Gets(its, o.proposer, o.recipient, w, c) /\ z \in Nat
    BY <1>4, <1>7, OfferIs, GetsNat
  <2>4. x + y + z = x + z + y
    BY <2>1, <2>2, <2>3
  <2> QED  BY <2>1, <2>2, <2>3, <2>4
<1>10. SerialInv'
  BY <1>1, <1>2, <1>3, <1>4, <1>5, <1>6, <1>8, <1>9, MoveSerial
<1> QED  BY <1>3, <1>10

LEMMA SettleNextSerial ==
    ASSUME SerialInv, Inv', IsFiniteSet(RowIds), NEW q \in Requests, SettleNext(q)
    PROVE  SerialInv' /\ UNCHANGED <<rows, offers>>
<1>1. /\ req[q].stage = "settling" /\ req[q].items # <<>> /\ CanGive(draft, Head(req[q].items))
      /\ Move(q, draft, AsRead(draft, Head(req[q].items).row)) /\ UNCHANGED <<rows, offers>>
      /\ KeepsCards(draft) /\ GoodTable(draft)
  BY DEF SettleNext, SerialInv, Inv, TypeOK, GoodTable
<1>2. AsRequested(req[q], offers, draft)
  BY DEF SerialInv
<1>3. SerialInv'
  BY <1>1, <1>2, MoveSerial DEF AsRequested
<1> QED  BY <1>1, <1>3

\* Rows that stay keep their cards: what is named in an offer stays named.
LEMMA NamedKept ==
    ASSUME SerialInv, UNCHANGED offers,
           \A x \in RowIds : Present(rows, x) /\ Present(rows', x) => rows'[x].card = rows[x].card
    PROVE  OffersNamed' /\ Apart'
<1>1. ASSUME NEW t \in TradeIds PROVE Named(offers[t].items, rows')
  <2> SUFFICES ASSUME NEW i \in DOMAIN offers[t].items, offers[t].items[i].row # NoOne,
                      Present(rows', offers[t].items[i].row)
               PROVE  rows'[offers[t].items[i].row].card = offers[t].items[i].card
    BY DEF Named
  <2>1. PICK it : it = offers[t].items[i]
    OBVIOUS
  <2>2. offers[t].items \in Seq(Item) /\ GoodItem(offers[t], it, rows)
    BY <2>1, OfferIs DEF SerialInv, Inv, TypeOK, GoodOffer
  <2>3. it.row \in RowIds /\ it.owner \in Users
    BY <2>1, <2>2, ItemIs
  <2>4. Present(rows, it.row)
    BY <2>1, <2>2, <2>3, NoOneAssumption DEF GoodItem, Present
  <2>5. rows[it.row].card = it.card
    BY <2>1, <2>4 DEF SerialInv, OffersNamed, Named
  <2> QED  BY <2>1, <2>3, <2>4, <2>5
<1> QED  BY <1>1 DEF SerialInv, OffersNamed, Apart

\* References to rows that have gone are cut, the others stay named.
LEMMA NamedUnlinked ==
    ASSUME SerialInv, NEW os \in [TradeIds -> Offer], NEW tbl,
           \A t \in TradeIds : GoodOffer(os[t], rows) /\ Named(os[t].items, rows),
           \A x \in RowIds : Present(rows, x) /\ Present(tbl, x) => tbl[x].card = rows[x].card,
           NEW t \in TradeIds
    PROVE  /\ Named(Unlinked(os, tbl)[t].items, tbl)
           /\ Unlinked(os, tbl)[t].status = os[t].status
           /\ Unlinked(os, tbl)[t].proposer = os[t].proposer
           /\ Unlinked(os, tbl)[t].recipient = os[t].recipient
<1>1. PICK its : its = os[t].items /\ its \in Seq(Item)
  BY OfferIs
<1>2. PICK jts : jts = [i \in DOMAIN its |-> IF its[i].row # NoOne /\ ~Present(tbl, its[i].row)
                                            THEN [its[i] EXCEPT !.row = NoOne] ELSE its[i]]
  OBVIOUS
<1>3. PICK p : p = Unlinked(os, tbl)[t]
  OBVIOUS
<1>4. p = [os[t] EXCEPT !.items = jts]
  BY <1>1, <1>2, <1>3 DEF Unlinked
<1>5. /\ p.status = os[t].status /\ p.proposer = os[t].proposer /\ p.recipient = os[t].recipient
      /\ p.items = jts
  BY <1>4 DEF Offer
<1>6. Named(jts, tbl)
  <2> SUFFICES ASSUME NEW i \in DOMAIN its, jts[i].row # NoOne, Present(tbl, jts[i].row)
               PROVE  tbl[jts[i].row].card = jts[i].card
    BY <1>2 DEF Named
  <2>1. its[i] \in Item /\ its[i].row \in RowIds \cup {NoOne} /\ its[i].owner \in Users
    BY <1>1, ItemIs
  <2>2. jts[i] = its[i] /\ its[i].row \in RowIds
    BY <1>2, <2>1 DEF Item
  <2>3. GoodItem(os[t], its[i], rows)
    BY <1>1 DEF GoodOffer
  <2>4. Present(rows, its[i].row)
    BY <2>1, <2>2, <2>3, NoOneAssumption DEF GoodItem, Present
  <2>5. rows[its[i].row].card = its[i].card
    BY <1>1, <2>2, <2>4 DEF Named
  <2> QED  BY <2>2, <2>4, <2>5
<1> QED  BY <1>3, <1>5, <1>6

LEMMA DeleteRowSerial ==
    ASSUME SerialInv, Inv', Interleaved = FALSE, IsFiniteSet(RowIds), NEW r \in RowIds, DeleteRow(r)
    PROVE  SerialInv' /\ \E u \in Users : Ledger!Manage(u)
<1>1. /\ Present(rows, r) /\ rows' = [rows EXCEPT ![r] = Gone] /\ offers' = Unlinked(offers, rows')
      /\ UNCHANGED req /\ \A p \in Requests : req[p] = Idle
  BY DEF DeleteRow, MayArrive
<1>2. /\ rows \in [RowIds -> Row] /\ rows' \in [RowIds -> Row] /\ offers \in [TradeIds -> Offer]
      /\ rows'[r] = Gone /\ \A s \in RowIds \ {r} : rows'[s] = rows[s]
  BY <1>1, GoneIsRow DEF SerialInv, Inv, TypeOK
<1>3. PICK tbl : tbl = rows'
  OBVIOUS
<1>4. \A t \in TradeIds : GoodOffer(offers[t], rows) /\ Named(offers[t].items, rows)
  BY DEF SerialInv, Inv, OffersNamed
<1>5. \A x \in RowIds : Present(rows, x) /\ Present(tbl, x) => tbl[x].card = rows[x].card
  BY <1>2, <1>3, GoneIsRow DEF Present
<1>6. \A t \in TradeIds : /\ Named(Unlinked(offers, tbl)[t].items, tbl)
                          /\ Unlinked(offers, tbl)[t].status = offers[t].status
                          /\ Unlinked(offers, tbl)[t].proposer = offers[t].proposer
                          /\ Unlinked(offers, tbl)[t].recipient = offers[t].recipient
  BY <1>2, <1>4, <1>5, NamedUnlinked
<1>7. OffersNamed' /\ Apart'
  BY <1>1, <1>3, <1>6 DEF OffersNamed, Apart, SerialInv
<1>8. SerialInv'
  BY <1>1, <1>7, QuietStep
<1>9. Deals(offers') = Deals(offers)
  BY <1>1, <1>2, DealsUnlinked
<1>10. rows[r].owner \in Users
  BY <1>1, <1>2, RowFields DEF Present
<1>11. Ledger!Manage(rows[r].owner)
  BY <1>2, <1>9, <1>10, GoneIsRow, LedgerManages
<1> QED  BY <1>8, <1>10, <1>11

LEMMA EditRowSerial ==
    ASSUME SerialInv, Inv', Interleaved = FALSE, Relabelling = FALSE, IsFiniteSet(RowIds),
           NEW r \in RowIds, NEW c \in Cards, NEW n, NEW m, EditRow(r, c, n, m)
    PROVE  SerialInv' /\ \E u \in Users : Ledger!Manage(u)
<1>1. PICK x : x = [Amounts(rows[r], n, m) EXCEPT !.card = c]
  OBVIOUS
<1>2. /\ Present(rows, r) /\ rows' = [rows EXCEPT ![r] = x] /\ c = rows[r].card
      /\ UNCHANGED <<offers, req>> /\ \A p \in Requests : req[p] = Idle
  BY <1>1 DEF EditRow, MayArrive
<1>3. /\ rows \in [RowIds -> Row] /\ rows' \in [RowIds -> Row]
      /\ rows'[r] = x /\ \A s \in RowIds \ {r} : rows'[s] = rows[s]
  BY <1>2 DEF SerialInv, Inv, TypeOK
<1>4. rows[r] \in [owner : Users, card : Cards, qty : Nat, forTrade : Nat] /\ rows[r].owner \in Users
  BY <1>2, <1>3, RowFields DEF Present
<1>5. x.owner = rows[r].owner /\ x.card = rows[r].card
  BY <1>1, <1>2, <1>4 DEF Amounts
<1>6. OffersNamed' /\ Apart'
  BY <1>2, <1>3, <1>5, NamedKept
<1>7. SerialInv'
  BY <1>2, <1>6, QuietStep
<1>8. Ledger!Manage(rows[r].owner)
  BY <1>2, <1>3, <1>4, <1>5, LedgerManages
<1> QED  BY <1>4, <1>7, <1>8

LEMMA AddWriteSerial ==
    ASSUME SerialInv, Inv', IsFiniteSet(RowIds), NEW q \in Requests, NEW n, NEW m, AddWrite(q, n, m)
    PROVE  SerialInv' /\ ((\E u \in Users : Ledger!Manage(u)) \/ UNCHANGED <<rows, offers>>)
<1>1. PICK s : s = req[q].src
  OBVIOUS
<1>2. /\ req[q].stage = "add" /\ Finish(q) /\ UNCHANGED offers /\ req[q] # Idle
      /\ req[q] \in Request /\ s \in Source /\ s.owner \in Users /\ s.card \in Cards
      /\ rows \in [RowIds -> Row] /\ rows' \in [RowIds -> Row]
  BY <1>1, NotIdle DEF AddWrite, SerialInv, Inv, TypeOK, GoodRequest, Request
<1>3. \A p \in Requests : req'[p] = Idle
  BY <1>2, AloneEnds
<1>4. CASE s.id = NoOne
  <2>1. PICK x : x = [owner |-> s.owner, card |-> s.card, qty |-> n, forTrade |-> m]
    OBVIOUS
  <2>2. PICK r \in NewId(rows) : rows' = [rows EXCEPT ![r] = x]
    BY <1>1, <1>4, <2>1 DEF AddWrite
  <2>3. /\ r \in RowIds /\ rows[r] = Gone /\ rows'[r] = x /\ x.owner = s.owner
        /\ \A y \in RowIds \ {r} : rows'[y] = rows[y]
    BY <1>2, <2>1, <2>2 DEF NewId, Free
  <2>4. OffersNamed' /\ Apart'
    BY <1>2, <2>3, GoneIsRow, NamedKept DEF Present
  <2>5. Ledger!Manage(s.owner)
    BY <1>2, <2>3, GoneIsRow, LedgerManages
  <2> QED  BY <1>2, <1>3, <2>4, <2>5, QuietStep
<1>5. CASE s.id # NoOne /\ ~Present(rows, s.id)
  <2>1. UNCHANGED rows
    BY <1>1, <1>5 DEF AddWrite
  <2>2. OffersNamed' /\ Apart'
    BY <1>2, <2>1, NamedKept
  <2> QED  BY <1>2, <1>3, <2>1, <2>2, QuietStep
<1>6. CASE s.id # NoOne /\ Present(rows, s.id)
  <2>1. PICK total : total = Least(MaxQuantity, s.qty + n)
    OBVIOUS
  <2>2. PICK x : x = Amounts(rows[s.id], total, Least(s.forTrade + m, total))
    OBVIOUS
  <2>3. rows' = [rows EXCEPT ![s.id] = x] /\ s.id \in RowIds
    BY <1>1, <1>2, <1>6, <2>1, <2>2 DEF AddWrite, Source
  <2>4. /\ rows[s.id] \in [owner : Users, card : Cards, qty : Nat, forTrade : Nat]
        /\ rows[s.id].owner \in Users
    BY <1>2, <1>6, <2>3, RowFields DEF Present
  <2>5. x.owner = rows[s.id].owner /\ x.card = rows[s.id].card
    BY <2>2, <2>4 DEF Amounts
  <2>6. rows'[s.id] = x /\ \A y \in RowIds \ {s.id} : rows'[y] = rows[y]
    BY <1>2, <2>3
  <2>7. OffersNamed' /\ Apart'
    BY <1>2, <2>3, <2>5, <2>6, NamedKept
  <2>8. Ledger!Manage(rows[s.id].owner)
    BY <1>2, <2>3, <2>4, <2>5, <2>6, LedgerManages
  <2> QED  BY <1>3, <2>4, <2>7, <2>8, QuietStep
<1> QED  BY <1>4, <1>5, <1>6

LEMMA SetStatusSerial ==
    ASSUME SerialInv, Inv', NEW q \in Requests, NEW s \in {"accepted", "declined", "cancelled"},
           SetStatus(q, s)
    PROVE  SerialInv' /\ \E t \in TradeIds : Ledger!Close(t)
<1>1. PICK t : t = req[q].trade
  OBVIOUS
<1>2. PICK o : o = [offers[t] EXCEPT !.status = s]
  OBVIOUS
<1>3. /\ req[q].stage = s /\ Finish(q) /\ UNCHANGED rows
      /\ offers' = [offers EXCEPT ![t].status = s] /\ req[q] # Idle
  BY <1>1, NotIdle DEF SetStatus
<1>4. t \in TradeIds /\ offers[t] \in Offer
  BY <1>1, <1>3, TradeIs DEF SerialInv
<1>5. offers[t].status = "pending"
  <2>1. AsRequested(req[q], offers, draft)
    BY DEF SerialInv
  <2> QED  BY <1>1, <1>3, <2>1 DEF AsRequested
<1>6. o.items = offers[t].items /\ o.proposer = offers[t].proposer /\ o.recipient = offers[t].recipient
  BY <1>2, <1>4 DEF Offer
<1>7. offers \in [TradeIds -> Offer]
  BY DEF SerialInv, Inv, TypeOK
<1>8. offers' = [offers EXCEPT ![t] = o]
  BY <1>2, <1>3
<1>9. \A x \in TradeIds : /\ offers'[x].items = offers[x].items
                          /\ offers'[x].proposer = offers[x].proposer
                          /\ offers'[x].recipient = offers[x].recipient
                          /\ offers'[x].status # "absent" => offers[x].status # "absent"
  BY <1>5, <1>6, <1>7, <1>8
<1>10. OffersNamed' /\ Apart'
  BY <1>3, <1>9 DEF SerialInv, OffersNamed, Named, Apart, Present
<1>11. SerialInv'
  BY <1>3, <1>10, AloneEnds, QuietStep
<1>12. Ledger!Close(t)
  BY <1>3, <1>4, <1>5, <1>7, LedgerCloses
<1> QED  BY <1>4, <1>11, <1>12

\* An offer of u to v, new or in place of one of v to u.
LEMMA OfferSerial ==
    ASSUME SerialInv, Inv', NEW t \in TradeIds, NEW u \in Users, NEW v \in Users, u # v,
           NEW its \in Terms(u, v), offers' = [offers EXCEPT ![t] = Pending(u, v, its)],
           UNCHANGED rows, \A p \in Requests : req'[p] = Idle,
           \/ offers[t].status = "absent"
           \/ offers[t].status = "pending" /\ offers[t].recipient = u /\ offers[t].proposer = v
    PROVE  SerialInv' /\ (Ledger!Propose(t) \/ Ledger!Counter(t))
<1>1. offers \in [TradeIds -> Offer] /\ rows \in [RowIds -> Row]
  BY DEF SerialInv, Inv, TypeOK
<1>2. /\ its \in Seq(Item)
      /\ \A i \in DOMAIN its : /\ its[i].owner \in {u, v}
                               /\ rows[its[i].row].card = its[i].card
  BY <1>1, TermsGood
<1>3. PICK o : o = Pending(u, v, its)
  OBVIOUS
<1>4. o.items = its /\ o.proposer = u /\ o.recipient = v
  BY <1>3 DEF Pending
<1>5. offers'[t] = o /\ \A x \in TradeIds \ {t} : offers'[x] = offers[x]
  BY <1>1, <1>3
<1>6. Named(its, rows')
  BY <1>2 DEF Named
<1>7. OffersNamed'
  <2>1. \A x \in TradeIds : Named(offers'[x].items, rows')
    BY <1>4, <1>5, <1>6 DEF SerialInv, OffersNamed
  <2> QED  BY <2>1 DEF OffersNamed
<1>8. Apart'
  BY <1>4, <1>5 DEF SerialInv, Apart
<1>9. SerialInv'
  BY <1>7, <1>8, QuietStep
<1>10. Ledger!Propose(t) \/ Ledger!Counter(t)
  BY <1>1, <1>2, LedgerOffers
<1> QED  BY <1>9, <1>10

LEMMA ProposeSerial ==
    ASSUME SerialInv, Inv', Interleaved = FALSE, NEW t \in TradeIds, NEW u \in Users, NEW v \in Users,
           Propose(t, u, v)
    PROVE  SerialInv' /\ (Ledger!Propose(t) \/ Ledger!Counter(t))
<1>1. /\ u # v /\ offers[t].status = "absent" /\ UNCHANGED <<rows, req>>
      /\ \A p \in Requests : req[p] = Idle
  BY DEF Propose, MayArrive
<1>2. PICK its \in Terms(u, v) : offers' = [offers EXCEPT ![t] = Pending(u, v, its)]
  BY DEF Propose
<1> QED  BY <1>1, <1>2, OfferSerial

LEMMA CounterWriteSerial ==
    ASSUME SerialInv, Inv', NEW q \in Requests, CounterWrite(q)
    PROVE  SerialInv' /\ \E t \in TradeIds : Ledger!Propose(t) \/ Ledger!Counter(t)
<1>1. PICK t, u, v : t = req[q].trade /\ u = req[q].proposer /\ v = req[q].recipient
  OBVIOUS
<1>2. req[q].stage = "counter" /\ Finish(q) /\ UNCHANGED rows /\ req[q] # Idle
  BY NotIdle DEF CounterWrite
<1>3. PICK its \in Terms(u, v) : offers' = [offers EXCEPT ![t] = Pending(u, v, its)]
  BY <1>1 DEF CounterWrite
<1>4. t \in TradeIds
  BY <1>1, <1>2, TradeIs DEF SerialInv
<1>5. u \in Users /\ v \in Users
  BY <1>1, <1>2 DEF SerialInv, Inv, GoodRequest
<1>6. offers[t].status = "pending" /\ u = offers[t].recipient /\ v = offers[t].proposer
  <2>1. AsRequested(req[q], offers, draft)
    BY DEF SerialInv
  <2> QED  BY <1>1, <1>2, <2>1 DEF AsRequested
<1>7. u # v
  BY <1>4, <1>6 DEF SerialInv, Apart
<1>8. SerialInv' /\ (Ledger!Propose(t) \/ Ledger!Counter(t))
  BY <1>2, <1>3, <1>4, <1>5, <1>6, <1>7, AloneEnds, OfferSerial
<1> QED  BY <1>4, <1>8

LEMMA RollbackSerial ==
    ASSUME SerialInv, Inv', NEW q \in Requests, req[q] # Idle, Rollback(q)
    PROVE  SerialInv' /\ UNCHANGED <<rows, offers>>
BY FinishSerial DEF Rollback

LEMMA Paid ==
    ASSUME NEW now \in Nat, NEW old \in Nat, NEW gives \in Nat, NEW gets \in Nat,
           now + gives + 0 = old + gets + 0
    PROVE  gives <= old + gets /\ now = (old + gets) - gives
OBVIOUS

\* All items have been moved: the ledger settles the deal.
LEMMA LedgerSettles ==
    ASSUME IsFiniteSet(RowIds), rows \in [RowIds -> Row], NEW tbl \in [RowIds -> Row], rows' = tbl,
           offers \in [TradeIds -> Offer], NEW t \in TradeIds, offers[t].status = "accepted",
           offers[t].proposer \in Users, offers[t].recipient \in Users,
           Halfway(offers[t], <<>>, tbl),
           Deals(offers') = Deals([offers EXCEPT ![t].status = "completed"])
    PROVE  Ledger!Settle(t)
<1>1. PICK o : o = offers[t] /\ o \in Offer
  OBVIOUS
<1>2. PICK d : d = Deals(offers)[t] /\ d = DealOf(o)
  BY <1>1, DealsIs
<1>3. /\ d.status = "accepted" /\ d.proposer = o.proposer /\ d.recipient = o.recipient
      /\ \A u \in Users, c \in Cards : d.gives[u][c] = Gives(o.items, u, c)
  BY <1>1, <1>2, DealIs
<1>4. PICK old, new : old = Held(rows) /\ new = Held(rows')
  OBVIOUS
<1>5. /\ \A u \in Users, c \in Cards : old[u][c] = Copies(rows, u, c) /\ old[u][c] \in Nat
      /\ \A u \in Users, c \in Cards : new[u][c] = Copies(tbl, u, c) /\ new[u][c] \in Nat
      /\ new \in [Users -> [Cards -> Nat]]
  <2>1. old \in Ledger!Amounts /\ new \in Ledger!Amounts
    BY <1>4, HeldIs
  <2>2. \A u \in Users, c \in Cards : old[u][c] = Copies(rows, u, c) /\ new[u][c] = Copies(tbl, u, c)
    BY <1>4, HeldIs
  <2> QED  BY <2>1, <2>2 DEF Ledger!Amounts
<1>6. ASSUME NEW u \in Users, NEW c \in Cards
      PROVE  /\ Ledger!Receives(t, u)[c] = Gets(o.items, o.proposer, o.recipient, u, c)
             /\ d.gives[u][c] <= old[u][c] + Ledger!Receives(t, u)[c]
             /\ new[u][c] = (old[u][c] + Ledger!Receives(t, u)[c]) - d.gives[u][c]
  <2>1. Ledger!Receives(t, u) = IF u = d.recipient THEN d.gives[d.proposer]
                                ELSE IF u = d.proposer THEN d.gives[d.recipient]
                                ELSE [x \in Cards |-> 0]
    BY <1>2 DEF Ledger!Receives
  <2>2. Ledger!Receives(t, u)[c] = Gets(o.items, o.proposer, o.recipient, u, c)
    <3>1. CASE u = o.recipient
      BY <1>1, <1>3, <2>1, <3>1 DEF Gets
    <3>2. CASE u # o.recipient /\ u = o.proposer
      BY <1>1, <1>3, <2>1, <3>2 DEF Gets
    <3>3. CASE u # o.recipient /\ u # o.proposer
      BY <1>3, <2>1, <3>3 DEF Gets
    <3> QED  BY <3>1, <3>2, <3>3
  <2>3. PICK gets : gets = Gets(o.items, o.proposer, o.recipient, u, c) /\ gets \in Nat
    BY <1>1, OfferIs, GetsNat
  <2>4. PICK gives : gives = Gives(o.items, u, c) /\ gives \in Nat
    BY <1>1, OfferIs, GivesAreShares
  <2>5. Gets(<<>>, o.proposer, o.recipient, u, c) = 0 /\ Gives(<<>>, u, c) = 0
    BY GivesEmpty DEF Gets
  <2>6. new[u][c] + gives + 0 = old[u][c] + gets + 0
    BY <1>1, <1>5, <2>3, <2>4, <2>5 DEF Halfway
  <2>7. gives <= old[u][c] + gets /\ new[u][c] = (old[u][c] + gets) - gives
    BY <1>5, <2>3, <2>4, <2>6, Paid
  <2> QED  BY <1>3, <2>2, <2>3, <2>4, <2>7
<1>7. new = [u \in Users |-> [c \in Cards |->
                  (old[u][c] + Ledger!Receives(t, u)[c]) - d.gives[u][c]]]
  <2>1. \A u \in Users : new[u] = [c \in Cards |->
                  (old[u][c] + Ledger!Receives(t, u)[c]) - d.gives[u][c]]
    BY <1>5, <1>6
  <2> QED  BY <1>5, <2>1
<1>8. Deals(offers') = [Deals(offers) EXCEPT ![t].status = "completed"]
  <2>1. PICK p : p = [o EXCEPT !.status = "completed"]
    OBVIOUS
  <2>2. [offers EXCEPT ![t].status = "completed"] = [offers EXCEPT ![t] = p]
    BY <1>1, <2>1
  <2>3. Deals([offers EXCEPT ![t] = p]) = [Deals(offers) EXCEPT ![t] = DealOf(p)]
    BY DealsExcept
  <2>4. DealOf(p) = [d EXCEPT !.status = "completed"]
    BY <1>1, <1>2, <2>1, DealStatus
  <2> QED  BY <1>2, <2>2, <2>3, <2>4
<1> QED  BY <1>2, <1>3, <1>4, <1>6, <1>7, <1>8 DEF Ledger!Settle

LEMMA CommitSerial ==
    ASSUME SerialInv, Inv', IsFiniteSet(RowIds), NEW q \in Requests, Commit(q)
    PROVE  SerialInv' /\ \E t \in TradeIds : Ledger!Settle(t)
<1>1. PICK t : t = req[q].trade
  OBVIOUS
<1>2. PICK o : o = offers[t]
  OBVIOUS
<1>3. PICK tbl : tbl = draft
  OBVIOUS
<1>4. PICK p : p = [o EXCEPT !.status = "completed"]
  OBVIOUS
<1>5. PICK os : os = [offers EXCEPT ![t] = p]
  OBVIOUS
<1>6. /\ req[q].stage = "settling" /\ req[q].items = <<>> /\ Finish(q) /\ req[q] # Idle
      /\ rows' = tbl /\ offers' = Unlinked(os, tbl)
  <2>1. [offers EXCEPT ![t].status = "completed"] = os
    BY <1>2, <1>4, <1>5
  <2> QED  BY <1>1, <1>3, <2>1, NotIdle DEF Commit
<1>7. /\ Inv /\ rows \in [RowIds -> Row] /\ tbl \in [RowIds -> Row]
      /\ offers \in [TradeIds -> Offer]
  BY <1>3 DEF SerialInv, Inv, TypeOK
<1>8. t \in TradeIds /\ o \in Offer /\ GoodOffer(o, rows)
  BY <1>1, <1>2, <1>6, <1>7, TradeIs DEF Settling
<1>9. o.status = "accepted" /\ Halfway(o, <<>>, tbl)
  <2>1. AsRequested(req[q], offers, draft)
    BY DEF SerialInv
  <2> QED  BY <1>1, <1>2, <1>3, <1>6, <2>1 DEF AsRequested
<1>10. o.proposer \in Users /\ o.recipient \in Users
  BY <1>8, <1>9 DEF GoodOffer
<1>11. /\ p \in Offer /\ p.items = o.items /\ p.proposer = o.proposer
       /\ p.recipient = o.recipient /\ p.status = "completed"
  BY <1>4, <1>8 DEF Offer
<1>12. os \in [TradeIds -> Offer]
  BY <1>5, <1>7, <1>11
<1>13. \A x \in TradeIds : /\ os[x].items = offers[x].items /\ os[x].proposer = offers[x].proposer
                           /\ os[x].recipient = offers[x].recipient
                           /\ os[x].status # "absent" => offers[x].status # "absent"
  BY <1>2, <1>5, <1>7, <1>9, <1>11
<1>14. ASSUME NEW x \in TradeIds PROVE GoodOffer(os[x], rows) /\ Named(os[x].items, rows)
  <2>1. GoodOffer(os[x], rows)
    <3>1. CASE x = t
      BY <1>5, <1>7, <1>8, <1>9, <1>10, <1>11, <3>1 DEF GoodOffer, GoodItem
    <3>2. CASE x # t
      BY <1>5, <1>7, <3>2 DEF Inv
    <3> QED  BY <3>1, <3>2
  <2>2. Named(os[x].items, rows)
    BY <1>13 DEF SerialInv, OffersNamed
  <2> QED  BY <2>1, <2>2
<1>15. \A x \in RowIds : Present(rows, x) /\ Present(tbl, x) => tbl[x].card = rows[x].card
  BY <1>3 DEF SerialInv, KeepsCards
<1>16. \A x \in TradeIds : /\ Named(Unlinked(os, tbl)[x].items, tbl)
                           /\ Unlinked(os, tbl)[x].status = os[x].status
                           /\ Unlinked(os, tbl)[x].proposer = os[x].proposer
                           /\ Unlinked(os, tbl)[x].recipient = os[x].recipient
  BY <1>7, <1>12, <1>14, <1>15, NamedUnlinked
<1>17. OffersNamed'
  BY <1>6, <1>16 DEF OffersNamed
<1>18. Apart'
  BY <1>6, <1>13, <1>16 DEF Apart, SerialInv
<1>19. SerialInv'
  BY <1>6, <1>17, <1>18, AloneEnds, QuietStep
<1>20. Deals(offers') = Deals([offers EXCEPT ![t].status = "completed"])
  <2>1. Deals(Unlinked(os, tbl)) = Deals(os)
    BY <1>12, DealsUnlinked
  <2>2. os = [offers EXCEPT ![t].status = "completed"]
    BY <1>2, <1>4, <1>5
  <2> QED  BY <1>6, <2>1, <2>2
<1>21. Ledger!Settle(t)
  BY <1>2, <1>6, <1>7, <1>8, <1>9, <1>10, <1>20, LedgerSettles
<1> QED  BY <1>8, <1>19, <1>21

-----------------------------------------------------------------------------
LEMMA InitSerial == ASSUME IsFiniteSet(RowIds), Init PROVE SerialInv /\ Ledger!Init
<1>1. Inv
  BY InitGood
<1>2. \A q \in Requests : req[q] = Idle
  BY DEF Init
<1>3. NoOffer.items = <<>> /\ NoOffer.status = "absent" /\ Idle.stage = "idle" /\ NoOffer \in Offer
  BY DEF NoOffer, Idle, Offer
<1>4. OnlyOne /\ OffersNamed /\ Apart
  BY <1>2, <1>3 DEF Init, OnlyOne, OffersNamed, Named, Apart
<1>5. KeepsCards(draft)
  BY GoneIsRow DEF Init, KeepsCards, NoDraft, Present
<1>6. \A q \in Requests : AsRequested(req[q], offers, draft)
  BY <1>2, <1>3 DEF AsRequested
<1>7. Held(rows) \in Ledger!Amounts
  BY <1>1, HeldIs DEF Inv, TypeOK
<1>8. \A t \in TradeIds : Deals(offers)[t].status = "absent"
  BY <1>1, <1>3, DealsIs, DealIs DEF Init
<1> QED  BY <1>1, <1>4, <1>5, <1>6, <1>7, <1>8 DEF SerialInv, Ledger!Init

LEMMA NextSerial ==
    ASSUME SerialInv, Interleaved = FALSE, Relabelling = FALSE, IsFiniteSet(RowIds), [Next]_vars
    PROVE  SerialInv' /\ [Ledger!Next]_(Ledger!vars)
<1>1. Inv'
  BY NextGood DEF SerialInv
<1>2. CASE UNCHANGED vars
  <2>1. UNCHANGED <<rows, offers, req, draft>>
    BY <1>2 DEF vars
  <2>2. OnlyOne'
    BY <2>1 DEF SerialInv, OnlyOne
  <2>3. OffersNamed'
    BY <2>1 DEF SerialInv, OffersNamed, Named, Present
  <2>4. Apart'
    BY <2>1 DEF SerialInv, Apart
  <2>5. KeepsCards(draft)'
    BY <2>1 DEF SerialInv, KeepsCards, Present
  <2>6. ASSUME NEW q \in Requests PROVE AsRequested(req[q], offers, draft)'
    <3>1. PICK r : r = req[q]
      OBVIOUS
    <3>2. AsRequested(r, offers, draft)
      BY <3>1 DEF SerialInv
    <3>3. AsRequested(r, offers', draft')
      BY <2>1, <3>2
    <3>4. AsRequested(req[q], offers, draft)' <=> AsRequested(r, offers', draft')
      BY <2>1, <3>1 DEF AsRequested, CanGive, AsRead, Halfway
    <3> QED  BY <3>3, <3>4
  <2>7. SerialInv'
    BY <1>1, <2>2, <2>3, <2>4, <2>5, <2>6 DEF SerialInv
  <2> QED  BY <2>1, <2>7, LedgerStays
<1>3. ASSUME NEW t \in TradeIds, NEW u \in Users, NEW v \in Users, Propose(t, u, v)
      PROVE  SerialInv' /\ Ledger!Next
  BY <1>1, <1>3, ProposeSerial DEF Ledger!Next
<1>4. ASSUME NEW q \in Requests, NEW t \in TradeIds,
             \/ CounterRead(q, t) \/ CancelRead(q, t) \/ CompleteRead(q, t)
             \/ \E d \in {"accepted", "declined"} : RespondRead(q, t, d)
      PROVE  SerialInv' /\ UNCHANGED <<rows, offers>>
  BY <1>1, <1>4, ArrivalSerial
<1>5. ASSUME NEW q \in Requests, CounterWrite(q)
      PROVE  SerialInv' /\ Ledger!Next
  BY <1>1, <1>5, CounterWriteSerial DEF Ledger!Next
<1>6. ASSUME NEW q \in Requests, RespondWrite(q) \/ CancelWrite(q)
      PROVE  SerialInv' /\ Ledger!Next
  BY <1>1, <1>6, SetStatusSerial DEF Ledger!Next, RespondWrite, CancelWrite
<1>7. ASSUME NEW q \in Requests, Settle(q)
      PROVE  SerialInv' /\ (Ledger!Next \/ UNCHANGED <<rows, offers>>)
  <2>1. CASE ReadItems(q)
    BY <1>1, <2>1, ReadItemsSerial
  <2>2. CASE ReadSource(q)
    BY <1>1, <2>2, ReadSourceSerial
  <2>3. CASE SettleFirst(q)
    BY <1>1, <2>3, SettleFirstSerial
  <2>4. CASE SettleNext(q)
    BY <1>1, <2>4, SettleNextSerial
  <2>5. CASE SettleFails(q)
    BY <1>1, <2>5, NotIdle, RollbackSerial DEF SettleFails
  <2>6. CASE Commit(q)
    BY <1>1, <2>6, CommitSerial DEF Ledger!Next
  <2> QED  BY <1>7, <2>1, <2>2, <2>3, <2>4, <2>5, <2>6 DEF Settle
<1>8. ASSUME NEW q \in Requests, Abandon(q)
      PROVE  SerialInv' /\ UNCHANGED <<rows, offers>>
  BY <1>1, <1>8, RollbackSerial DEF Abandon
<1>9. ASSUME NEW r \in RowIds, DeleteRow(r)
      PROVE  SerialInv' /\ Ledger!Next
  BY <1>1, <1>9, DeleteRowSerial DEF Ledger!Next
<1>10. ASSUME NEW r \in RowIds, NEW c \in Cards, NEW n, NEW m, EditRow(r, c, n, m)
       PROVE  SerialInv' /\ Ledger!Next
  BY <1>1, <1>10, EditRowSerial DEF Ledger!Next
<1>11. ASSUME NEW q \in Requests, NEW u \in Users, NEW c \in Cards, AddRead(q, u, c)
       PROVE  SerialInv' /\ UNCHANGED <<rows, offers>>
  BY <1>1, <1>11, AddReadSerial
<1>12. ASSUME NEW q \in Requests, NEW n, NEW m, AddWrite(q, n, m)
       PROVE  SerialInv' /\ (Ledger!Next \/ UNCHANGED <<rows, offers>>)
  BY <1>1, <1>12, AddWriteSerial DEF Ledger!Next
<1>13. SerialInv' /\ (Ledger!Next \/ UNCHANGED <<rows, offers>>)
  BY <1>2, <1>3, <1>4, <1>5, <1>6, <1>7, <1>8, <1>9, <1>10, <1>11, <1>12 DEF Next, vars
<1> QED  BY <1>13, LedgerStays

\* One request at a time, and while nobody turns a row into another card, the
\* rows, offers and settlements of trade_service.py are an implementation of
\* the ledger: a trade is offered, countered and closed only from pending by
\* its parties, and settled from accepted, once, completely, for the amounts
\* that its items name, whatever requests fail or are abandoned on the way.
THEOREM ImplementsLedgerCorrect ==
    ASSUME Interleaved = FALSE, Relabelling = FALSE, IsFiniteSet(RowIds)
    PROVE  Spec => ImplementsLedger
<1>1. Init => SerialInv /\ Ledger!Init
  BY InitSerial
<1>2. SerialInv /\ [Next]_vars => [Ledger!Next]_(Ledger!vars)
  BY NextSerial
<1>3. SerialInv /\ [Next]_vars => SerialInv'
  BY NextSerial
<1> QED  BY <1>1, <1>2, <1>3, PTL DEF Spec, ImplementsLedger, Ledger!Spec
=============================================================================
