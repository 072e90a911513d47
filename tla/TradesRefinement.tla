-------------------------- MODULE TradesRefinement --------------------------
(* Trades seen as the ledger of TradeLedger: rows are summed, items become *)
(* amounts, requests and drafts disappear.                                 *)
EXTENDS Trades, FiniteSetsExt

SumOver(f, S) == MapThenSumSet(LAMBDA x : f[x], S)
Copies(tbl, u, c) == SumOver([r \in RowIds |-> tbl[r].qty], Matches(tbl, u, c))
Total(tbl, c) == SumOver([u \in Users |-> Copies(tbl, u, c)], Users)

Held(tbl) == [u \in Users |-> [c \in Cards |-> Copies(tbl, u, c)]]

Gives(its, u, c) ==
    SumOver([i \in DOMAIN its |-> its[i].qty],
            {i \in DOMAIN its : its[i].owner = u /\ its[i].card = c})
DealOf(o) == [status |-> o.status, proposer |-> o.proposer, recipient |-> o.recipient,
              gives |-> [u \in Users |-> [c \in Cards |-> Gives(o.items, u, c)]]]
Deals(os) == [t \in TradeIds |-> DealOf(os[t])]

Ledger == INSTANCE TradeLedger WITH held <- Held(rows), deals <- Deals(offers)

\* One request at a time, trading keeps the ledger's promise: every commit is
\* a step of the ledger, so a trade is settled once, completely, between the
\* right parties and for what its items say, and only pending trades are
\* answered, cancelled or countered.
ImplementsLedger == Ledger!Spec

\* With requests interleaved, complete_trade still conserves every card in
\* each item it moves, unless the row it read before its transaction has been
\* changed by then: that read is the only way for cards to appear or vanish.
Unchanged(q) == AsRead(rows, req[q].src.id) = req[q].src
LossOnlyFromStaleRead ==
    [][\A q \in Requests : \A c \in Cards :
          /\ SettleFirst(q) /\ Unchanged(q) => Total(draft', c) = Total(rows, c)
          /\ SettleNext(q) => Total(draft', c) = Total(draft, c)]_vars

\* A settlement neither makes nor loses a card: it gives only what its owner
\* still holds (trade_service.py:1013, "no longer has enough quantity to
\* complete this trade.").
CardsConserved ==
    [][\A q \in Requests : Commit(q) =>
          \A c \in Cards : Total(rows', c) = Total(rows, c)]_vars

\* A settlement moves the cards the trade names, and fails when they are "no
\* longer in the owner's collection" (trade_service.py:1011).
SettledAsAgreed ==
    [][\A q \in Requests : Commit(q) => Ledger!Settle(req[q].trade)]_vars
=============================================================================
