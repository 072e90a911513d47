------------------------------ MODULE MCTrades ------------------------------
(* Small instances of Trades for TLC. *)
EXTENDS TradesRefinement, FiniteSets, TLC

CONSTANTS alice, bob, ring, bolt

Listed(u, c, n, m) == [owner |-> u, card |-> c, qty |-> n, forTrade |-> m]

\* Alice lists both her rings, Bob one of his two bolts; the rest is free.
TwoRows == [r \in RowIds |-> CASE r = 1 -> Listed(alice, ring, 2, 2)
                               [] r = 2 -> Listed(bob, bolt, 2, 1)
                               [] OTHER -> Gone]

\* Bob holds a ring already, so that a traded ring is merged.
ThreeRows == [r \in RowIds |-> CASE r = 1 -> Listed(alice, ring, 2, 1)
                                 [] r = 2 -> Listed(bob, bolt, 1, 1)
                                 [] r = 3 -> Listed(bob, ring, 1, 0)
                                 [] OTHER -> Gone]

\* Beside one offer there is a second only if each is about one row, the first.
OffersSlice ==
    Cardinality({t \in TradeIds : offers[t] # NoOffer}) > 1 =>
        \A t \in TradeIds : /\ Len(offers[t].items) = 1
                            /\ Head(offers[t].items).row \in {1, NoOne}

Symmetry == Permutations(Requests) \cup Permutations(TradeIds)
=============================================================================
