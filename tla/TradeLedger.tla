---------------------------- MODULE TradeLedger ----------------------------
(***************************************************************************)
(* What trading promises its members, without rows, requests or            *)
(* transactions: a member holds copies of cards; a deal names what each    *)
(* party gives; an accepted deal is settled at most once, all of it at     *)
(* once, and nothing is made or lost.                                      *)
(***************************************************************************)
EXTENDS Naturals

CONSTANTS Users, Cards, TradeIds, NoOne

VARIABLES
    held,     \* held[u][c]: copies of c that u owns
    deals     \* status, parties and what each user gives

vars == <<held, deals>>

Amounts == [Users -> [Cards -> Nat]]
Deal == [status : {"absent", "pending", "accepted", "declined", "cancelled", "completed"},
         proposer : Users \cup {NoOne}, recipient : Users \cup {NoOne},
         gives : Amounts]

\* The deal involves two members and asks nothing of anybody else.
Between(d, u, v) ==
    /\ d \in Deal
    /\ d.status = "pending" /\ d.proposer = u /\ d.recipient = v /\ u # v
    /\ \A w \in Users \ {u, v} : \A c \in Cards : d.gives[w][c] = 0

Init ==
    /\ held \in Amounts
    /\ \A t \in TradeIds : deals[t].status = "absent"

Others(t) == \A s \in TradeIds \ {t} : deals'[s] = deals[s]

Propose(t) ==
    /\ deals[t].status = "absent"
    /\ \E u, v \in Users : Between(deals'[t], u, v)
    /\ Others(t)
    /\ UNCHANGED held

\* The recipient answers with an offer of their own.
Counter(t) ==
    /\ deals[t].status = "pending"
    /\ Between(deals'[t], deals[t].recipient, deals[t].proposer)
    /\ Others(t)
    /\ UNCHANGED held

Close(t) ==
    /\ deals[t].status = "pending"
    /\ \E s \in {"accepted", "declined", "cancelled"} :
          deals' = [deals EXCEPT ![t].status = s]
    /\ UNCHANGED held

\* What u receives: all that the other party gives.
Receives(t, u) ==
    IF u = deals[t].recipient THEN deals[t].gives[deals[t].proposer]
    ELSE IF u = deals[t].proposer THEN deals[t].gives[deals[t].recipient]
    ELSE [c \in Cards |-> 0]

\* A card that changes hands both ways may be the copy just received.
Settle(t) ==
    /\ deals[t].status = "accepted"
    /\ \A u \in Users, c \in Cards :
          deals[t].gives[u][c] <= held[u][c] + Receives(t, u)[c]
    /\ held' = [u \in Users |-> [c \in Cards |->
                  (held[u][c] + Receives(t, u)[c]) - deals[t].gives[u][c]]]
    /\ deals' = [deals EXCEPT ![t].status = "completed"]

\* A member changes what they own, and nobody else's.
Manage(u) ==
    /\ held'[u] \in [Cards -> Nat]
    /\ \A v \in Users \ {u} : held'[v] = held[v]
    /\ UNCHANGED deals

Next ==
    \/ \E t \in TradeIds : Propose(t) \/ Counter(t) \/ Close(t) \/ Settle(t)
    \/ \E u \in Users : Manage(u)

Spec == Init /\ [][Next]_vars
=============================================================================
