----------------------------- MODULE RateLimits -----------------------------
(***************************************************************************)
(* The limiter of one bucket and one key (rate_limits.py): rows of a table *)
(* counted in an immediate transaction, and when the database answers with *)
(* an error a list in memory under a lock.  The time a call works with is  *)
(* read before it waits for the database or the lock, so that calls are    *)
(* decided in another order than their times.                              *)
(***************************************************************************)
EXTENDS Integers, FiniteSets

CONSTANTS
    Callers,     \* calls in progress
    Limit,       \* admissions in a window
    Window,      \* its length
    Retained,    \* age at which rows are deleted: at least twice the window
    Patience,    \* how long a call waits: the busy timeout
    Never,       \* no time
    MaxClock,    \* bound of the clock
    MaxCalls     \* bound: calls that are made

ASSUME RateAssumption ==
    /\ Limit \in Nat \ {0} /\ Window \in Nat \ {0}
    /\ Patience \in Nat /\ Retained \in Nat /\ Retained >= Window + Patience
    /\ Never \notin Nat /\ MaxClock \in Nat /\ MaxCalls \in Nat

VARIABLES
    clock,
    cpc,         \* each call: idle, waiting for the database, or for the lock
    asked,       \* each call: the time it read
    rows,        \* rate_limit_events
    memory,      \* _rate_limit_state
    passed,      \* history: the rows of the calls admitted through the table
    spared,      \* history: the calls admitted in memory since the last start
    slow,        \* history: a call was decided in memory on an old time
    calls        \* number of calls: each event has its own

rateVars == <<clock, cpc, asked, rows, memory, passed, spared, slow, calls>>

Event == [id : Nat, at : Nat]

RateTypeOK ==
    /\ clock \in Nat /\ calls \in Nat
    /\ cpc \in [Callers -> {"idle", "table", "memory"}]
    /\ asked \in [Callers -> Nat \cup {Never}]
    /\ rows \subseteq Event /\ memory \subseteq Event
    /\ passed \subseteq Event /\ spared \subseteq Event /\ slow \in BOOLEAN

RateInit ==
    /\ clock = 0 /\ calls = 0
    /\ cpc = [c \in Callers |-> "idle"] /\ asked = [c \in Callers |-> Never]
    /\ rows = {} /\ memory = {} /\ passed = {} /\ spared = {} /\ slow = FALSE

\* The events after the start of the window that ends at t; later ones count.
Since(events, t) == {e \in events : e.at > t - Window}

\* Nobody waits longer than the busy timeout.
Tick ==
    /\ clock < MaxClock
    /\ \A c \in Callers : cpc[c] # "idle" => clock < asked[c] + Patience
    /\ clock' = clock + 1
    /\ UNCHANGED <<cpc, asked, rows, memory, passed, spared, slow, calls>>

\* rate_limit_allowed.
Call(c) ==
    /\ cpc[c] = "idle" /\ calls < MaxCalls
    /\ cpc' = [cpc EXCEPT ![c] = "table"] /\ asked' = [asked EXCEPT ![c] = clock]
    /\ UNCHANGED <<clock, rows, memory, passed, spared, slow, calls>>

Answered(c) ==
    /\ cpc' = [cpc EXCEPT ![c] = "idle"] /\ asked' = [asked EXCEPT ![c] = Never]
    /\ calls' = calls + 1

\* Mutant: rows that may still be counted are deleted.
DecidePruning(c) ==
    LET t    == asked[c]
        mine == [id |-> calls, at |-> t]
        kept == Since(rows, clock) IN
    /\ cpc[c] = "table" /\ Answered(c)
    /\ IF Cardinality(Since(kept, t)) >= Limit
       THEN rows' = kept /\ UNCHANGED passed
       ELSE rows' = kept \cup {mine} /\ passed' = passed \cup {mine}
    /\ UNCHANGED <<clock, memory, spared, slow>>
\* _rate_limit_allowed_persistent: old rows go, the others are counted, the
\* call's own row is inserted.
DecideInTable(c) ==
    LET t    == asked[c]
        mine == [id |-> calls, at |-> t]
        kept == {e \in rows : e.at >= t - Retained} IN
    /\ cpc[c] = "table" /\ Answered(c)
    /\ IF Cardinality(Since(kept, t)) >= Limit
       THEN rows' = kept /\ UNCHANGED passed
       ELSE rows' = kept \cup {mine} /\ passed' = passed \cup {mine}
    /\ UNCHANGED <<clock, memory, spared, slow>>
\* sqlite3.Error, a busy database among them: the time is read again.
TableFails(c) ==
    /\ cpc[c] = "table"
    /\ cpc' = [cpc EXCEPT ![c] = "memory"] /\ asked' = [asked EXCEPT ![c] = clock]
    /\ UNCHANGED <<clock, rows, memory, passed, spared, slow, calls>>
\* _rate_limit_allowed_memory: what is not counted is forgotten.
DecideInMemory(c) ==
    LET t    == asked[c]
        mine == [id |-> calls, at |-> t]
        kept == Since(memory, t) IN
    /\ cpc[c] = "memory" /\ Answered(c)
    /\ IF Cardinality(kept) >= Limit
       THEN memory' = kept /\ UNCHANGED spared
       ELSE memory' = kept \cup {mine} /\ spared' = spared \cup {mine}
    /\ slow' = (slow \/ t < clock)
    /\ UNCHANGED <<clock, rows, passed>>
\* The server stops, and starts again with an empty list.
LimiterRestarts ==
    /\ cpc' = [c \in Callers |-> "idle"] /\ asked' = [c \in Callers |-> Never]
    /\ memory' = {} /\ spared' = {}
    /\ UNCHANGED <<clock, rows, passed, slow, calls>>

RateNext ==
    \/ Tick \/ LimiterRestarts
    \/ \E c \in Callers :
         Call(c) \/ DecideInTable(c) \/ TableFails(c) \/ DecideInMemory(c)

RateSpec == RateInit /\ [][RateNext]_rateVars

-----------------------------------------------------------------------------
\* Those of the events that lie in the window that ends at t.
Within(events, t) == {e \in Since(events, t) : e.at <= t}

\* No window, wherever it begins, holds more admissions by the table than the
\* limit, although calls write times older than rows already there and delete
\* rows that a slower call has yet to count; nor, between two starts of the
\* server, more admissions in memory, as long as no call waits for the lock
\* with an old time.
WindowRespected ==
    \A e \in passed \cup spared :
        /\ Cardinality(Within(passed, e.at)) <= Limit
        /\ ~slow => Cardinality(Within(spared, e.at)) <= Limit
=============================================================================
