------------------------------ MODULE Webhooks ------------------------------
(***************************************************************************)
(* The webhooks of one member (api.py).  An event queues a delivery for    *)
(* every endpoint that listens to it; passes of the background job call    *)
(* the endpoints one after the other and record all outcomes in one        *)
(* transaction, which begins with the first UPDATE and holds the write     *)
(* lock through the calls that follow.  A delivery is tried once; only what*)
(* a pass did not commit is tried again.                                   *)
(***************************************************************************)
EXTENDS Naturals, FiniteSets

CONSTANTS
    Hooks,         \* endpoints: numbers, in the order of creation
    Happenings,    \* event types
    Listens,       \* the types each endpoint is configured for
    Couriers,      \* passes that may run at once
    NoCourier,
    CallBatch,     \* WEBHOOK_DELIVERY_BATCH_SIZE
    MaxDeliveries, \* bound: deliveries ever queued
    MaxSpills      \* bound: passes that end before their commit

ASSUME WebhooksAssumption ==
    /\ Hooks \subseteq Nat \ {0} /\ IsFiniteSet(Hooks) /\ NoCourier \notin Couriers
    /\ Listens \in [Hooks -> SUBSET Happenings]
    /\ CallBatch \in Nat \ {0} /\ MaxDeliveries \in Nat /\ MaxSpills \in Nat

VARIABLES
    hooks,         \* webhook_endpoints: which are active, switched off, deleted
    allowed,       \* user_can_use_webhooks
    deliveries,    \* webhook_deliveries, by id; a row that is gone keeps its endpoint
    queued,        \* the newest id
    locker,        \* the pass that holds the database's write lock
    cpos,          \* each pass: idle, calling, or about to record a call
    round,         \* each pass: the deliveries it selected and has still to call
    noted,         \* each pass: what it recorded and has not committed
    calls,         \* history: the deliveries that went out, a set per endpoint
    astray,        \* history: went out when a later one, or the same, had
    redone,        \* history: two passes had these, or one did not commit
    spills

hookVars == <<hooks, allowed, deliveries, queued, locker, cpos, round, noted,
              calls, astray, redone, spills>>

DeliveryIds == 1..MaxDeliveries
Outcome  == [id : DeliveryIds, result : {"sent", "failed"}]
Delivery == [hook : Hooks \cup {0}, status : {"none", "pending", "sent", "failed"}]
NoDelivery == [hook |-> 0, status |-> "none"]

WebhooksTypeOK ==
    /\ hooks \in [Hooks -> {"none", "live", "off", "deleted"}] /\ allowed \in BOOLEAN
    /\ deliveries \in [DeliveryIds -> Delivery] /\ queued \in 0..MaxDeliveries
    /\ locker \in Couriers \cup {NoCourier}
    /\ cpos \in [Couriers -> {"idle", "call", "record"}]
    /\ round \in [Couriers -> SUBSET DeliveryIds] /\ noted \in [Couriers -> SUBSET Outcome]
    /\ calls \in [Hooks -> SUBSET DeliveryIds]
    /\ astray \subseteq DeliveryIds /\ redone \subseteq DeliveryIds /\ spills \in 0..MaxSpills

WebhooksInit ==
    /\ hooks = [k \in Hooks |-> "none"] /\ allowed = TRUE
    /\ deliveries = [d \in DeliveryIds |-> NoDelivery] /\ queued = 0
    /\ locker = NoCourier /\ cpos = [c \in Couriers |-> "idle"]
    /\ round = [c \in Couriers |-> {}] /\ noted = [c \in Couriers |-> {}]
    /\ calls = [k \in Hooks |-> {}] /\ astray = {} /\ redone = {} /\ spills = 0

-----------------------------------------------------------------------------
(* The member, the administrators and the services that notify.            *)

courierVars == <<cpos, round, noted>>
callHistory == <<calls, astray, redone, spills>>
Free == locker = NoCourier /\ UNCHANGED <<locker, courierVars, callHistory>>

CreateHook(k) ==
    /\ Free /\ allowed /\ hooks[k] = "none" /\ \A j \in Hooks : j < k => hooks[j] # "none"
    /\ hooks' = [hooks EXCEPT ![k] = "live"]
    /\ UNCHANGED <<allowed, deliveries, queued>>
\* ON DELETE CASCADE takes its deliveries along.
DeleteHook(k) ==
    /\ Free /\ hooks[k] \in {"live", "off"} /\ hooks' = [hooks EXCEPT ![k] = "deleted"]
    /\ deliveries' = [d \in DeliveryIds |->
                        IF deliveries[d].hook = k THEN [deliveries[d] EXCEPT !.status = "none"]
                        ELSE deliveries[d]]
    /\ UNCHANGED <<allowed, queued>>
\* Another role, another policy, the end of a ban, or the way back.
SetAccess ==
    /\ Free /\ allowed' = ~allowed /\ UNCHANGED <<hooks, deliveries, queued>>
\* revoke_user_access_for_moderation: a ban switches the endpoints off; nothing
\* switches them on again.
BanOwner ==
    /\ Free /\ allowed' = FALSE
    /\ hooks' = [k \in Hooks |-> IF hooks[k] = "live" THEN "off" ELSE hooks[k]]
    /\ UNCHANGED <<deliveries, queued>>
\* queue_user_webhook_event, in the transaction of the notification: one
\* delivery for each endpoint that listens, in the order of the endpoints.
QueueEvent(kind) ==
    LET targets == {k \in Hooks : hooks[k] = "live" /\ kind \in Listens[k]}
        IdOf(k) == queued + Cardinality({j \in targets : j <= k})
        n == Cardinality(targets) IN
    /\ Free /\ allowed /\ n > 0 /\ queued + n <= MaxDeliveries
    /\ deliveries' = [d \in DeliveryIds |->
                         IF \E k \in targets : d = IdOf(k)
                         THEN [hook |-> CHOOSE k \in targets : d = IdOf(k), status |-> "pending"]
                         ELSE deliveries[d]]
    /\ queued' = queued + n
    /\ UNCHANGED <<hooks, allowed>>
\* account_webhook_test, up to the pass it runs itself; the endpoint may be
\* switched off.
TestHook(k) ==
    /\ Free /\ allowed /\ hooks[k] \in {"live", "off"} /\ queued < MaxDeliveries
    /\ deliveries' = [deliveries EXCEPT ![queued + 1] = [hook |-> k, status |-> "pending"]]
    /\ queued' = queued + 1
    /\ UNCHANGED <<hooks, allowed>>

-----------------------------------------------------------------------------
(* send_pending_webhook_deliveries.                                        *)

\* A delivery that is pending, to an endpoint that is switched on.
Undelivered(d) ==
    deliveries[d].status = "pending" /\ hooks[deliveries[d].hook] = "live"
\* Mutant: the newest are selected.
OldestPendingReversed(n) ==
    {d \in DeliveryIds : Undelivered(d)
       /\ Cardinality({e \in DeliveryIds : Undelivered(e) /\ e > d}) < n}
\* The oldest that are pending, as many as the batch takes.
OldestPending(n) ==
    {d \in DeliveryIds : Undelivered(d)
       /\ Cardinality({e \in DeliveryIds : Undelivered(e) /\ e < d}) < n}
\* What a pass has selected or recorded, and not committed.
Has(c) == round[c] \cup {o.id : o \in noted[c]}
SelectRound(c) ==
    LET chosenOnes == OldestPending(CallBatch) IN
    /\ cpos[c] = "idle" /\ chosenOnes # {} /\ cpos' = [cpos EXCEPT ![c] = "call"]
    /\ round' = [round EXCEPT ![c] = chosenOnes]
    /\ redone' = redone \cup UNION {chosenOnes \cap Has(b) : b \in Couriers \ {c}}
    /\ UNCHANGED <<hooks, allowed, deliveries, queued, locker, noted, calls, astray, spills>>

First(c, d) == d \in round[c] /\ \A e \in round[c] : d <= e
Note(c, d, result) ==
    /\ round' = [round EXCEPT ![c] = @ \ {d}]
    /\ noted' = [noted EXCEPT ![c] = @ \cup {[id |-> d, result |-> result]}]
    /\ cpos' = [cpos EXCEPT ![c] = "record"]
\* The endpoint, as it was selected, is called; an error status, an unreachable
\* host or a refused address is a failure.
CallHook(c, d, result) ==
    LET k == deliveries[d].hook IN
    /\ cpos[c] = "call" /\ First(c, d) /\ allowed
    /\ Note(c, d, result)
    /\ calls' = [calls EXCEPT ![k] = @ \cup {d}]
    /\ astray' = IF \E e \in calls[k] : e >= d THEN astray \cup {d} ELSE astray
    /\ UNCHANGED <<hooks, allowed, deliveries, queued, locker, redone, spills>>
\* The owner may not use webhooks any more: nothing is called.
RefuseCall(c, d) ==
    /\ cpos[c] = "call" /\ First(c, d) /\ ~allowed
    /\ Note(c, d, "failed")
    /\ UNCHANGED <<hooks, allowed, deliveries, queued, locker, callHistory>>
\* mark_webhook_delivery_result: the first UPDATE takes the write lock.
TakeLock(c) ==
    /\ cpos[c] = "record" /\ locker \in {NoCourier, c} /\ locker' = c
    /\ cpos' = [cpos EXCEPT ![c] = "call"]
    /\ UNCHANGED <<hooks, allowed, deliveries, queued, round, noted, callHistory>>

EndRound(c) ==
    /\ cpos' = [cpos EXCEPT ![c] = "idle"] /\ round' = [round EXCEPT ![c] = {}]
    /\ noted' = [noted EXCEPT ![c] = {}]
    /\ locker' = IF locker = c THEN NoCourier ELSE locker
\* Mutant: a delivery that failed stays pending.
WrittenIfSent(c, d) ==
    IF deliveries[d].status # "none" /\ \E o \in noted[c] : o.id = d /\ o.result = "sent"
    THEN [deliveries[d] EXCEPT !.status = "sent"] ELSE deliveries[d]
\* The row of a delivery when the pass is committed.
WrittenBy(c, d) ==
    IF deliveries[d].status # "none" /\ \E o \in noted[c] : o.id = d
    THEN [deliveries[d] EXCEPT !.status = (CHOOSE o \in noted[c] : o.id = d).result]
    ELSE deliveries[d]
CommitRound(c) ==
    /\ cpos[c] = "call" /\ round[c] = {} /\ EndRound(c)
    /\ deliveries' = [d \in DeliveryIds |-> WrittenBy(c, d)]
    /\ UNCHANGED <<hooks, allowed, queued, callHistory>>
\* The process dies, the lock wait times out, or an answer that is no HTTP
\* raises an exception nobody handles: the calls are made and nothing of the
\* pass is recorded.
SpillRound(c) ==
    /\ cpos[c] # "idle" /\ spills < MaxSpills /\ spills' = spills + 1
    /\ redone' = redone \cup {o.id : o \in noted[c]}
    /\ EndRound(c)
    /\ UNCHANGED <<hooks, allowed, deliveries, queued, calls, astray>>

CourierStep(c) ==
    \/ \E d \in DeliveryIds :
         \/ \E result \in {"sent", "failed"} : CallHook(c, d, result)
         \/ RefuseCall(c, d)
    \/ TakeLock(c) \/ CommitRound(c)
WebhooksNext ==
    \/ \E k \in Hooks : CreateHook(k) \/ DeleteHook(k) \/ TestHook(k)
    \/ \E kind \in Happenings : QueueEvent(kind)
    \/ SetAccess \/ BanOwner
    \/ \E c \in Couriers : SelectRound(c) \/ CourierStep(c) \/ SpillRound(c)

WebhooksSpec == WebhooksInit /\ [][WebhooksNext]_hookVars
\* The schedule of the job comes round again; calls have a timeout.
WebhooksFairness ==
    \A c \in Couriers : WF_hookVars(SelectRound(c)) /\ WF_hookVars(CourierStep(c))

-----------------------------------------------------------------------------
(* Properties.                                                             *)

\* An endpoint hears of the events in their order and of each once, whatever
\* members, administrators and passes do at the same time, except of deliveries
\* that two passes had at once or that a pass called without committing.
CalledInOrder == astray \subseteq redone

\* No delivery waits for ever: it is called, refused, or deleted with its
\* endpoint, although passes end early and the lock changes hands; unless the
\* endpoint is switched off, when its deliveries stay pending for good.
DeliveryEnds == \A d \in DeliveryIds : Undelivered(d) ~> ~Undelivered(d)
=============================================================================
