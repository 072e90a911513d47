---------------------------- MODULE MCQueuesLive ----------------------------
(***************************************************************************)
(* Small instances for TLC of the queues that must move on: lookups of card*)
(* data, notification mails and webhooks, each under its own fairness.     *)
(* `part` says to which a behaviour belongs.                               *)
(***************************************************************************)
EXTENDS EnrichmentQueue, NotificationMail, Webhooks, TLC

CONSTANTS ann, bob

VARIABLE part

OneOwner == [i \in Items |-> ann]

\* One notification for ann's weekly digest, one for bob, who gets mails at
\* once, but not in quiet hours.
TwoNotes    == 1..2
TwoReaders  == 1 :> ann @@ 2 :> bob
MixedHabits ==
    ann :> [frequency |-> "weekly", at |-> 1, day |-> 0, start |-> 0, end |-> 1]
    @@ bob :> [frequency |-> "immediate", at |-> 0, day |-> 0, start |-> 1, end |-> 0]

\* The second endpoint hears of every event the first hears of, and of more.
TwoHooks == 1 :> {"created"} @@ 2 :> {"created", "specific"}

LiveInit ==
    /\ part \in {"lookups", "mail", "hooks"}
    /\ LookupInit /\ MailInit /\ WebhooksInit
LiveNext ==
    /\ UNCHANGED part
    /\ \/ part = "lookups" /\ LookupNext /\ UNCHANGED <<mailVars, hookVars>>
       \/ part = "mail" /\ MailNext /\ UNCHANGED <<lookupVars, hookVars>>
       \/ part = "hooks" /\ WebhooksNext /\ UNCHANGED <<lookupVars, mailVars>>
LiveSpec ==
    /\ LiveInit /\ [][LiveNext]_<<part, lookupVars, mailVars, hookVars>>
    /\ \/ part = "lookups" /\ LookupFairness
       \/ part = "mail" /\ MailFairness
       \/ part = "hooks" /\ WebhooksFairness
\* Members who switch mails off are left to the safety runs; no fair step does it.
\* No card is deleted, no import undone and no rows merged once anything has failed.
LiveSlice ==
    /\ part = "mail" => \A m \in Readers : wanted[m]
    /\ part = "lookups" /\ faults > 0
         => cards = Items /\ \A r \in Askers : apc[r] \notin {"undo", "merge"}
=============================================================================
