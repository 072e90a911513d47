------------------------------ MODULE MCQueues ------------------------------
(***************************************************************************)
(* Small instances for TLC of the queues that are worked off in batches:   *)
(* lookups of card data, notification mails, webhooks and imports, and of  *)
(* the decks and merges that work on imported rows.  They share no state in*)
(* the model, so a behaviour belongs to one of them; `part` says to which. *)
(***************************************************************************)
EXTENDS EnrichmentQueue, NotificationMail, Webhooks, ImportBatches, Decks, TLC

CONSTANTS ann, bob, card1, card2

VARIABLE part

OneOwner == [i \in Items |-> ann]

\* Two notifications for ann, who has a daily digest, one for bob, who has
\* quiet hours.
ThreeNotes   == 1..3
ThreeReaders == 1 :> ann @@ 2 :> ann @@ 3 :> bob
DailyHabit ==
    ann :> [frequency |-> "daily", at |-> 1, day |-> 0, start |-> 0, end |-> 1]
    @@ bob :> [frequency |-> "immediate", at |-> 0, day |-> 0, start |-> 1, end |-> 0]

\* The second endpoint hears of every event the first hears of, and of more.
TwoHooks == 1 :> {"created"} @@ 2 :> {"created", "specific"}

\* One card twice in a file, so that its row is inserted and then merged into.
TheFiles == {<<card1, card2, card1>>, <<card1>>}

QueuesInit ==
    /\ part \in {"lookups", "mail", "hooks", "imports", "decks"}
    /\ LookupInit /\ MailInit /\ WebhooksInit /\ ImportInit /\ DecksInit
QueuesNext ==
    /\ UNCHANGED part
    /\ \/ part = "lookups" /\ LookupNext
          /\ UNCHANGED <<mailVars, hookVars, importVars, deckVars>>
       \/ part = "mail" /\ MailNext
          /\ UNCHANGED <<lookupVars, hookVars, importVars, deckVars>>
       \/ part = "hooks" /\ WebhooksNext
          /\ UNCHANGED <<lookupVars, mailVars, importVars, deckVars>>
       \/ part = "imports" /\ ImportNext
          /\ UNCHANGED <<lookupVars, mailVars, hookVars, deckVars>>
       \/ part = "decks" /\ DecksNext
          /\ UNCHANGED <<lookupVars, mailVars, hookVars, importVars>>
QueuesSpec ==
    QueuesInit /\ [][QueuesNext]_<<part, lookupVars, mailVars, hookVars, importVars, deckVars>>

-----------------------------------------------------------------------------
\* Mails stay wanted; only the first is read, and not before it exists; only
\* those for bob are refused by the server.
MailSlice ==
    /\ \A m \in Readers : wanted[m]
    /\ \A s \in Senders : hand[s].result = "failed" => \A n \in hand[s].notes : Reader[n] = bob
    /\ \A n \in Notes : seen[n] => status[n] # "none" /\ n = 1
\* The long file is imported merging and alone, the short one without merging.
ImportsSlice ==
    /\ blurred # Batches
    /\ \A b \in Batches : batches[b].merge = (batches[b].file # <<card1>>)
    /\ \/ \E u \in Movers : ipc[u] = "idle"
       \/ \A u \in Movers : load[u].batch # NoBatch => batches[load[u].batch].file = <<card1>>
\* Entries, pledges, requests and changes: three in all; the first row is offered
\* or not, the others are not.
DecksSlice ==
    /\ Cardinality({e \in EntryIds : entries[e] # NoEntry})
       + Cardinality({p \in Pledges : pledge[p] # 0})
       + Cardinality({h \in Hands : desk[h] # Clear}) + changes <= 3
    /\ \A r \in CardRows : offered[r] = 0 \/ (r = 1 /\ offered[r] = copies[r])
\* Only the first endpoint is deleted, with another beside it; access changes
\* while there is one, and no pass ends early after they were switched off;
\* only the first delivery fails.
HooksSlice ==
    /\ \A c \in Couriers : \A o \in noted[c] : o.result = "failed" => o.id = 1
    /\ ~allowed => hooks[2] = "none" /\ \A d \in DeliveryIds : deliveries[d].hook # 2
    /\ hooks[2] # "deleted" /\ (hooks[1] = "deleted" => hooks[2] # "none")
    /\ hooks[1] = "off" => hooks[2] # "none" /\ spills = 0
\* No card is deleted, no import undone and no rows merged once anything has failed.
LookupsSlice ==
    faults > 0 => cards = Items /\ \A r \in Askers : apc[r] \notin {"undo", "merge"}
SliceBound ==
    /\ part = "lookups" => LookupsSlice
    /\ part = "mail" => MailSlice
    /\ part = "hooks" => HooksSlice
    /\ part = "imports" => ImportsSlice
    /\ part = "decks" => DecksSlice

\* Sets of different components share their model values.
Symmetry == Permutations(Items) \cup Permutations(Handlers)

\* The variables of the five components keep the types the code gives them.
QueuesTypeOK == LookupTypeOK /\ MailTypeOK /\ WebhooksTypeOK /\ ImportTypeOK /\ DecksTypeOK
=============================================================================
