-------------------------- MODULE NotificationMail --------------------------
(***************************************************************************)
(* The mails about notifications (notifications.py, maintenance.py): a pass*)
(* selects pending notifications, sends mails, at once or as a digest, and *)
(* records all of them in one transaction that begins with its first       *)
(* UPDATE and is committed at the end.  Passes are run by the background   *)
(* job and by an administrator's replay.  The clock counts slots of a day, *)
(* longer than the interval of the job; a week has WeekDays days.          *)
(***************************************************************************)
EXTENDS Naturals, FiniteSets

CONSTANTS
    Readers,     \* the members that are notified
    Notes,       \* notifications, numbered in the order of creation
    Reader,      \* whose notification each is
    Habit,       \* a member's settings: when mails are wanted
    Senders,     \* passes that may run at once
    NoSender,
    DaySlots, WeekDays,
    Batch,       \* how many notifications a pass selects
    MaxMishaps   \* bound: passes cut short, outages, retries

VARIABLES
    slot,        \* the time: a slot of the week
    swept,       \* a pass was completed in this slot
    since,       \* slots since a member's last digest; Week stands for never
    wanted,      \* mails are switched on
    status,      \* email_status, and whether the row exists
    seen,        \* is_read
    writer,      \* the pass that holds the database's write lock
    mpc,         \* each pass: idle, working, or about to record a mail
    batch,       \* each pass: the notifications selected and not handled yet
    ready,       \* each pass: the members whose turn it is, as it was selected
    hand,        \* each pass: what is to be recorded next
    marks,       \* each pass: what it recorded and has not committed
    mailed, twice,  \* history: mails went out about these
    repeats,     \* history: two passes had these, or a pass was cut
    mishaps

mailVars == <<slot, swept, since, wanted, status, seen, writer, mpc, batch, ready,
              hand, marks, mailed, twice, repeats, mishaps>>

Week  == DaySlots * WeekDays
Times == 0..(DaySlots - 1)
Habits == [frequency : {"immediate", "daily", "weekly"}, at : Times, day : 0..(WeekDays - 1),
           start : Times, end : Times]

ASSUME MailAssumption ==
    /\ Notes \subseteq Nat /\ Reader \in [Notes -> Readers] /\ NoSender \notin Senders
    /\ DaySlots \in Nat \ {0} /\ WeekDays \in Nat \ {0} /\ Batch \in Nat \ {0}
    /\ MaxMishaps \in Nat /\ Habit \in [Readers -> Habits]

States == {"none", "pending", "sent", "failed", "off"}
EmptyHand == [notes |-> {}, result |-> "off"]
Mails  == [notes : SUBSET Notes, result : {"sent", "failed", "off"}]

MailTypeOK ==
    /\ slot \in 0..(Week - 1) /\ swept \in BOOLEAN
    /\ since \in [Readers -> 0..Week] /\ wanted \in [Readers -> BOOLEAN]
    /\ status \in [Notes -> States] /\ seen \in [Notes -> BOOLEAN]
    /\ writer \in Senders \cup {NoSender}
    /\ mpc \in [Senders -> {"idle", "work", "record"}]
    /\ batch \in [Senders -> SUBSET Notes] /\ ready \in [Senders -> SUBSET Readers]
    /\ hand \in [Senders -> Mails]
    /\ marks \in [Senders -> SUBSET Mails]
    /\ mailed \subseteq Notes /\ twice \subseteq Notes /\ repeats \subseteq Notes
    /\ mishaps \in 0..MaxMishaps

MailInit ==
    /\ slot = 0 /\ swept = FALSE /\ since = [m \in Readers |-> Week]
    /\ wanted = [m \in Readers |-> TRUE]
    /\ status = [n \in Notes |-> "none"] /\ seen = [n \in Notes |-> FALSE]
    /\ writer = NoSender /\ mpc = [s \in Senders |-> "idle"]
    /\ batch = [s \in Senders |-> {}] /\ ready = [s \in Senders |-> {}]
    /\ hand = [s \in Senders |-> EmptyHand]
    /\ marks = [s \in Senders |-> {}]
    /\ mailed = {} /\ twice = {} /\ repeats = {} /\ mishaps = 0

passes  == <<writer, mpc, batch, ready, hand, marks>>
outcome == <<mailed, twice, repeats>>
table   == <<status, seen, wanted>>

-----------------------------------------------------------------------------
(* When.                                                                   *)

Hour == slot % DaySlots
\* notification_quiet_hours_active
QuietAt(m, hour) ==
    LET start == Habit[m].start
        end   == Habit[m].end IN
    /\ start # end
    /\ IF start < end THEN start <= hour /\ hour < end ELSE hour >= start \/ hour < end
Quiet(m) == QuietAt(m, Hour)
\* How long ago the digest of this day, or of this week, was scheduled; for
\* one that lies ahead, nothing.
Overdue(m) ==
    LET now  == IF Habit[m].frequency = "daily" THEN Hour ELSE slot
        goal == IF Habit[m].frequency = "daily" THEN Habit[m].at
                ELSE Habit[m].day * DaySlots + Habit[m].at IN
    IF now >= goal THEN {now - goal} ELSE {}
Instant(m) == Habit[m].frequency = "immediate"
\* Mutant: without an earlier digest none is due.
DueAgain(m) == \E ago \in Overdue(m) : ago < since[m] /\ since[m] < Week
\* notification_digest_due: it was scheduled, and the last one was before.
Due(m) == \E ago \in Overdue(m) : ago < since[m]

\* The clock goes on; an hour without a completed pass is an outage.
Later ==
    /\ \A s \in Senders : mpc[s] = "idle"
    /\ swept \/ mishaps < MaxMishaps
    /\ mishaps' = IF swept THEN mishaps ELSE mishaps + 1
    /\ slot' = (slot + 1) % Week /\ swept' = FALSE
    /\ since' = [m \in Readers |-> IF since[m] = Week THEN Week ELSE since[m] + 1]
    /\ UNCHANGED <<table, passes, outcome>>

-----------------------------------------------------------------------------
(* What members and administrators do, while no pass holds the lock.       *)

Unlocked == writer = NoSender /\ UNCHANGED <<slot, swept, since, passes, outcome>>

\* create_notification: the next one.
Notify(n) ==
    /\ Unlocked
    /\ status[n] = "none" /\ ~seen[n] /\ \A k \in Notes : k < n => status[k] # "none" \/ seen[k]
    /\ status' = [status EXCEPT ![n] = IF wanted[Reader[n]] THEN "pending" ELSE "off"]
    /\ UNCHANGED <<seen, wanted, mishaps>>
\* mark_notification_read
MarkRead(n) ==
    /\ Unlocked
    /\ status[n] # "none" /\ ~seen[n] /\ seen' = [seen EXCEPT ![n] = TRUE]
    /\ status' = [status EXCEPT ![n] = IF @ = "pending" THEN "off" ELSE @]
    /\ UNCHANGED <<wanted, mishaps>>
\* delete_notification, delete_all_notifications; a deleted row counts as seen.
DeleteNote(n) ==
    /\ Unlocked
    /\ status[n] # "none" /\ status' = [status EXCEPT ![n] = "none"]
    /\ seen' = [seen EXCEPT ![n] = TRUE]
    /\ UNCHANGED <<wanted, mishaps>>
\* The member switches mails off.
SwitchOff(m) ==
    /\ Unlocked
    /\ wanted[m] /\ wanted' = [wanted EXCEPT ![m] = FALSE]
    /\ UNCHANGED <<status, seen, mishaps>>
\* retry_failed_notification_email, the first half of
\* replay_failed_notification_emails.
RetryMail(n) ==
    /\ Unlocked
    /\ mishaps < MaxMishaps /\ mishaps' = mishaps + 1
    /\ status[n] = "failed" /\ status' = [status EXCEPT ![n] = "pending"]
    /\ UNCHANGED <<seen, wanted>>

-----------------------------------------------------------------------------
(* send_pending_trade_notification_emails.                                 *)

Waits(n) == status[n] = "pending" /\ ~seen[n]
InHand(s) == batch[s] \cup hand[s].notes \cup UNION {d.notes : d \in marks[s]}
\* Notifications another pass has too.
Shared(s, notes) == UNION {notes \cap InHand(q) : q \in Senders \ {s}}

\* The SELECT: the oldest that wait, up to the limit, each with the settings
\* of its member.  Mails that are not wanted any more are taken off.
Select(s) ==
    LET oldest == {n \in Notes : Waits(n)
                     /\ Cardinality({k \in Notes : Waits(k) /\ k < n}) < Batch}
        muted  == {n \in oldest : ~wanted[Reader[n]]} IN
    /\ mpc[s] = "idle" /\ mpc' = [mpc EXCEPT ![s] = IF muted = {} THEN "work" ELSE "record"]
    /\ batch' = [batch EXCEPT ![s] = oldest \ muted]
    /\ ready' = [ready EXCEPT ![s] = {m \in Readers : ~Quiet(m) /\ (Instant(m) \/ Due(m))}]
    /\ hand' = [hand EXCEPT ![s] = [EmptyHand EXCEPT !.notes = muted]]
    /\ repeats' = repeats \cup Shared(s, oldest)
    /\ UNCHANGED <<slot, swept, since, table, writer, marks, mailed, twice, mishaps>>

Left(s, m) == {n \in batch[s] : Reader[n] = m}
\* Quiet hours, or a digest that is not due: these stay pending.
Defer(s, m) ==
    /\ mpc[s] = "work" /\ Left(s, m) # {} /\ m \notin ready[s]
    /\ batch' = [batch EXCEPT ![s] = @ \ Left(s, m)]
    /\ UNCHANGED <<slot, swept, since, table, writer, mpc, ready, hand, marks, outcome, mishaps>>
\* A mail about some notifications goes out, or the server refuses it.
Send(s, notes, result) ==
    /\ hand' = [hand EXCEPT ![s] = [notes |-> notes, result |-> result]]
    /\ mpc' = [mpc EXCEPT ![s] = "record"]
    /\ mailed' = IF result = "sent" THEN mailed \cup notes ELSE mailed
    /\ twice' = IF result = "sent" THEN twice \cup (mailed \cap notes) ELSE twice
    /\ repeats' = repeats \cup Shared(s, notes)
    /\ UNCHANGED <<slot, swept, since, table, writer, ready, marks, mishaps>>
SendOne(s, n, result) ==
    /\ mpc[s] = "work" /\ n \in batch[s] /\ Reader[n] \in ready[s] /\ Instant(Reader[n])
    /\ batch' = [batch EXCEPT ![s] = @ \ {n}]
    /\ Send(s, {n}, result)
\* A digest is about all that waits now, selected or not.
SendDigest(s, m, result) ==
    LET all == {n \in Notes : Waits(n) /\ Reader[n] = m} IN
    /\ mpc[s] = "work" /\ Left(s, m) # {} /\ m \in ready[s] /\ ~Instant(m)
    /\ batch' = [batch EXCEPT ![s] = @ \ Left(s, m)]
    /\ IF all = {}
       THEN /\ result = "off"
            /\ UNCHANGED <<slot, swept, since, table, writer, mpc, ready, hand, marks,
                           outcome, mishaps>>
       ELSE /\ wanted[m] <=> result # "off"
            /\ Send(s, all, result)
\* The UPDATE waits for the write lock, and takes it.
Record(s) ==
    /\ mpc[s] = "record" /\ writer \in {NoSender, s} /\ writer' = s
    /\ marks' = [marks EXCEPT ![s] = @ \cup {hand[s]}]
    /\ hand' = [hand EXCEPT ![s] = EmptyHand]
    /\ mpc' = [mpc EXCEPT ![s] = "work"]
    /\ UNCHANGED <<slot, swept, since, table, batch, ready, outcome, mishaps>>
Marked(s, result) == UNION {d.notes : d \in {d \in marks[s] : d.result = result}}
Ended(s) ==
    /\ mpc' = [mpc EXCEPT ![s] = "idle"]
    /\ batch' = [batch EXCEPT ![s] = {}] /\ ready' = [ready EXCEPT ![s] = {}]
    /\ hand' = [hand EXCEPT ![s] = EmptyHand]
    /\ marks' = [marks EXCEPT ![s] = {}]
    /\ writer' = IF writer = s THEN NoSender ELSE writer
\* Mutant: a digest records only the oldest notification of the member.
FinalOldest(s, n) ==
    IF status[n] # "none" /\ \E d \in marks[s] : n \in d.notes /\ \A k \in d.notes : n <= k
    THEN (CHOOSE d \in marks[s] : n \in d.notes).result ELSE status[n]
\* The status a notification has when the pass is committed: a row that still
\* exists is written by its id, whatever was done to it meanwhile.
Final(s, n) ==
    IF status[n] # "none" /\ \E d \in marks[s] : n \in d.notes
    THEN (CHOOSE d \in marks[s] : n \in d.notes).result ELSE status[n]
\* All of the pass becomes visible.
Commit(s) ==
    /\ mpc[s] = "work" /\ batch[s] = {} /\ Ended(s)
    /\ status' = [n \in Notes |-> Final(s, n)]
    /\ since' = [m \in Readers |->
                   IF \E n \in Marked(s, "sent") : Reader[n] = m /\ ~Instant(m) THEN 0 ELSE since[m]]
    /\ swept' = TRUE
    /\ UNCHANGED <<slot, seen, wanted, outcome, mishaps>>
\* The process dies, or the database stays busy too long: the mails are out
\* and nothing of the pass is recorded.
CutShort(s) ==
    /\ mpc[s] # "idle" /\ mishaps < MaxMishaps /\ mishaps' = mishaps + 1
    /\ repeats' = repeats \cup hand[s].notes \cup UNION {d.notes : d \in marks[s]}
    /\ Ended(s)
    /\ UNCHANGED <<slot, swept, since, table, mailed, twice>>

PassStep(s) ==
    \/ \E m \in Readers :
         Defer(s, m) \/ \E result \in {"sent", "failed", "off"} : SendDigest(s, m, result)
    \/ \E n \in Notes, result \in {"sent", "failed"} : SendOne(s, n, result)
    \/ Record(s) \/ Commit(s)
MailNext ==
    \/ Later
    \/ \E n \in Notes : Notify(n) \/ MarkRead(n) \/ DeleteNote(n) \/ RetryMail(n)
    \/ \E m \in Readers : SwitchOff(m)
    \/ \E s \in Senders : Select(s) \/ PassStep(s) \/ CutShort(s)

MailSpec == MailInit /\ [][MailNext]_mailVars
MailFairness ==
    /\ SF_mailVars(Later)
    /\ \A s \in Senders : WF_mailVars(Select(s)) /\ WF_mailVars(PassStep(s))

-----------------------------------------------------------------------------
\* A member gets one mail about a notification, unless two passes had it at
\* once or a pass that sent it never committed.
MailedOnce == twice \subseteq repeats

\* The member's mails have a turn: after the time of the digest there is an
\* hour of that day, or of that week, that is not quiet.
HasTurn(m) ==
    LET h == Habit[m] IN
    CASE h.frequency = "immediate" -> TRUE
      [] h.frequency = "daily" -> \E t \in h.at..(DaySlots - 1) : ~QuietAt(m, t)
      [] h.frequency = "weekly" ->
           \E t \in (h.day * DaySlots + h.at)..(Week - 1) : ~QuietAt(m, t % DaySlots)

\* No notification waits for its mail for ever, if every member's mails have a
\* turn: it is mailed, tried in vain, read, deleted or taken off.  It need not
\* be so for the others: a digest that falls due inside quiet hours which last
\* to the end of its day is not sent on a later one, and stays ahead of newer
\* notifications in the queue.
MailLeaves ==
    (\A m \in Readers : HasTurn(m)) => \A n \in Notes : Waits(n) ~> ~Waits(n)
=============================================================================
