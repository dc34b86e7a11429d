----------------------------- MODULE AlertLoop -----------------------------
(***************************************************************************)
(* One loop of spo-monitor (internal/monitor): a pass assesses every       *)
(* listing in order, collects the notifications the alert states call for  *)
(* in a batch, sends the batch to Telegram in one or more messages, and    *)
(* commits a pool's new state after the message that carries its text.     *)
(*                                                                         *)
(* The block loop and the KES loop run the same pass over rows of their    *)
(* own; "kind" says which of the two this is, and never changes.  What     *)
(* they share is the database file, where one finds it locked by the       *)
(* other ("load" and "save" faults), and the process, which ends for both. *)
(***************************************************************************)
EXTENDS Integers, Sequences

CONSTANTS
    Pools,          \* the configured pool ids
    Order,          \* cfg.Pools: a sequence of pools, one pool perhaps twice
    MaxTier,        \* the number of KES thresholds
    Faults,         \* the failures this instance admits
    MaxRestarts     \* bound on shutdowns and crashes in one behaviour

FaultKinds == { "api", "load", "save", "withhold", "reply", "shutdown", "crash" }

ASSUME OrderAssumption    == Order \in Seq(Pools)
ASSUME TierAssumption     == MaxTier \in Nat \ {0}
ASSUME FaultsAssumption   == Faults \subseteq FaultKinds
ASSUME RestartsAssumption == MaxRestarts \in Nat

VARIABLES
    kind,       \* "block" or "kes": which of the two loops this is
    cond,       \* cond[p]: 0 healthy, else in violation (block) or the tier crossed (KES)
    row,        \* table pool_alert_states: row[p], with "none" for no row
    pc,         \* where the loop is: waiting, assessing, sending or saving
    pos,        \* the next listing of the pass
    batch,      \* the notifications not sent yet, in pass order
    saving,     \* those of the message just delivered, not saved yet
    ctxDone,    \* the process is told to stop
    restarts,   \* shutdowns and crashes so far
    heard,      \* heard[p]: the tier the last delivered message told of, 0 for none
    torn        \* a failed load or save, a lost reply or a crash has parted row from heard

loopVars == <<pc, pos, batch, saving>>
lifeVars == <<ctxDone, restarts>>
seenVars == <<heard, torn>>
vars == <<kind, cond, row, loopVars, lifeVars, seenVars>>

Worst == IF kind = "block" THEN 1 ELSE MaxTier

\* ---------------------------------------------------------------- alert state

\* A PoolAlertState: "due" says that ReminderInterval has passed since
\* LastReminderAt, and "level" is NotifiedLevel, which block alerts leave at 0.
State == [status : {"none", "ok", "alerting"}, level : 0..MaxTier, due : BOOLEAN]
NoRow == [status |-> "none", level |-> 0, due |-> FALSE]
Fresh == [status |-> "ok", level |-> 0, due |-> FALSE]

\* The tier a state says the recipient knows of.
Tells(st) == IF st.status # "alerting" THEN 0
             ELSE IF kind = "block" THEN 1 ELSE st.level

\* A pendingAlert, whose state is inserted if it was loaded without a row.
Note == [pool : Pools, text : {"alert", "reminder", "recovery"}, state : State,
         insert : BOOLEAN]

\* loadAlertState when the read succeeds.
Stored(p) == IF row[p].status = "none" THEN Fresh ELSE row[p]

Alerting(level) == [status |-> "alerting", level |-> level, due |-> FALSE]

\* evaluateWithReminder: the text and the state to commit, if there is one.
WithReminder(st, c) ==
    IF c > 0 /\ st.status # "alerting" THEN {<<"alert", Alerting(st.level)>>}
    ELSE IF c > 0 /\ st.due THEN {<<"reminder", Alerting(st.level)>>}
    ELSE IF c = 0 /\ st.status = "alerting" THEN {<<"recovery", Fresh>>}
    ELSE {}

\* Faulty variants: NotifiedLevel is counted up; each pass alerts again; the
\* condition's end is not looked at.
TieredAdding(st, c) ==
    IF c > 0 /\ (st.status # "alerting" \/ c > st.level)
      THEN {<<"alert", Alerting(st.level + c)>>}
    ELSE IF c = 0 /\ st.status = "alerting" THEN {<<"recovery", Fresh>>}
    ELSE {}

TieredRepeating(st, c) ==
    IF c > 0 THEN {<<"alert", Alerting(c)>>}
    ELSE IF st.status = "alerting" THEN {<<"recovery", Fresh>>}
    ELSE {}

TieredEntering(st, c) ==
    IF c > 0 /\ (st.status # "alerting" \/ c > st.level)
      THEN {<<"alert", Alerting(c)>>} ELSE {}

\* evaluateTiered: an alert for the first tier and for each more severe one.
Tiered(st, c) ==
    IF c > 0 /\ (st.status # "alerting" \/ c > st.level) THEN {<<"alert", Alerting(c)>>}
    ELSE IF c = 0 /\ st.status = "alerting" THEN {<<"recovery", Fresh>>}
    ELSE {}

Notices(st, c) == IF kind = "block" THEN WithReminder(st, c) ELSE Tiered(st, c)

\* Faulty variant: a second listing of the pool is evaluated again.
PendingNever(p) == FALSE /\ p \in Pools

\* alertBatch.pending
Pending(p) == \E i \in 1..Len(batch) : batch[i].pool = p

\* SaveAlertState: an INSERT is refused when the row exists.
SaveAlertState(p, st, insert) ==
    row' = IF insert /\ row[p].status # "none" THEN row ELSE [row EXCEPT ![p] = st]

\* ----------------------------------------------------------------------- pass

StartPass ==
    /\ pc = "wait" /\ ~ctxDone
    /\ pc' = "check" /\ pos' = 1
    /\ UNCHANGED <<kind, cond, row, batch, saving, lifeVars, seenVars>>

AtListing(p) == pc = "check" /\ ~ctxDone /\ pos <= Len(Order) /\ Order[pos] = p

\* The state machine on the state as loaded: a notification joins the batch, a
\* state without one is saved now.
Evaluate(p, st, insert) ==
    LET found == Notices(st, cond[p]) IN
    /\ pos' = pos + 1
    /\ IF Pending(p) THEN UNCHANGED <<row, batch>>
       ELSE IF found = {} THEN SaveAlertState(p, st, insert) /\ UNCHANGED batch
       ELSE \E n \in found :
              /\ batch' = Append(batch, [pool |-> p, text |-> n[1], state |-> n[2],
                                         insert |-> insert])
              /\ UNCHANGED row
    /\ UNCHANGED <<kind, cond, pc, saving, lifeVars, heard>>

Assess(p) ==
    /\ AtListing(p)
    /\ Evaluate(p, Stored(p), row[p].status = "none")
    /\ UNCHANGED torn

\* The read of the stored state fails: a fresh state stands in for it.  There is
\* no read for a pool already in the batch.
LoadFails(p) ==
    /\ "load" \in Faults /\ AtListing(p) /\ ~Pending(p)
    /\ Evaluate(p, Fresh, TRUE)
    /\ torn' = TRUE

\* The assessment fails, or the pool has no block or too few to be monitored.
SkipListing(p) ==
    /\ "api" \in Faults /\ AtListing(p)
    /\ pos' = pos + 1
    /\ UNCHANGED <<kind, cond, row, pc, batch, saving, lifeVars, seenVars>>

\* ---------------------------------------------------------------------- flush

\* The deferred flush: after the last listing, or at once when told to stop.
Flush ==
    /\ pc = "check"
    /\ pos > Len(Order) \/ ctxDone
    /\ pc' = IF batch = <<>> THEN "wait" ELSE "send"
    /\ pos' = 1
    /\ UNCHANGED <<kind, cond, row, batch, saving, lifeVars, seenVars>>

\* splitAlerts cuts the batch between alerts, by the length of their texts: a
\* message carries the next n of them.
Message(n) == SubSeq(batch, 1, n)
Rest(n) == SubSeq(batch, n + 1, Len(batch))

Carries(n, p) == \E i \in 1..n : batch[i].pool = p

\* What the recipient has heard once the message is there.
Heard(n) == [p \in Pools |->
    IF Carries(n, p) THEN Tells((CHOOSE x \in { batch[i] : i \in 1..n } : x.pool = p).state)
                     ELSE heard[p]]

Sends(n) == pc = "send" /\ n \in 1..Len(batch)

AfterMessage(left) == IF left = <<>> THEN "wait" ELSE "send"

\* Telegram takes the message and says so.
Deliver(n) ==
    /\ Sends(n)
    /\ heard' = Heard(n)
    /\ saving' = Message(n) /\ batch' = Rest(n)
    /\ pc' = "save"
    /\ UNCHANGED <<kind, cond, row, pos, lifeVars, torn>>

\* Telegram takes the message, but its answer times out or cannot be decoded.
ReplyLost(n) ==
    /\ "reply" \in Faults /\ Sends(n)
    /\ heard' = Heard(n) /\ torn' = TRUE
    /\ batch' = Rest(n) /\ pc' = AfterMessage(Rest(n))
    /\ UNCHANGED <<kind, cond, row, pos, saving, lifeVars>>

\* Faulty variant: the states of a message that was not sent are kept for saving.
WithholdCommitting(n) ==
    /\ "withhold" \in Faults /\ Sends(n)
    /\ saving' = Message(n) /\ batch' = Rest(n)
    /\ pc' = "save"
    /\ UNCHANGED <<kind, cond, row, pos, lifeVars, seenVars>>

\* Quiet hours, or Telegram refuses the message: its pools stay as they were.
Withhold(n) ==
    /\ "withhold" \in Faults /\ Sends(n)
    /\ batch' = Rest(n) /\ pc' = AfterMessage(Rest(n))
    /\ UNCHANGED <<kind, cond, row, pos, saving, lifeVars, seenVars>>

\* The next alert of the delivered message is saved, or its save fails.
Saved ==
    /\ pc = "save"
    /\ saving' = Tail(saving)
    /\ pc' = IF Tail(saving) # <<>> THEN "save" ELSE AfterMessage(batch)
    /\ UNCHANGED <<kind, cond, pos, batch, lifeVars, heard>>

Save ==
    /\ Saved
    /\ SaveAlertState(saving[1].pool, saving[1].state, saving[1].insert)
    /\ UNCHANGED torn

SaveFails ==
    /\ "save" \in Faults /\ Saved
    /\ torn' = TRUE
    /\ UNCHANGED row

LoopNext ==
    \/ StartPass \/ Flush \/ Save \/ SaveFails
    \/ \E p \in Pools : Assess(p) \/ LoadFails(p) \/ SkipListing(p)
    \/ \E n \in 1..Len(batch) : Deliver(n) \/ ReplyLost(n) \/ Withhold(n)

\* ---------------------------------------------------------------- environment

\* A dry spell grows too long; an opcert comes closer to its expiry.
Worsen(p) ==
    /\ cond[p] < Worst
    /\ cond' = [cond EXCEPT ![p] = @ + 1]
    /\ UNCHANGED <<kind, row, loopVars, lifeVars, seenVars>>

\* The pool mints a block; the opcert is rotated, or its rotation is now found
\* to be later than assumed.
Improve(p) ==
    /\ \E c \in 0..(cond[p] - 1) : cond' = [cond EXCEPT ![p] = c]
    /\ UNCHANGED <<kind, row, loopVars, lifeVars, seenVars>>

\* ReminderInterval passes; only block alerts look at it.
ReminderElapses(p) ==
    /\ kind = "block" /\ row[p].status = "alerting" /\ ~row[p].due
    /\ row' = [row EXCEPT ![p].due = TRUE]
    /\ UNCHANGED <<kind, cond, loopVars, lifeVars, seenVars>>

EnvNext == \E p \in Pools : Worsen(p) \/ Improve(p) \/ ReminderElapses(p)

Shutdown ==
    /\ "shutdown" \in Faults /\ restarts < MaxRestarts
    /\ ~ctxDone /\ ctxDone' = TRUE /\ restarts' = restarts + 1
    /\ UNCHANGED <<kind, cond, row, loopVars, seenVars>>

\* Run returns after the pass under way, and the monitor is started again.
Restart ==
    /\ ctxDone /\ pc = "wait"
    /\ ctxDone' = FALSE
    /\ UNCHANGED <<kind, cond, row, loopVars, restarts, seenVars>>

Crash ==
    /\ "crash" \in Faults /\ restarts < MaxRestarts
    /\ restarts' = restarts + 1 /\ ctxDone' = FALSE
    /\ pc' = "wait" /\ pos' = 1 /\ batch' = <<>> /\ saving' = <<>>
    /\ torn' = (torn \/ saving # <<>>)
    /\ UNCHANGED <<kind, cond, row, heard>>

\* -------------------------------------------------------------- specification

Init ==
    /\ kind \in {"block", "kes"}
    /\ cond = [p \in Pools |-> 0]
    /\ row = [p \in Pools |-> NoRow]
    /\ pc = "wait" /\ pos = 1 /\ batch = <<>> /\ saving = <<>>
    /\ ctxDone = FALSE /\ restarts = 0
    /\ heard = [p \in Pools |-> 0] /\ torn = FALSE

Next == LoopNext \/ EnvNext \/ Shutdown \/ Restart \/ Crash

Spec == Init /\ [][Next]_vars

\* The loop is a goroutine woken by a ticker for ever.  Beyond that, the world
\* outside must give each pool its chance: not every assessment of it fails,
\* and not every message about it falls into quiet hours or is refused.
Fairness ==
    /\ WF_vars(LoopNext) /\ WF_vars(Restart)
    /\ \A p \in Pools :
         /\ SF_vars(Assess(p))
         /\ SF_vars(\E n \in 1..Len(batch) : Carries(n, p) /\ Deliver(n))

FairSpec == Spec /\ Fairness

\* ----------------------------------------------------------------- properties

\* The variables hold values of their types.
TypeOK ==
    /\ kind \in {"block", "kes"}
    /\ cond \in [Pools -> 0..Worst] /\ row \in [Pools -> State]
    /\ pc \in {"wait", "check", "send", "save"} /\ pos \in 1..(Len(Order) + 1)
    /\ batch \in Seq(Note) /\ saving \in Seq(Note)
    /\ ctxDone \in BOOLEAN /\ restarts \in 0..MaxRestarts
    /\ heard \in [Pools -> 0..MaxTier] /\ torn \in BOOLEAN

\* A pool listed under several operators gets one notification per pass, across
\* the messages of the pass already sent and those still to send.
OnePerPass ==
    LET notes == saving \o batch IN
    \A i, j \in 1..Len(notes) : notes[i].pool = notes[j].pool => i = j

\* A pool's alert state advances only after the message that tells of it was
\* delivered, whatever else fails: no alert is marked as told and never sent.
CommitFollowsDelivery ==
    [][\A p \in Pools :
         Tells(row'[p]) # Tells(row[p]) => heard[p] = Tells(row'[p])]_vars

\* While no delivery came apart from its save, each message tells something
\* new: one alert per incident or tier, and a recovery only from an incident
\* the recipient was told of.  A reminder alone repeats the tier.
NothingToldTwice ==
    [][\A p \in Pools, n \in 1..Len(batch) :
         Deliver(n) /\ Carries(n, p) /\ ~torn /\ heard'[p] = heard[p]
            => \E i \in 1..n : batch[i].pool = p /\ batch[i].text = "reminder"]_vars

\* A pool that stays in violation is reported, at its tier or a worse one,
\* however many passes fail, unless a delivery came apart from its save.
ViolationAnnounced ==
    \A p \in Pools : \A c \in 1..MaxTier :
        cond[p] = c ~> (heard[p] >= c \/ cond[p] # c \/ torn)

\* The recipient of an alert is told when the condition clears, unless a
\* delivery came apart from its save.
RecoveryAnnounced ==
    \A p \in Pools :
        (heard[p] > 0 /\ cond[p] = 0) ~> (heard[p] = 0 \/ cond[p] > 0 \/ torn)

\* README.md: "a recovery message when it clears", with no exception.
RecoveryAlwaysAnnounced ==
    \A p \in Pools :
        (heard[p] > 0 /\ cond[p] = 0) ~> (heard[p] = 0 \/ cond[p] > 0)
=============================================================================
