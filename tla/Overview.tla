------------------------------ MODULE Overview ------------------------------
(***************************************************************************)
(* The overview page: handleOverview reads Health and then the tables, one *)
(* call of the store at a time, while the loops go on writing.  Of the     *)
(* page this follows one pool's status and slot counts.                    *)
(*                                                                         *)
(* The loops are here what LeaderLog shows them to be: a slot table that   *)
(* is a SlotLedger (LedgerSpec), and a row that is ok only over the whole  *)
(* schedule (TrustworthyOk), with any other status at any time.  A store   *)
(* call that fails leaves its part of the page at zero; none fails here.   *)
(***************************************************************************)
EXTENDS Integers, FiniteSets

CONSTANTS
    BoardSlots,     \* the last slot of the instance
    BoardEpochOf,   \* [0..BoardSlots -> Nat], the epoch of each slot
    Leads           \* the slots the pool leads

ASSUME BoardAssumption == /\ BoardSlots \in Nat
                          /\ BoardEpochOf \in [0..BoardSlots -> Nat]
                          /\ Leads \subseteq 1..BoardSlots

VARIABLES
    canonical, head,    \* the chain and its tip
    slotTable,          \* the pool's rows of scheduled_slots
    boardStatus,        \* boardStatus[e]: the status of its row of pool_schedules
    reads,              \* how far handleOverview is with its reads of the store
    page                \* the response it is assembling

boardVars == <<canonical, head, slotTable, boardStatus, reads, page>>
tables == <<canonical, head, slotTable, boardStatus>>

ThePool == "the pool"
BoardEpochs == { BoardEpochOf[s] : s \in 0..BoardSlots }

Loops == INSTANCE SlotLedger WITH
    Pools <- {ThePool}, NSlots <- BoardSlots, Epochs <- BoardEpochs,
    EpochOf <- BoardEpochOf, Leader <- [p \in {ThePool} |-> Leads],
    Empty <- "empty", Other <- "other", SettleMargin <- 0,
    chain <- canonical, tip <- head, ledger <- slotTable

RowsOf(e, states) ==
    { s \in 1..BoardSlots : BoardEpochOf[s] = e /\ slotTable[ThePool][s] \in states }

WholeSchedule(e) == { s \in Leads : BoardEpochOf[s] = e }

\* A slot enters, settles; a block is minted.
LoopsWrite == Loops!Next /\ UNCHANGED <<boardStatus, reads, page>>

\* The row of an epoch gets another status; "ok" comes after the slots.
SetStatus(e, status) ==
    /\ status = "ok" => WholeSchedule(e) \subseteq RowsOf(e, {"pending", "produced", "missed"})
    /\ boardStatus' = [boardStatus EXCEPT ![e] = status]
    /\ UNCHANGED <<canonical, head, slotTable, reads, page>>

NoCounts == [scheduled |-> 0, produced |-> 0, missed |-> 0, pending |-> 0]
NoPage == [epoch |-> 0, status |-> "pending", counts |-> NoCounts]

\* A pool without a row is shown as pending.
StatusShown(e) == IF boardStatus[e] = "none" THEN "pending" ELSE boardStatus[e]

\* CountSlots: one query groups the epoch's slots by status.
CountSlots(e) ==
    [scheduled |-> Cardinality(RowsOf(e, {"produced", "missed", "pending"})),
     produced |-> Cardinality(RowsOf(e, {"produced"})),
     missed |-> Cardinality(RowsOf(e, {"missed"})),
     pending |-> Cardinality(RowsOf(e, {"pending"}))]

\* Faulty variant: the status is read after the counts.
AskStatusLast(e) ==
    \/ /\ reads = "nothing" /\ e <= BoardEpochOf[head]
       /\ reads' = "status" /\ page' = [NoPage EXCEPT !.epoch = e]
       /\ UNCHANGED tables
    \/ /\ reads = "counts" /\ e = page.epoch
       /\ page' = [page EXCEPT !.status = StatusShown(e)]
       /\ UNCHANGED <<tables, reads>>

\* GetPoolSchedule for the epoch of Health, which may be any the loops have
\* read, however long ago (see NodeHealth).
AskStatus(e) ==
    /\ reads = "nothing" /\ e <= BoardEpochOf[head]
    /\ reads' = "status"
    /\ page' = [NoPage EXCEPT !.epoch = e, !.status = StatusShown(e)]
    /\ UNCHANGED tables

AskCounts ==
    /\ reads = "status"
    /\ reads' = "counts"
    /\ page' = [page EXCEPT !.counts = CountSlots(page.epoch)]
    /\ UNCHANGED tables

WritePage ==
    /\ reads = "counts"
    /\ reads' = "nothing" /\ page' = NoPage
    /\ UNCHANGED tables

BoardInit ==
    /\ Loops!Init
    /\ boardStatus = [e \in BoardEpochs |-> "none"]
    /\ reads = "nothing" /\ page = NoPage

\* The statuses the page tells apart: no row, ok, and those that are not ok.
BoardNext ==
    \/ LoopsWrite
    \/ \E e \in BoardEpochs, status \in {"pending", "ok", "expired"} : SetStatus(e, status)
    \/ \E e \in BoardEpochs : AskStatus(e)
    \/ AskCounts \/ WritePage

BoardSpec == BoardInit /\ [][BoardNext]_boardVars

\* ----------------------------------------------------------------- properties

\* A page that says a schedule is ok shows all of it, every slot in one column:
\* the status is read before the counts, and what the loops write in between,
\* a rollover, a recompute or a settlement, takes no slot away.
OkShowsWholeSchedule ==
    reads = "counts" /\ page.status = "ok" =>
        /\ page.counts.scheduled = Cardinality(WholeSchedule(page.epoch))
        /\ page.counts.scheduled = page.counts.produced + page.counts.missed + page.counts.pending
=============================================================================
