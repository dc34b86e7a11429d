-------------------------- MODULE Dashboard_proofs --------------------------
(***************************************************************************)
(* What spo-dashboard shows, proved for any chain, pool and number of      *)
(* requests: the overview's counts are the whole schedule, the earnings    *)
(* estimate applies the parameters the ledger applies, a stake snapshot is *)
(* whole, and the price cache asks rarely and forgets nothing.             *)
(***************************************************************************)
EXTENDS Overview, OwnerEstimate, PriceCache, StakeSnapshots, FiniteSetTheorems, TLAPS

\* ------------------------------------------------------------ the overview

SlotStates == {"none", "pending", "produced", "missed"}
Entered == {"produced", "missed", "pending"}
Counts == [scheduled : Nat, produced : Nat, missed : Nat, pending : Nat]

BoardTypeOK ==
    /\ slotTable \in [{ThePool} -> [1..BoardSlots -> SlotStates]]
    /\ boardStatus \in [BoardEpochs -> {"none", "pending", "ok", "expired"}]
    /\ reads \in {"nothing", "status", "counts"}
    /\ page \in [epoch : BoardEpochs \cup {0}, counts : Counts,
                 status : {"none", "pending", "ok", "expired"}]

\* Only slots the pool leads are in the table.
OnlyLed == \A s \in 1..BoardSlots : slotTable[ThePool][s] # "none" => s \in Leads

\* An ok row, and an ok that was read of one, are over the whole schedule.
OkOverWhole == \A e \in BoardEpochs : boardStatus[e] = "ok" => WholeSchedule(e) \subseteq RowsOf(e, Entered)

ShownOverWhole ==
    reads = "status" /\ page.status = "ok" =>
        WholeSchedule(page.epoch) \subseteq RowsOf(page.epoch, Entered)

BoardInv == BoardTypeOK /\ OnlyLed /\ OkOverWhole /\ ShownOverWhole /\ OkShowsWholeSchedule

\* The rows of an epoch are finitely many.
LEMMA RowsFinite ==
    ASSUME NEW e, NEW states
    PROVE  IsFiniteSet(RowsOf(e, states)) /\ Cardinality(RowsOf(e, states)) \in Nat
<1>1. BoardSlots \in Int /\ 1 \in Int
  BY BoardAssumption
<1>2. IsFiniteSet(1..BoardSlots)
  BY <1>1, FS_Interval
<1>3. RowsOf(e, states) \in SUBSET (1..BoardSlots)
  BY DEF RowsOf
<1>4. IsFiniteSet(RowsOf(e, states))
  BY <1>2, <1>3, FS_Subset
<1> QED
  BY <1>4, FS_CardinalityType

\* Every entered slot of the epoch is in exactly one column.
LEMMA ColumnsAddUp ==
    ASSUME NEW e
    PROVE  Cardinality(RowsOf(e, Entered)) =
             Cardinality(RowsOf(e, {"produced"})) + Cardinality(RowsOf(e, {"missed"}))
               + Cardinality(RowsOf(e, {"pending"}))
<1> DEFINE A == RowsOf(e, {"produced"})
           B == RowsOf(e, {"missed"})
           C == RowsOf(e, {"pending"})
<1>1. /\ RowsOf(e, Entered) = (A \cup B) \cup C
      /\ A \cap B = {} /\ (A \cup B) \cap C = {}
  BY DEF RowsOf, Entered
<1>2. IsFiniteSet(A) /\ IsFiniteSet(B) /\ IsFiniteSet(C)
  BY RowsFinite
<1>3. Cardinality(A) \in Nat /\ Cardinality(B) \in Nat /\ Cardinality(C) \in Nat
  BY RowsFinite
<1> HIDE DEF A, B, C
<1>4. Cardinality({}) = 0
  BY FS_EmptySet
<1>5. /\ IsFiniteSet(A \cup B)
      /\ Cardinality(A \cup B) = Cardinality(A) + Cardinality(B) - Cardinality(A \cap B)
  BY <1>2, FS_Union
<1>6. Cardinality((A \cup B) \cup C) =
        Cardinality(A \cup B) + Cardinality(C) - Cardinality((A \cup B) \cap C)
  BY <1>2, <1>5, FS_Union
<1>7. Cardinality(A \cap B) = 0 /\ Cardinality((A \cup B) \cap C) = 0
  BY <1>1, <1>4
<1>8. Cardinality((A \cup B) \cup C) = Cardinality(A) + Cardinality(B) + Cardinality(C)
  <2>1. \A a, b, c, ab, abc \in Int :
          ab = a + b - 0 /\ abc = ab + c - 0 => abc = a + b + c
    OBVIOUS
  <2>2. Cardinality(A \cup B) \in Nat /\ Cardinality((A \cup B) \cup C) \in Nat
    BY <1>2, FS_Union, FS_CardinalityType
  <2>3. /\ Cardinality(A \cup B) = Cardinality(A) + Cardinality(B) - 0
        /\ Cardinality((A \cup B) \cup C) = Cardinality(A \cup B) + Cardinality(C) - 0
    BY <1>5, <1>6, <1>7
  <2> DEFINE a == Cardinality(A)   b == Cardinality(B)   c == Cardinality(C)
             ab == Cardinality(A \cup B)   abc == Cardinality((A \cup B) \cup C)
  <2>4. a \in Int /\ b \in Int /\ c \in Int /\ ab \in Int /\ abc \in Int
    BY <1>3, <2>2
  <2>5. ab = a + b - 0 /\ abc = ab + c - 0
    BY <2>3
  <2> HIDE DEF a, b, c, ab, abc
  <2>6. abc = a + b + c
    BY <2>1, <2>4, <2>5
  <2> QED
    BY <2>6 DEF a, b, c, abc
<1>9. Cardinality(RowsOf(e, Entered)) = Cardinality(A) + Cardinality(B) + Cardinality(C)
  BY <1>1, <1>8
<1> QED
  BY <1>9 DEF A, B, C

\* No slot is entered, no row ok and no page begun at the start.
LEMMA InitBoardInv == BoardInit => BoardInv
<1> SUFFICES ASSUME BoardInit PROVE BoardInv
  OBVIOUS
<1>1. /\ slotTable = [p \in {ThePool} |-> [s \in 1..BoardSlots |-> "none"]]
      /\ boardStatus = [e \in BoardEpochs |-> "none"]
      /\ reads = "nothing" /\ page = NoPage
  BY DEF BoardInit, Loops!Init, Loops!Slots
<1>2. NoPage \in [epoch : BoardEpochs \cup {0}, counts : Counts,
                  status : {"none", "pending", "ok", "expired"}]
  BY DEF NoPage, NoCounts, Counts
<1>3. BoardTypeOK
  BY <1>1, <1>2 DEF BoardTypeOK, SlotStates
<1>4. OnlyLed /\ OkOverWhole /\ ShownOverWhole /\ OkShowsWholeSchedule
  BY <1>1 DEF OnlyLed, OkOverWhole, ShownOverWhole, OkShowsWholeSchedule
<1> QED
  BY <1>3, <1>4 DEF BoardInv

\* Slots enter the table and settle in it, and none leaves it.
LEMMA LoopsKeepRows ==
    ASSUME BoardInv, LoopsWrite
    PROVE  /\ slotTable' \in [{ThePool} -> [1..BoardSlots -> SlotStates]]
           /\ OnlyLed'
           /\ \A s \in 1..BoardSlots : slotTable[ThePool][s] \in Entered =>
                                       slotTable'[ThePool][s] \in Entered
<1>1. /\ slotTable \in [{ThePool} -> [1..BoardSlots -> SlotStates]]
      /\ \A s \in 1..BoardSlots : slotTable[ThePool][s] # "none" => s \in Leads
  BY DEF BoardInv, BoardTypeOK, OnlyLed
<1> DEFINE Kept == /\ slotTable' \in [{ThePool} -> [1..BoardSlots -> SlotStates]]
                   /\ \A s \in 1..BoardSlots : slotTable'[ThePool][s] # "none" => s \in Leads
                   /\ \A s \in 1..BoardSlots : slotTable[ThePool][s] \in Entered =>
                                               slotTable'[ThePool][s] \in Entered
<1>2. ASSUME Loops!Grow PROVE Kept
  <2>1. slotTable' = slotTable
    BY <1>2 DEF Loops!Grow
  <2> QED
    BY <1>1, <2>1
<1>3. ASSUME NEW e \in BoardEpochs, Loops!Enter(ThePool, e) PROVE Kept
  <2> DEFINE led == { s \in [p \in {ThePool} |-> Leads][ThePool] : BoardEpochOf[s] = e }
  <2>1. slotTable' = [slotTable EXCEPT ![ThePool] =
                        [s \in 1..BoardSlots |-> IF s \in led THEN "pending"
                                                 ELSE slotTable[ThePool][s]]]
    BY <1>3 DEF Loops!Enter, Loops!Slots
  <2>2. \A s \in led : s \in Leads
    OBVIOUS
  <2> HIDE DEF led
  <2>3. \A s \in 1..BoardSlots :
          slotTable'[ThePool][s] = IF s \in led THEN "pending" ELSE slotTable[ThePool][s]
    BY <1>1, <2>1
  <2>4. slotTable' \in [{ThePool} -> [1..BoardSlots -> SlotStates]]
    BY <1>1, <2>1 DEF SlotStates
  <2> QED
    BY <1>1, <2>2, <2>3, <2>4 DEF Entered
<1>4. ASSUME NEW s \in 1..BoardSlots, Loops!Produce(ThePool, s) \/ Loops!Miss(ThePool, s)
      PROVE  Kept
  <2>1. PICK state \in {"produced", "missed"} :
          slotTable' = [slotTable EXCEPT ![ThePool][s] = state]
    BY <1>4 DEF Loops!Produce, Loops!Miss
  <2>2. slotTable[ThePool][s] = "pending"
    BY <1>4 DEF Loops!Produce, Loops!Miss
  <2>3. slotTable' \in [{ThePool} -> [1..BoardSlots -> SlotStates]]
    BY <1>1, <2>1 DEF SlotStates
  <2>4. \A t \in 1..BoardSlots :
          slotTable'[ThePool][t] = IF t = s THEN state ELSE slotTable[ThePool][t]
    BY <1>1, <2>1
  <2> QED
    BY <1>1, <2>2, <2>3, <2>4 DEF Entered
<1>5. \/ Loops!Grow
      \/ \E e \in BoardEpochs : Loops!Enter(ThePool, e)
      \/ \E s \in 1..BoardSlots : Loops!Produce(ThePool, s) \/ Loops!Miss(ThePool, s)
  BY DEF LoopsWrite, Loops!Next, Loops!Slots
<1>6. Kept
  <2> HIDE DEF Kept
  <2> QED
    BY <1>2, <1>3, <1>4, <1>5
<1> QED
  BY <1>6 DEF OnlyLed

\* A table that keeps its rows keeps what is said of whole schedules.
LEMMA RowsStay ==
    ASSUME \A s \in 1..BoardSlots : slotTable[ThePool][s] \in Entered =>
                                    slotTable'[ThePool][s] \in Entered,
           NEW e
    PROVE  RowsOf(e, Entered) \subseteq RowsOf(e, Entered)'
  BY DEF RowsOf

\* Every step keeps the invariant: between the read of a status and the read of
\* the counts the loops only add rows and settle them.
LEMMA StepBoardInv == BoardInv /\ [BoardNext]_boardVars => BoardInv'
<1> SUFFICES ASSUME BoardInv, [BoardNext]_boardVars PROVE BoardInv'
  OBVIOUS
<1> USE DEF tables
<1>a. /\ BoardTypeOK /\ OnlyLed /\ OkOverWhole /\ ShownOverWhole /\ OkShowsWholeSchedule
  BY DEF BoardInv
<1>1. CASE LoopsWrite
  <2>1. /\ slotTable' \in [{ThePool} -> [1..BoardSlots -> SlotStates]] /\ OnlyLed'
        /\ \A s \in 1..BoardSlots : slotTable[ThePool][s] \in Entered =>
                                    slotTable'[ThePool][s] \in Entered
    BY <1>1, LoopsKeepRows
  <2>2. boardStatus' = boardStatus /\ reads' = reads /\ page' = page
    BY <1>1 DEF LoopsWrite
  <2>3. \A e : RowsOf(e, Entered) \subseteq RowsOf(e, Entered)'
    BY <2>1 DEF RowsOf
  <2>4. BoardTypeOK'
    BY <1>a, <2>1, <2>2 DEF BoardTypeOK
  <2>5. OkOverWhole' /\ ShownOverWhole'
    BY <1>a, <2>2, <2>3 DEF OkOverWhole, ShownOverWhole, WholeSchedule
  <2>6. OkShowsWholeSchedule'
    BY <1>a, <2>2 DEF OkShowsWholeSchedule, WholeSchedule
  <2> QED
    BY <2>1, <2>4, <2>5, <2>6 DEF BoardInv
<1>2. ASSUME NEW e \in BoardEpochs, NEW status \in {"pending", "ok", "expired"},
             SetStatus(e, status)
      PROVE  BoardInv'
  <2>1. /\ status = "ok" => WholeSchedule(e) \subseteq RowsOf(e, Entered)
        /\ boardStatus' = [boardStatus EXCEPT ![e] = status]
        /\ slotTable' = slotTable /\ reads' = reads /\ page' = page
    BY <1>2 DEF SetStatus, RowsOf, Entered
  <2>2. BoardTypeOK'
    BY <1>a, <2>1 DEF BoardTypeOK
  <2>3. OkOverWhole'
    BY <1>a, <2>1 DEF BoardTypeOK, OkOverWhole, RowsOf, WholeSchedule
  <2>4. OnlyLed' /\ ShownOverWhole' /\ OkShowsWholeSchedule'
    BY <1>a, <2>1
    DEF OnlyLed, ShownOverWhole, OkShowsWholeSchedule, RowsOf, WholeSchedule
  <2> QED
    BY <2>2, <2>3, <2>4 DEF BoardInv
<1>3. ASSUME NEW e \in BoardEpochs, AskStatus(e) PROVE BoardInv'
  <2>1. /\ reads' = "status" /\ page' = [NoPage EXCEPT !.epoch = e, !.status = StatusShown(e)]
        /\ slotTable' = slotTable /\ boardStatus' = boardStatus
    BY <1>3 DEF AskStatus
  <2>2. StatusShown(e) \in {"none", "pending", "ok", "expired"}
    BY <1>a DEF StatusShown, BoardTypeOK
  <2>3. /\ page' \in [epoch : BoardEpochs \cup {0}, counts : Counts,
                      status : {"none", "pending", "ok", "expired"}]
        /\ page'.epoch = e /\ page'.status = StatusShown(e)
    BY <2>1, <2>2 DEF NoPage, NoCounts, Counts
  <2>4. BoardTypeOK'
    BY <1>a, <2>1, <2>3 DEF BoardTypeOK
  <2>5. ShownOverWhole'
    BY <1>a, <2>1, <2>3 DEF ShownOverWhole, StatusShown, OkOverWhole, RowsOf, WholeSchedule
  <2>6. OnlyLed' /\ OkOverWhole' /\ OkShowsWholeSchedule'
    BY <1>a, <2>1 DEF OnlyLed, OkOverWhole, OkShowsWholeSchedule, RowsOf, WholeSchedule
  <2> QED
    BY <2>4, <2>5, <2>6 DEF BoardInv
<1>4. CASE AskCounts
  <2> DEFINE e == page.epoch
  <2>1. /\ reads = "status" /\ reads' = "counts"
        /\ page' = [page EXCEPT !.counts = CountSlots(e)]
        /\ slotTable' = slotTable /\ boardStatus' = boardStatus
    BY <1>4 DEF AskCounts
  <2>2. CountSlots(e) \in Counts
    BY RowsFinite DEF CountSlots, Counts
  <2>3. /\ page' \in [epoch : BoardEpochs \cup {0}, counts : Counts,
                      status : {"none", "pending", "ok", "expired"}]
        /\ page'.epoch = e /\ page'.status = page.status /\ page'.counts = CountSlots(e)
    BY <1>a, <2>1, <2>2 DEF BoardTypeOK
  <2>4. BoardTypeOK'
    BY <1>a, <2>1, <2>3 DEF BoardTypeOK
  <2>5. page.status = "ok" => RowsOf(e, Entered) = WholeSchedule(e)
    BY <1>a, <2>1 DEF ShownOverWhole, OnlyLed, RowsOf, Entered, WholeSchedule
  <2>6. /\ CountSlots(e).scheduled = Cardinality(RowsOf(e, Entered))
        /\ CountSlots(e).scheduled = CountSlots(e).produced + CountSlots(e).missed
                                       + CountSlots(e).pending
    BY ColumnsAddUp DEF CountSlots, Entered
  <2>7. OkShowsWholeSchedule'
    <3> SUFFICES ASSUME page.status = "ok" PROVE OkShowsWholeSchedule'
      BY <2>3 DEF OkShowsWholeSchedule
    <3>1. CountSlots(e).scheduled = Cardinality(WholeSchedule(e))
      BY <2>5, <2>6
    <3>2. WholeSchedule(page'.epoch) = WholeSchedule(e)
      BY <2>3
    <3> QED
      BY <2>3, <2>6, <3>1, <3>2 DEF OkShowsWholeSchedule, WholeSchedule
  <2>8. OnlyLed' /\ OkOverWhole' /\ ShownOverWhole'
    BY <1>a, <2>1 DEF OnlyLed, OkOverWhole, ShownOverWhole, RowsOf, WholeSchedule
  <2> QED
    BY <2>4, <2>7, <2>8 DEF BoardInv
<1>5. CASE WritePage
  <2>1. reads' = "nothing" /\ page' = NoPage /\ slotTable' = slotTable /\ boardStatus' = boardStatus
    BY <1>5 DEF WritePage
  <2>2. NoPage \in [epoch : BoardEpochs \cup {0}, counts : Counts,
                    status : {"none", "pending", "ok", "expired"}]
    BY DEF NoPage, NoCounts, Counts
  <2>3. BoardTypeOK'
    BY <1>a, <2>1, <2>2 DEF BoardTypeOK
  <2>4. OnlyLed' /\ OkOverWhole' /\ ShownOverWhole' /\ OkShowsWholeSchedule'
    BY <1>a, <2>1
    DEF OnlyLed, OkOverWhole, ShownOverWhole, OkShowsWholeSchedule, RowsOf, WholeSchedule
  <2> QED
    BY <2>3, <2>4 DEF BoardInv
<1>6. CASE UNCHANGED boardVars
  BY <1>a, <1>6
  DEF boardVars, BoardInv, BoardTypeOK, OnlyLed, OkOverWhole, ShownOverWhole,
      OkShowsWholeSchedule, RowsOf, WholeSchedule
<1> QED
  BY <1>1, <1>2, <1>3, <1>4, <1>5, <1>6 DEF BoardNext

\* A page that says a schedule is ok counts all of it, whenever the loops write
\* between its reads, for any chain, epochs and slots.
THEOREM PagesAreWhole == BoardSpec => []OkShowsWholeSchedule
<1>1. BoardInv => OkShowsWholeSchedule
  BY DEF BoardInv
<1> QED
  BY <1>1, InitBoardInv, StepBoardInv, PTL DEF BoardSpec

\* --------------------------------------------------- the earnings estimate

Shown == Params \cup {NoParams}

Copies == [epoch : 0..FeeEpochs, params : Shown, early : BOOLEAN, stage : Stages]

FeeTypeOK ==
    /\ feeEpoch \in 2..FeeEpochs
    /\ latest \in Params
    /\ latestAt \in [FeeEpochSet -> Params]
    /\ feeRows \subseteq 2..feeEpoch
    /\ captured \in [FeeEpochSet -> Shown]
    /\ fetched \in [Writers -> Copies]

\* latestAt follows the registrations; an epoch without one ends as it began.
HistoryKept ==
    /\ latestAt[feeEpoch] = latest
    /\ feeEpoch \notin changed => latest = latestAt[feeEpoch - 1]

\* A copy is of a row; if its parameters were fetched early, they are what the
\* epoch before the row's ended with.
OfRow(h) == h.epoch \in feeRows /\ (h.early => h.params = latestAt[h.epoch - 1])

HeldIsOfRow == \A w \in Writers : Free(w) \/ OfRow(fetched[w])

\* And so is what an early row holds.
EarlyIsOld == \A e \in early : e \in feeRows /\ captured[e] = latestAt[e - 1]

FeeInv == FeeTypeOK /\ HistoryKept /\ HeldIsOfRow /\ EarlyIsOld

\* The daemon starts with no row, long after the only registration.
LEMMA InitFeeInv == FeeInit => FeeInv
<1> SUFFICES ASSUME FeeInit PROVE FeeInv
  OBVIOUS
<1>1. /\ feeEpoch = 2 /\ latest \in Params /\ feeRows = {} /\ early = {} /\ changed = {}
      /\ latestAt = [e \in FeeEpochSet |-> latest]
      /\ captured = [e \in FeeEpochSet |-> NoParams]
      /\ fetched = [w \in Writers |-> NothingHeld]
  BY DEF FeeInit
<1>2. 2 \in 2..FeeEpochs /\ 1 \in FeeEpochSet /\ 2 \in FeeEpochSet
  BY FeeAssumption DEF FeeEpochSet
<1>3. NothingHeld \in Copies /\ NothingHeld.stage = "none"
  BY FeeAssumption DEF NothingHeld, Shown, Copies, Stages
<1>4. FeeTypeOK
  BY <1>1, <1>2, <1>3 DEF FeeTypeOK, Shown
<1>5. HistoryKept /\ HeldIsOfRow /\ EarlyIsOld
  BY <1>1, <1>2, <1>3 DEF HistoryKept, HeldIsOfRow, EarlyIsOld, Free
<1> QED
  BY <1>4, <1>5 DEF FeeInv

\* The rows and their epochs, in the terms the steps need.
LEMMA RowEpochs ==
    ASSUME FeeTypeOK, NEW e \in feeRows
    PROVE  e \in FeeEpochSet /\ e - 1 \in FeeEpochSet /\ e <= feeEpoch
  BY FeeAssumption DEF FeeTypeOK, FeeEpochSet

\* A writer's new copy is of a row, or there is none; the rows themselves stay.
LEMMA CopyKeeps ==
    ASSUME FeeInv, NEW w \in Writers, NEW h \in Copies,
           fetched' = [fetched EXCEPT ![w] = h],
           h.stage # "none" => h.epoch \in feeRows' /\ (h.early => h.params = latestAt[h.epoch - 1]),
           latestAt' = latestAt, feeRows \subseteq feeRows'
    PROVE  fetched' \in [Writers -> Copies] /\ HeldIsOfRow'
<1>1. FeeTypeOK /\ HeldIsOfRow
  BY DEF FeeInv
<1>2. \A v \in Writers : fetched'[v] = IF v = w THEN h ELSE fetched[v]
  BY <1>1 DEF FeeTypeOK
<1>3. fetched' \in [Writers -> Copies]
  BY <1>1 DEF FeeTypeOK
<1>4. ASSUME NEW v \in Writers PROVE Free(v)' \/ OfRow(fetched[v])'
  <2>1. CASE v = w
    BY <1>2, <2>1 DEF Free, OfRow
  <2>2. CASE v # w
    BY <1>1, <1>2, <2>2 DEF HeldIsOfRow, Free, OfRow
  <2> QED
    BY <2>1, <2>2
<1> QED
  BY <1>3, <1>4 DEF HeldIsOfRow

\* Nothing is held by a writer that is done.
LEMMA FreeCopy == NothingHeld \in Copies /\ NothingHeld.stage = "none"
  BY FeeAssumption DEF NothingHeld, Shown, Copies, Stages

\* Steps that leave the rows alone: a row is read, the indexer answers, a writer
\* gives up.  A copy is early only if nothing was registered in its epoch.
LEMMA ReadKeeps ==
    ASSUME FeeInv, NEW w \in Writers,
           (\E e \in FeeEpochSet : ReadRow(w, e)) \/ Fetch(w) \/ DropFees(w)
    PROVE  FeeInv'
<1>1. /\ feeEpoch' = feeEpoch /\ latest' = latest /\ latestAt' = latestAt /\ changed' = changed
      /\ feeRows' = feeRows /\ captured' = captured /\ early' = early
  BY DEF ReadRow, Fetch, DropFees, feeChainVars
<1>2. FeeTypeOK /\ HistoryKept /\ HeldIsOfRow /\ EarlyIsOld
  BY DEF FeeInv
<1>3. fetched' \in [Writers -> Copies] /\ HeldIsOfRow'
  <2>1. ASSUME NEW e \in FeeEpochSet, ReadRow(w, e)
        PROVE  fetched' \in [Writers -> Copies] /\ HeldIsOfRow'
    <3> DEFINE h == [epoch |-> e, params |-> captured[e], early |-> e \in early, stage |-> "read"]
    <3>1. fetched' = [fetched EXCEPT ![w] = h] /\ e \in feeRows
      BY <2>1 DEF ReadRow
    <3>2. h \in Copies
      BY <1>2, <2>1 DEF FeeTypeOK, Copies, Stages, FeeEpochSet
    <3>3. h.epoch \in feeRows' /\ (h.early => h.params = latestAt[h.epoch - 1])
      BY <1>1, <1>2, <3>1 DEF EarlyIsOld
    <3> HIDE DEF h
    <3> QED
      BY <1>1, <3>1, <3>2, <3>3, CopyKeeps
  <2>2. CASE Fetch(w)
    <3> DEFINE g == fetched[w]
               h == [epoch |-> g.epoch, params |-> latest, stage |-> "asked",
                     early |-> g.epoch = feeEpoch /\ g.epoch \notin changed]
    <3>1. fetched' = [fetched EXCEPT ![w] = h] /\ g.stage # "none"
      BY <2>2 DEF Fetch
    <3>2. g \in Copies /\ g.epoch \in feeRows
      BY <1>2, <3>1 DEF FeeTypeOK, HeldIsOfRow, Free, OfRow
    <3> HIDE DEF g
    <3>3. h \in Copies
      BY <1>2, <3>2 DEF FeeTypeOK, Copies, Stages, Shown
    <3>4. h.epoch \in feeRows' /\ (h.early => h.params = latestAt[h.epoch - 1])
      BY <1>1, <1>2, <3>2 DEF HistoryKept
    <3> HIDE DEF h
    <3> QED
      BY <1>1, <3>1, <3>3, <3>4, CopyKeeps
  <2>3. CASE DropFees(w)
    BY <1>1, <2>3, FreeCopy, CopyKeeps DEF DropFees
  <2> QED
    BY <2>1, <2>2, <2>3
<1>4. FeeTypeOK'
  BY <1>1, <1>2, <1>3 DEF FeeTypeOK
<1> QED
  BY <1>1, <1>2, <1>3, <1>4 DEF FeeInv, HistoryKept, EarlyIsOld

\* What a writer saves is early or not; a copy that is not takes an early row out.
LEMMA SaveKeeps ==
    ASSUME FeeInv, NEW h \in Copies, OfRow(h), SaveCopy(h),
           fetched' \in [Writers -> Copies], HeldIsOfRow'
    PROVE  FeeInv'
<1>1. /\ captured' = [captured EXCEPT ![h.epoch] = h.params]
      /\ early' = IF h.early THEN early \cup {h.epoch} ELSE early \ {h.epoch}
      /\ feeEpoch' = feeEpoch /\ latest' = latest /\ latestAt' = latestAt /\ changed' = changed
      /\ feeRows' = feeRows
  BY DEF SaveCopy, feeChainVars
<1>2. FeeTypeOK /\ HistoryKept /\ EarlyIsOld
  BY DEF FeeInv
<1>3. h.epoch \in feeRows /\ (h.early => h.params = latestAt[h.epoch - 1])
  BY DEF OfRow
<1>4. h.epoch \in FeeEpochSet /\ h.params \in Shown
  BY <1>2, <1>3, RowEpochs DEF Copies
<1>5. FeeTypeOK'
  BY <1>1, <1>2, <1>4 DEF FeeTypeOK
<1>6. \A e \in FeeEpochSet : captured'[e] = IF e = h.epoch THEN h.params ELSE captured[e]
  BY <1>1, <1>2 DEF FeeTypeOK
<1>7. EarlyIsOld'
  <2> SUFFICES ASSUME NEW e \in early' PROVE e \in feeRows /\ captured'[e] = latestAt[e - 1]
    BY <1>1 DEF EarlyIsOld
  <2>1. CASE e = h.epoch
    BY <1>1, <1>3, <1>4, <1>6, <2>1
  <2>2. CASE e # h.epoch
    <3>1. e \in feeRows /\ captured[e] = latestAt[e - 1]
      BY <1>1, <1>2, <2>2 DEF EarlyIsOld
    <3>2. e \in FeeEpochSet
      BY <1>2, <3>1, RowEpochs
    <3> QED
      BY <1>6, <2>2, <3>1, <3>2
  <2> QED
    BY <2>1, <2>2
<1> QED
  BY <1>1, <1>2, <1>5, <1>7 DEF FeeInv, HistoryKept

\* A writer ends with a save, or computePool starts with one.
LEMMA WriteKeeps ==
    ASSUME FeeInv, StartRow \/ \E w \in Writers : SaveFees(w)
    PROVE  FeeInv'
<1>1. FeeTypeOK /\ HeldIsOfRow
  BY DEF FeeInv
<1>2. CASE StartRow
  <2> DEFINE g == fetched["compute"]
             h == [g EXCEPT !.stage = "started"]
  <2>1. SaveCopy(g) /\ g.stage = "read" /\ fetched' = [fetched EXCEPT !["compute"] = h]
    BY <1>1, <1>2 DEF StartRow, FeeTypeOK, Writers
  <2>2. "compute" \in Writers /\ g \in Copies /\ OfRow(g)
    BY <1>1, <2>1 DEF FeeTypeOK, HeldIsOfRow, Free, Writers
  <2> HIDE DEF g
  <2>3. h \in Copies /\ h.epoch = g.epoch /\ h.early = g.early /\ h.params = g.params
    BY <2>2 DEF Copies, Stages
  <2> HIDE DEF h
  <2>4. latestAt' = latestAt /\ feeRows' = feeRows
    BY <2>1 DEF SaveCopy, feeChainVars
  <2>5. fetched' \in [Writers -> Copies] /\ HeldIsOfRow'
    BY <2>1, <2>2, <2>3, <2>4, CopyKeeps DEF OfRow
  <2> QED
    BY <2>1, <2>2, <2>5, SaveKeeps
<1>3. ASSUME NEW w \in Writers, SaveFees(w) PROVE FeeInv'
  <2> DEFINE h == fetched[w]
  <2>1. SaveCopy(h) /\ ~Free(w) /\ fetched' = [fetched EXCEPT ![w] = NothingHeld]
    BY <1>3 DEF SaveFees
  <2>2. h \in Copies /\ OfRow(h)
    BY <1>1, <2>1 DEF FeeTypeOK, HeldIsOfRow
  <2> HIDE DEF h
  <2>3. latestAt' = latestAt /\ feeRows' = feeRows
    BY <2>1 DEF SaveCopy, feeChainVars
  <2>4. fetched' \in [Writers -> Copies] /\ HeldIsOfRow'
    BY <2>1, <2>3, FreeCopy, CopyKeeps
  <2> QED
    BY <2>1, <2>2, <2>4, SaveKeeps
<1> QED
  BY <1>2, <1>3

\* A new row is computePool's, and holds no parameters.
LEMMA CreateKeeps == ASSUME FeeInv, CreateRow PROVE FeeInv'
<1> DEFINE h == [NothingHeld EXCEPT !.epoch = feeEpoch, !.stage = "started"]
<1>1. /\ feeRows' = feeRows \cup {feeEpoch} /\ fetched' = [fetched EXCEPT !["compute"] = h]
      /\ feeEpoch' = feeEpoch /\ latest' = latest /\ latestAt' = latestAt
      /\ changed' = changed /\ captured' = captured /\ early' = early
  BY DEF CreateRow, feeChainVars
<1>2. FeeTypeOK /\ HistoryKept /\ EarlyIsOld
  BY DEF FeeInv
<1>3. feeEpoch \in 2..feeEpoch /\ feeEpoch \in 0..FeeEpochs
  BY <1>2, FeeAssumption DEF FeeTypeOK
<1>4. h \in Copies /\ h.epoch = feeEpoch /\ h.early = FALSE /\ "compute" \in Writers
  BY <1>3, FreeCopy DEF NothingHeld, Copies, Stages, Writers
<1> HIDE DEF h
<1>5. fetched' \in [Writers -> Copies] /\ HeldIsOfRow'
  BY <1>1, <1>4, CopyKeeps
<1>6. FeeTypeOK'
  BY <1>1, <1>2, <1>3, <1>5 DEF FeeTypeOK
<1> QED
  BY <1>1, <1>2, <1>5, <1>6 DEF FeeInv, HistoryKept, EarlyIsOld

\* The chain's own steps touch no epoch before the current one.
LEMMA ChainKeepsFees ==
    ASSUME FeeInv, FeeEpochEnds \/ \E params \in Params : RegisterFees(params)
    PROVE  FeeInv'
<1>1. /\ fetched' = fetched /\ feeRows' = feeRows /\ captured' = captured /\ early' = early
  BY DEF FeeEpochEnds, RegisterFees
<1>2. FeeTypeOK /\ HistoryKept /\ HeldIsOfRow /\ EarlyIsOld
  BY DEF FeeInv
<1>3. /\ feeEpoch \in Int /\ feeEpoch >= 2 /\ feeEpoch <= FeeEpochs /\ FeeEpochs \in Int
      /\ feeEpoch \in FeeEpochSet /\ feeEpoch - 1 \in FeeEpochSet
  BY <1>2, FeeAssumption DEF FeeTypeOK, FeeEpochSet
<1>4. /\ FeeTypeOK' /\ HistoryKept'
      /\ \A e \in FeeEpochSet : e < feeEpoch => latestAt'[e] = latestAt[e]
  <2>1. CASE FeeEpochEnds
    <3>1. /\ feeEpoch < FeeEpochs /\ feeEpoch' = feeEpoch + 1 /\ latest' = latest
          /\ latestAt' = [latestAt EXCEPT ![feeEpoch + 1] = latest]
      BY <2>1 DEF FeeEpochEnds
    <3>2. feeEpoch + 1 \in FeeEpochSet
      BY <1>3, <3>1 DEF FeeEpochSet
    <3>3. \A e \in FeeEpochSet : latestAt'[e] = IF e = feeEpoch + 1 THEN latest ELSE latestAt[e]
      BY <1>2, <3>1 DEF FeeTypeOK
    <3>4. HistoryKept'
      BY <1>2, <1>3, <3>1, <3>2, <3>3 DEF HistoryKept
    <3>5. latestAt' \in [FeeEpochSet -> Params]
      BY <1>2, <3>1 DEF FeeTypeOK
    <3>6. feeEpoch' \in 2..FeeEpochs /\ feeRows \subseteq 2..feeEpoch'
      BY <1>2, <1>3, <3>1 DEF FeeTypeOK
    <3>7. FeeTypeOK'
      BY <1>1, <1>2, <3>1, <3>5, <3>6 DEF FeeTypeOK
    <3>8. \A e \in FeeEpochSet : e < feeEpoch => latestAt'[e] = latestAt[e]
      BY <1>3, <3>3 DEF FeeEpochSet
    <3> QED
      BY <3>4, <3>7, <3>8
  <2>2. ASSUME NEW params \in Params, RegisterFees(params)
        PROVE  /\ FeeTypeOK' /\ HistoryKept'
               /\ \A e \in FeeEpochSet : e < feeEpoch => latestAt'[e] = latestAt[e]
    <3>1. /\ feeEpoch' = feeEpoch /\ latest' = params
          /\ latestAt' = [latestAt EXCEPT ![feeEpoch] = params]
          /\ changed' = changed \cup {feeEpoch}
      BY <2>2 DEF RegisterFees
    <3>2. \A e \in FeeEpochSet : latestAt'[e] = IF e = feeEpoch THEN params ELSE latestAt[e]
      BY <1>2, <3>1 DEF FeeTypeOK
    <3>3. HistoryKept'
      BY <1>3, <3>1, <3>2 DEF HistoryKept
    <3>4. FeeTypeOK'
      BY <1>1, <1>2, <3>1 DEF FeeTypeOK
    <3>5. \A e \in FeeEpochSet : e < feeEpoch => latestAt'[e] = latestAt[e]
      BY <1>3, <3>2 DEF FeeEpochSet
    <3> QED
      BY <3>3, <3>4, <3>5
  <2> QED
    BY <2>1, <2>2
<1>5. \A e \in feeRows : latestAt'[e - 1] = latestAt[e - 1]
  <2> SUFFICES ASSUME NEW e \in feeRows PROVE latestAt'[e - 1] = latestAt[e - 1]
    OBVIOUS
  <2>1. e - 1 \in FeeEpochSet /\ e <= feeEpoch /\ e \in FeeEpochSet
    BY <1>2, RowEpochs
  <2>2. e - 1 < feeEpoch
    BY <1>3, <2>1 DEF FeeEpochSet
  <2> QED
    BY <1>4, <2>1, <2>2
<1>6. HeldIsOfRow'
  BY <1>1, <1>2, <1>5 DEF HeldIsOfRow, Free, OfRow
<1>7. EarlyIsOld'
  BY <1>1, <1>2, <1>5 DEF EarlyIsOld
<1> QED
  BY <1>4, <1>6, <1>7 DEF FeeInv

LEMMA StepFeeInv == FeeInv /\ [FeeNext]_feeVars => FeeInv'
<1> SUFFICES ASSUME FeeInv, [FeeNext]_feeVars PROVE FeeInv'
  OBVIOUS
<1>1. CASE CreateRow
  BY <1>1, CreateKeeps
<1>2. CASE FeeEpochEnds \/ \E params \in Params : RegisterFees(params)
  BY <1>2, ChainKeepsFees
<1>3. ASSUME NEW w \in Writers,
             (\E e \in FeeEpochSet : ReadRow(w, e)) \/ Fetch(w) \/ DropFees(w)
      PROVE  FeeInv'
  BY <1>3, ReadKeeps
<1>4. CASE StartRow \/ \E w \in Writers : SaveFees(w)
  BY <1>4, WriteKeeps
<1>5. CASE UNCHANGED feeVars
  BY <1>5
  DEF feeVars, FeeInv, FeeTypeOK, HistoryKept, HeldIsOfRow, OfRow, Free, EarlyIsOld
<1> QED
  BY <1>1, <1>2, <1>3, <1>4, <1>5 DEF FeeNext

\* OwnerTake is what the ledger pays for the same parameters: the fixed cost and
\* the margin, and the owner's share of what they leave.
LEMMA TakeIsPayment ==
    ASSUME NEW p, p.margin \in Nat, p.fixed \in Nat, NEW r \in Nat, NEW share \in Nat
    PROVE  OwnerTake(r, p, share) = LedgerPays(r, p, share)
<1> DEFINE m == p.margin
           f == p.fixed
<1>0. m \in Int /\ f \in Int /\ r \in Int /\ share \in Int
  OBVIOUS
<1>1. CASE r <= f
  <2>1. OperatorTake(r, p) = 100 * r
    BY <1>1 DEF OperatorTake
  <2>2. \A x \in Int : 10 * (100 * x) = 1000 * x /\ 100 * x - 100 * x = 0
    OBVIOUS
  <2>3. 0 * share = 0
    OBVIOUS
  <2>4. OwnerTake(r, p, share) = 10 * (100 * r) + (100 * r - 100 * r) * share
    BY <2>1 DEF OwnerTake
  <2>5. OwnerTake(r, p, share) = 1000 * r + 0
    BY <1>0, <2>2, <2>3, <2>4
  <2> QED
    BY <1>0, <1>1, <2>5 DEF LedgerPays
<1>2. CASE ~(r <= f)
  <2>1. OperatorTake(r, p) = 100 * f + m * (r - f)
    BY <1>2 DEF OperatorTake
  <2>2. OwnerTake(r, p, share) =
          10 * (100 * f + m * (r - f)) + (100 * r - (100 * f + m * (r - f))) * share
    BY <2>1 DEF OwnerTake
  <2>3. LedgerPays(r, p, share) = 1000 * f + (10 * m + (100 - m) * share) * (r - f)
    BY <1>2 DEF LedgerPays
  <2> HIDE DEF m, f
  <2>4. \A a, b \in Int : a * b \in Int
    OBVIOUS
  <2>5. \A a, b, c \in Int : (a + b) * c = a * c + b * c /\ (a - b) * c = a * c - b * c
    OBVIOUS
  <2>6. \A a, b, c \in Int : (a * b) * c = (a * c) * b /\ (a * b) * c = a * (b * c)
    OBVIOUS
  <2> DEFINE d == r - f
             md == m * d
             ds == d * share
             mds == md * share
             ms == m * share
             hundred == 100 - m
             ten == 10 * m
  <2>7. /\ d \in Int /\ md \in Int /\ ds \in Int /\ mds \in Int /\ ms \in Int
        /\ hundred \in Int /\ ten \in Int
    BY <1>0, <2>4
  <2>8. ms * d = mds /\ ten * d = 10 * md
    BY <1>0, <2>6, <2>7
  <2>9. (100 * d) * share = 100 * ds /\ (100 * share) * d = 100 * ds
    BY <1>0, <2>6, <2>7
  <2>10. 100 * r - (100 * f + md) = 100 * d - md
    BY <1>0, <2>7
  <2>11. hundred * share = 100 * share - ms
    BY <1>0, <2>5
  <2>12. OwnerTake(r, p, share) = 10 * (100 * f + md) + (100 * d - md) * share
    BY <2>2, <2>10
  <2>13. LedgerPays(r, p, share) = 1000 * f + (ten + (100 * share - ms)) * d
    BY <2>3, <2>11
  <2> HIDE DEF d, md, ds, mds, ms, ten
  <2> DEFINE hd == 100 * d
             hs == 100 * share
  <2>14. hd \in Int /\ hs \in Int /\ hs - ms \in Int
    BY <1>0, <2>7
  <2>15. hd * share = 100 * ds /\ hs * d = 100 * ds
    BY <2>9
  <2>16. OwnerTake(r, p, share) = 10 * (100 * f + md) + (hd - md) * share
    BY <2>12
  <2>17. LedgerPays(r, p, share) = 1000 * f + (ten + (hs - ms)) * d
    BY <2>13
  <2> HIDE DEF hd, hs
  <2>18. (hd - md) * share = 100 * ds - mds
    <3>1. (hd - md) * share = hd * share - md * share
      BY <1>0, <2>5, <2>7, <2>14
    <3> QED
      BY <2>15, <3>1 DEF mds
  <2>19. (ten + (hs - ms)) * d = 10 * md + (100 * ds - mds)
    <3>1. (ten + (hs - ms)) * d = ten * d + (hs - ms) * d
      BY <2>5, <2>7, <2>14
    <3>2. (hs - ms) * d = hs * d - ms * d
      BY <2>5, <2>7, <2>14
    <3> QED
      BY <2>8, <2>15, <3>1, <3>2
  <2> QED
    BY <1>0, <2>7, <2>16, <2>17, <2>18, <2>19
<1> QED
  BY <1>1, <1>2

\* The dashboard's estimate of an epoch is what the ledger pays, through any
\* number of epochs, re-registrations, recomputes and rewards, if the row two
\* epochs before was captured before a re-registration in its epoch.
THEOREM EstimatesArePayments == FeeSpec => []EstimateAsLedger
<1>1. ASSUME FeeInv PROVE EstimateAsLedger
  <2> SUFFICES ASSUME NEW e \in 4..feeEpoch, HasParams(e - 2), (e - 2) \in early,
                      NEW r \in 0..MaxReward, NEW share \in 0..10
               PROVE  OwnerTake(r, EffectiveFeeParams(e), share)
                        = LedgerPays(r, LedgerParams(e), share)
    BY DEF EstimateAsLedger
  <2>1. FeeTypeOK /\ EarlyIsOld
    BY <1>1 DEF FeeInv
  <2>2. EffectiveFeeParams(e) = captured[e - 2]
    BY DEF EffectiveFeeParams, feeParamLag
  <2>3. captured[e - 2] = latestAt[(e - 2) - 1] /\ (e - 2) - 1 \in FeeEpochSet
    BY <2>1, RowEpochs DEF EarlyIsOld
  <2>4. e \in Int /\ (e - 2) - 1 = e - 3
    BY <2>1, FeeAssumption DEF FeeTypeOK
  <2>5. LedgerParams(e) = captured[e - 2] /\ LedgerParams(e) \in Params
    BY <2>1, <2>3, <2>4 DEF LedgerParams, FeeTypeOK
  <2>6. LedgerParams(e).margin \in Nat /\ LedgerParams(e).fixed \in Nat
    BY <2>5, FeeAssumption
  <2>7. r \in Nat /\ share \in Nat
    BY FeeAssumption
  <2> QED
    BY <2>2, <2>5, <2>6, <2>7, TakeIsPayment
<1> QED
  BY <1>1, InitFeeInv, StepFeeInv, PTL DEF FeeSpec

\* ---------------------------------------------------- the stake snapshots

StakeTypeOK ==
    /\ nodeEpoch \in EpochsOfStake
    /\ delegators \in [EpochsOfStake -> 0..MaxDelegators]
    /\ DOMAIN registered = EpochsOfStake
    /\ DOMAIN stakes = EpochsOfStake
    /\ snapPc \in {"idle", "ensure", "page", "save"}
    /\ snapEpoch \in 1..nodeEpoch
    /\ pageNo \in Nat

\* The latest registration is one of the node's epoch, and of every epoch that
\* began before it was made; the future has no snapshot.
RegisteredSoFar ==
    /\ \A e \in 1..nodeEpoch : owners \in registered[e]
    /\ \A e \in EpochsOfStake : stakes[e] # {} => e <= nodeEpoch

\* The rows of the epoch's first accounts, up to the n-th page.
FirstRows(n) ==
    { StakeRow(a, flags) : a \in { b \in 1..delegators[snapEpoch] : b <= n * PagingCount } }

\* While pages are read the rows are those of the pages; a page that was full
\* shows that the epoch is published.  What is to be saved is whole, or nothing.
RowsInHand ==
    /\ snapPc \in {"page", "save"} => flags \in registered[snapEpoch]
    /\ snapPc = "page" => rows = FirstRows(pageNo) /\ (pageNo > 0 => snapEpoch \in published)
    /\ snapPc = "save" => rows = {} \/ rows = Whole(snapEpoch, flags)
    /\ snapPc = "ensure" => pageNo = 0 /\ rows = {}
    /\ snapPc = "idle" => pageNo = 0 /\ rows = {}

SnapInv == StakeTypeOK /\ RegisteredSoFar /\ RowsInHand /\ SnapshotWhole

\* A page with fewer entries than a full one is the last of the distribution.
LEMMA ShortPageIsLast ==
    ASSUME StakeTypeOK, snapEpoch \in published, ShortPage(Entries(snapEpoch, pageNo + 1))
    PROVE  delegators[snapEpoch] < (pageNo + 1) * PagingCount
<1> DEFINE D == delegators[snapEpoch]
           low == pageNo * PagingCount
           high == (pageNo + 1) * PagingCount
           ent == Entries(snapEpoch, pageNo + 1)
<1>1. D \in Nat /\ pageNo \in Nat /\ PagingCount \in Nat /\ PagingCount > 0
  BY StakeAssumption DEF StakeTypeOK, EpochsOfStake
<1>2. \A m, n \in Nat : m * n \in Nat /\ (m + 1) * n = m * n + n
  OBVIOUS
<1>3. low \in Nat /\ high \in Nat /\ high = low + PagingCount
  BY <1>1, <1>2
<1>4. (pageNo + 1) - 1 = pageNo
  BY <1>1
<1>5. ent = { a \in 1..D : low < a /\ a <= high }
  BY <1>4 DEF Entries
<1>6. Cardinality(ent) < PagingCount
  BY DEF ShortPage
<1> HIDE DEF D, low, high, ent
<1> SUFFICES ASSUME ~(D < high) PROVE FALSE
  BY DEF D, high
<1>7. ent = (low + 1)..high
  BY <1>1, <1>3, <1>5
<1>8. low + 1 \in Int /\ high \in Int /\ low + 1 <= high
  BY <1>1, <1>3
<1>9. Cardinality((low + 1)..high) = IF low + 1 > high THEN 0 ELSE high - (low + 1) + 1
  BY <1>8, FS_Interval
<1>10. Cardinality(ent) = PagingCount
  BY <1>1, <1>3, <1>7, <1>8, <1>9
<1> QED
  BY <1>1, <1>6, <1>10

\* An epoch that is not published has no entries, and the page is short.
LEMMA UnpublishedIsShort ==
    ASSUME snapEpoch \notin published
    PROVE  /\ Entries(snapEpoch, pageNo + 1) = {}
           /\ ShortPage(Entries(snapEpoch, pageNo + 1))
<1>1. Entries(snapEpoch, pageNo + 1) = {}
  BY DEF Entries
<1> QED
  BY <1>1, FS_EmptySet, StakeAssumption DEF ShortPage

\* Nothing is stored at the start.
LEMMA InitSnapInv == StakeInit => SnapInv
<1> SUFFICES ASSUME StakeInit PROVE SnapInv
  OBVIOUS
<1>1. 1 \in EpochsOfStake /\ 1 \in 1..1
  BY StakeAssumption DEF EpochsOfStake
<1>2. StakeTypeOK
  BY <1>1 DEF StakeInit, StakeTypeOK
<1>3. RegisteredSoFar
  <2>1. nodeEpoch = 1 /\ registered[1] = {owners}
    BY <1>1 DEF StakeInit
  <2>2. \A e \in 1..nodeEpoch : e = 1
    BY <2>1
  <2> QED
    BY <2>1, <2>2 DEF StakeInit, RegisteredSoFar
<1>4. RowsInHand /\ SnapshotWhole
  BY DEF StakeInit, RowsInHand, SnapshotWhole
<1> QED
  BY <1>2, <1>3, <1>4 DEF SnapInv

\* One page more: if it is full there may be another, else the rows are whole.
LEMMA PageKeeps == ASSUME SnapInv, ReadPage PROVE SnapInv'
<1> DEFINE ent == Entries(snapEpoch, pageNo + 1)
<1>1. /\ snapPc = "page" /\ rows' = rows \cup { StakeRow(a, flags) : a \in ent }
      /\ pageNo' = pageNo + 1 /\ snapPc' = IF ShortPage(ent) THEN "save" ELSE "page"
      /\ nodeEpoch' = nodeEpoch /\ delegators' = delegators /\ published' = published
      /\ owners' = owners /\ registered' = registered /\ stakes' = stakes
      /\ snapEpoch' = snapEpoch /\ flags' = flags
  BY DEF ReadPage, chainSide
<1>2. StakeTypeOK /\ RegisteredSoFar /\ RowsInHand /\ SnapshotWhole
  BY DEF SnapInv
<1>3. flags \in registered[snapEpoch] /\ rows = FirstRows(pageNo)
      /\ (pageNo > 0 => snapEpoch \in published)
  BY <1>1, <1>2 DEF RowsInHand
<1>4. /\ pageNo \in Nat /\ delegators[snapEpoch] \in Nat
      /\ PagingCount \in Nat /\ PagingCount > 0
  BY <1>2, StakeAssumption DEF StakeTypeOK, EpochsOfStake
<1>5. StakeTypeOK'
  BY <1>1, <1>2, <1>4 DEF StakeTypeOK
<1>6. RegisteredSoFar' /\ SnapshotWhole'
  BY <1>1, <1>2 DEF RegisteredSoFar, SnapshotWhole, Whole
<1>7. CASE snapEpoch \in published
  <2> DEFINE D == delegators[snapEpoch]
             low == pageNo * PagingCount
             high == (pageNo + 1) * PagingCount
  <2>1. \A m, n \in Nat : m * n \in Nat /\ (m + 1) * n = m * n + n
    OBVIOUS
  <2>2. low \in Nat /\ high \in Nat /\ high = low + PagingCount
    BY <1>4, <2>1
  <2>3. (pageNo + 1) - 1 = pageNo
    BY <1>4
  <2>4. ent = { a \in 1..D : low < a /\ a <= high }
    BY <1>7, <2>3 DEF Entries
  <2>5. rows = { StakeRow(a, flags) : a \in { b \in 1..D : b <= low } }
    BY <1>3 DEF FirstRows
  <2> HIDE DEF D, low, high
  <2>6. D \in Nat /\ low <= high
    BY <1>4, <2>2 DEF D
  <2>7. { b \in 1..D : b <= low } \cup ent = { b \in 1..D : b <= high }
    BY <2>2, <2>4, <2>6
  <2> HIDE DEF ent
  <2>8. rows' = { StakeRow(a, flags) : a \in { b \in 1..D : b <= high } }
    BY <1>1, <2>5, <2>7
  <2>9. rows' = FirstRows(pageNo + 1)
    BY <2>8 DEF FirstRows, D, high
  <2>10. CASE ShortPage(ent)
    <3>1. D < high
      BY <1>2, <1>7, <2>10, ShortPageIsLast DEF D, high, ent
    <3>2. { b \in 1..D : b <= high } = 1..D
      BY <2>2, <2>6, <3>1
    <3>3. rows' = Whole(snapEpoch, flags)
      BY <2>8, <3>2 DEF Whole, D
    <3>4. RowsInHand'
      BY <1>1, <1>3, <2>10, <3>3 DEF RowsInHand, Whole
    <3> QED
      BY <1>5, <1>6, <3>4 DEF SnapInv
  <2>11. CASE ~ShortPage(ent)
    <3>1. RowsInHand'
      BY <1>1, <1>3, <1>7, <2>9, <2>11 DEF RowsInHand, FirstRows
    <3> QED
      BY <1>5, <1>6, <3>1 DEF SnapInv
  <2> QED
    BY <2>10, <2>11
<1>8. CASE snapEpoch \notin published
  <2>1. ent = {} /\ ShortPage(ent)
    BY <1>8, UnpublishedIsShort
  <2>2. pageNo = 0
    BY <1>3, <1>4, <1>8
  <2>3. 0 * PagingCount = 0
    BY <1>4
  <2>4. { b \in 1..delegators[snapEpoch] : b <= 0 } = {}
    BY <1>4
  <2>5. rows = {}
    BY <1>3, <2>2, <2>3, <2>4 DEF FirstRows
  <2>6. rows' = {} /\ snapPc' = "save"
    BY <1>1, <2>1, <2>5
  <2>7. RowsInHand'
    BY <1>1, <1>3, <2>6 DEF RowsInHand
  <2> QED
    BY <1>5, <1>6, <2>7 DEF SnapInv
<1> QED
  BY <1>7, <1>8

\* The end of a tick, with or without a snapshot stored.
LEMMA EndKeeps ==
    ASSUME SnapInv, Forget, UNCHANGED chainSide,
           \/ stakes' = stakes
           \/ snapPc = "save" /\ rows # {} /\ ReplaceEpochStakes(snapEpoch, rows)
    PROVE  SnapInv'
<1>1. /\ snapPc' = "idle" /\ snapEpoch' = 1 /\ pageNo' = 0 /\ rows' = {}
      /\ nodeEpoch' = nodeEpoch /\ delegators' = delegators /\ published' = published
      /\ owners' = owners /\ registered' = registered
  BY DEF Forget, chainSide
<1>2. StakeTypeOK /\ RegisteredSoFar /\ RowsInHand /\ SnapshotWhole
  BY DEF SnapInv
<1>3. nodeEpoch \in Nat /\ nodeEpoch >= 1 /\ snapEpoch \in EpochsOfStake
      /\ snapEpoch <= nodeEpoch
  BY <1>2, StakeAssumption DEF StakeTypeOK, EpochsOfStake
<1>4. StakeTypeOK' /\ RegisteredSoFar' /\ SnapshotWhole'
  <2>1. CASE stakes' = stakes
    BY <1>1, <1>2, <1>3, <2>1 DEF StakeTypeOK, RegisteredSoFar, SnapshotWhole, Whole
  <2>2. CASE snapPc = "save" /\ rows # {} /\ ReplaceEpochStakes(snapEpoch, rows)
    <3>1. rows = Whole(snapEpoch, flags) /\ flags \in registered[snapEpoch]
      BY <1>2, <2>2 DEF RowsInHand
    <3>2. /\ DOMAIN stakes' = EpochsOfStake
          /\ \A e \in EpochsOfStake : stakes'[e] = IF e = snapEpoch THEN rows ELSE stakes[e]
      BY <1>2, <2>2 DEF ReplaceEpochStakes, StakeTypeOK
    <3>3. StakeTypeOK'
      BY <1>1, <1>2, <1>3, <3>2 DEF StakeTypeOK
    <3>4. RegisteredSoFar'
      BY <1>1, <1>2, <1>3, <3>2 DEF RegisteredSoFar
    <3>5. SnapshotWhole'
      BY <1>1, <1>2, <1>3, <3>1, <3>2 DEF SnapshotWhole, Whole
    <3> QED
      BY <3>3, <3>4, <3>5
  <2> QED
    BY <2>1, <2>2
<1>5. RowsInHand'
  BY <1>1 DEF RowsInHand
<1> QED
  BY <1>4, <1>5 DEF SnapInv

\* A tick begins, and reads the registration.
LEMMA BeginKeeps == ASSUME SnapInv, ReadEpoch \/ LookUpPool PROVE SnapInv'
<1>1. /\ nodeEpoch' = nodeEpoch /\ delegators' = delegators /\ published' = published
      /\ owners' = owners /\ registered' = registered /\ stakes' = stakes
      /\ pageNo' = pageNo /\ rows' = rows
  BY DEF ReadEpoch, LookUpPool, chainSide
<1>2. StakeTypeOK /\ RegisteredSoFar /\ RowsInHand /\ SnapshotWhole
  BY DEF SnapInv
<1>3. RegisteredSoFar' /\ SnapshotWhole'
  BY <1>1, <1>2 DEF RegisteredSoFar, SnapshotWhole, Whole
<1>4. CASE ReadEpoch
  <2>1. snapPc = "idle" /\ snapPc' = "ensure" /\ snapEpoch' = nodeEpoch
    BY <1>4 DEF ReadEpoch
  <2>2. nodeEpoch \in 1..nodeEpoch
    BY <1>2, StakeAssumption DEF StakeTypeOK, EpochsOfStake
  <2>3. StakeTypeOK'
    BY <1>1, <1>2, <2>1, <2>2 DEF StakeTypeOK
  <2>4. RowsInHand'
    BY <1>1, <1>2, <2>1 DEF RowsInHand
  <2> QED
    BY <1>3, <2>3, <2>4 DEF SnapInv
<1>5. CASE LookUpPool
  <2>1. snapPc = "ensure" /\ snapPc' = "page" /\ snapEpoch' = snapEpoch /\ flags' = owners
    BY <1>5 DEF LookUpPool
  <2>2. pageNo = 0 /\ rows = {} /\ owners \in registered[snapEpoch]
    BY <1>2, <2>1 DEF RowsInHand, RegisteredSoFar, StakeTypeOK
  <2>3. 0 * PagingCount = 0 /\ delegators[snapEpoch] \in Nat
    BY <1>2, StakeAssumption DEF StakeTypeOK, EpochsOfStake
  <2>4. { b \in 1..delegators[snapEpoch] : b <= 0 } = {}
    BY <2>3
  <2>5. rows' = FirstRows(pageNo)'
    BY <1>1, <2>1, <2>2, <2>3, <2>4 DEF FirstRows
  <2>6. RowsInHand'
    BY <1>1, <2>1, <2>2, <2>5 DEF RowsInHand
  <2>7. StakeTypeOK'
    BY <1>1, <1>2, <2>1 DEF StakeTypeOK
  <2> QED
    BY <1>3, <2>6, <2>7 DEF SnapInv
<1> QED
  BY <1>4, <1>5

\* The chain, the indexer and the operator: what was registered stays so.
LEMMA WorldKeeps == ASSUME SnapInv, NextEpoch \/ Publish \/ Reregister PROVE SnapInv'
<1>1. /\ delegators' = delegators /\ stakes' = stakes /\ snapPc' = snapPc
      /\ snapEpoch' = snapEpoch /\ flags' = flags /\ pageNo' = pageNo /\ rows' = rows
  BY DEF NextEpoch, Publish, Reregister
<1>2. StakeTypeOK /\ RegisteredSoFar /\ RowsInHand /\ SnapshotWhole
  BY DEF SnapInv
<1>3. nodeEpoch \in Nat /\ nodeEpoch >= 1 /\ nodeEpoch <= StakeEpochs /\ StakeEpochs \in Nat
      /\ snapEpoch \in Nat /\ snapEpoch >= 1 /\ snapEpoch <= nodeEpoch
  BY <1>2, StakeAssumption DEF StakeTypeOK, EpochsOfStake
<1>4. /\ nodeEpoch' \in EpochsOfStake /\ nodeEpoch <= nodeEpoch'
      /\ DOMAIN registered' = EpochsOfStake
      /\ \A e \in 1..nodeEpoch : registered[e] \subseteq registered'[e]
      /\ \A e \in 1..nodeEpoch' : owners' \in registered'[e]
      /\ published \subseteq published'
  <2>1. CASE NextEpoch
    <3>1. /\ nodeEpoch < StakeEpochs /\ nodeEpoch' = nodeEpoch + 1 /\ owners' = owners
          /\ published' = published
          /\ registered' = [registered EXCEPT ![nodeEpoch + 1] = {owners}]
      BY <2>1 DEF NextEpoch
    <3>2. nodeEpoch + 1 \in EpochsOfStake
      BY <1>3, <3>1 DEF EpochsOfStake
    <3>3. /\ DOMAIN registered' = EpochsOfStake
          /\ \A e \in EpochsOfStake :
               registered'[e] = IF e = nodeEpoch + 1 THEN {owners} ELSE registered[e]
      BY <1>2, <3>1 DEF StakeTypeOK
    <3>4. /\ \A e \in 1..nodeEpoch : e \in EpochsOfStake /\ e # nodeEpoch + 1
          /\ \A e \in 1..(nodeEpoch + 1) :
               e \in EpochsOfStake /\ (e = nodeEpoch + 1 \/ e \in 1..nodeEpoch)
      BY <1>3, <3>1 DEF EpochsOfStake
    <3> QED
      BY <1>2, <1>3, <3>1, <3>2, <3>3, <3>4 DEF RegisteredSoFar
  <2>2. CASE Publish
    BY <1>2, <1>3, <2>2 DEF Publish, StakeTypeOK, RegisteredSoFar
  <2>3. CASE Reregister
    <3>1. /\ nodeEpoch' = nodeEpoch /\ published' = published
          /\ registered' = [e \in EpochsOfStake |->
                              IF e <= nodeEpoch THEN registered[e] \cup {owners'} ELSE {}]
      BY <2>3 DEF Reregister
    <3>2. \A e \in 1..nodeEpoch : e \in EpochsOfStake /\ e <= nodeEpoch
      BY <1>3 DEF EpochsOfStake
    <3> QED
      BY <1>2, <1>3, <3>1, <3>2 DEF StakeTypeOK
  <2> QED
    BY <2>1, <2>2, <2>3
<1>5. nodeEpoch' \in Nat /\ snapEpoch \in 1..nodeEpoch /\ snapEpoch \in 1..nodeEpoch'
  BY <1>3, <1>4, StakeAssumption DEF EpochsOfStake
<1>6. StakeTypeOK'
  BY <1>1, <1>2, <1>4, <1>5 DEF StakeTypeOK
<1>7. RegisteredSoFar'
  BY <1>1, <1>2, <1>3, <1>4, <1>5 DEF RegisteredSoFar, EpochsOfStake
<1>8. RowsInHand'
  BY <1>1, <1>2, <1>4, <1>5 DEF RowsInHand, FirstRows, Whole
<1>9. SnapshotWhole'
  <2>1. \A e \in EpochsOfStake : stakes[e] # {} => e \in 1..nodeEpoch
    BY <1>2, <1>3 DEF RegisteredSoFar, EpochsOfStake
  <2> QED
    BY <1>1, <1>2, <1>4, <2>1 DEF SnapshotWhole, Whole
<1> QED
  BY <1>6, <1>7, <1>8, <1>9 DEF SnapInv

LEMMA StepSnapInv == SnapInv /\ [StakeNext]_stakeVars => SnapInv'
<1> SUFFICES ASSUME SnapInv, [StakeNext]_stakeVars PROVE SnapInv'
  OBVIOUS
<1>1. CASE ReadEpoch \/ LookUpPool
  BY <1>1, BeginKeeps
<1>2. CASE ReadPage
  BY <1>2, PageKeeps
<1>3. CASE AlreadyStored \/ CallFails \/ SnapCrash
  <2>1. Forget /\ UNCHANGED chainSide /\ stakes' = stakes
    BY <1>3 DEF AlreadyStored, CallFails, SnapCrash
  <2> QED
    BY <2>1, EndKeeps
<1>4. CASE StoreStakes
  <2>1. /\ Forget /\ UNCHANGED chainSide
        /\ \/ stakes' = stakes
           \/ snapPc = "save" /\ rows # {} /\ ReplaceEpochStakes(snapEpoch, rows)
    BY <1>4 DEF StoreStakes
  <2> QED
    BY <2>1, EndKeeps
<1>5. CASE NextEpoch \/ Publish \/ Reregister
  BY <1>5, WorldKeeps
<1>6. CASE UNCHANGED stakeVars
  BY <1>6
  DEF stakeVars, SnapInv, StakeTypeOK, RegisteredSoFar, RowsInHand, SnapshotWhole, FirstRows,
      Whole
<1> QED
  BY <1>1, <1>2, <1>3, <1>4, <1>5, <1>6 DEF StakeNext, Snapshotting

\* What is stored of an epoch is its whole distribution under one registration,
\* for any epochs, delegators and page size, and any number of failures,
\* rollovers, re-registrations and crashes between two calls.
THEOREM SnapshotsAreWhole == StakeSpec => []SnapshotWhole
<1>1. SnapInv => SnapshotWhole
  BY DEF SnapInv
<1> QED
  BY <1>1, InitSnapInv, StepSnapInv, PTL DEF StakeSpec

\* What some rows of a whole snapshot add up to is what their accounts stake: the
\* two sums are of the same amounts, account by account.
LEMMA RowsAreStakes ==
    ASSUME NEW e \in EpochsOfStake, delegators[e] \in 0..MaxDelegators, NEW registration,
           NEW accounts, NEW snapshot,
           \A r : r \in snapshot <=> r \in Whole(e, registration) /\ r.account \in accounts
    PROVE  TotalOf(snapshot) = StakeOf(accounts \cap 1..delegators[e])
<1>1. /\ MaxDelegators \in Nat /\ Lovelace \in [1..MaxDelegators -> Nat \ {0}]
      /\ 1..delegators[e] \subseteq Accounts
  BY StakeAssumption DEF Accounts
<1> DEFINE S == accounts \cap 1..delegators[e]
<1>2. ASSUME NEW a \in Accounts
      PROVE  Staked(snapshot, a) = IF a \in S THEN Lovelace[a] ELSE 0
  <2>1. \A r \in snapshot : r.account = a => r = StakeRow(a, registration) /\ a \in S
    BY DEF Whole, StakeRow
  <2>2. a \in S => /\ StakeRow(a, registration) \in snapshot
                   /\ StakeRow(a, registration).account = a
    BY DEF Whole, StakeRow
  <2>3. StakeRow(a, registration).lovelace = Lovelace[a]
    BY DEF StakeRow
  <2> HIDE DEF S
  <2>4. CASE a \in S
    <3>1. \E r \in snapshot : r.account = a
      BY <2>2, <2>4
    <3>2. (CHOOSE r \in snapshot : r.account = a) = StakeRow(a, registration)
      BY <2>1, <3>1
    <3> QED
      BY <2>3, <2>4, <3>1, <3>2 DEF Staked
  <2>5. CASE a \notin S
    BY <2>1, <2>5 DEF Staked
  <2> QED
    BY <2>4, <2>5
<1>3. [a \in Accounts |-> Staked(snapshot, a)]
        = [a \in Accounts |-> IF a \in S THEN Lovelace[a] ELSE 0]
  BY <1>2
<1> QED
  BY <1>3 DEF TotalOf, StakeOf

\* The share the dashboard computes from a stored snapshot is the owner's share
\* of the epoch's whole distribution, whatever accounts the operator lists.
THEOREM SharesAreOfTheWhole == StakeSpec => []ShareOfWhole
<1>1. SnapInv => ShareOfWhole
  <2> SUFFICES ASSUME SnapInv, NEW e \in EpochsOfStake, NEW ownStake \in SUBSET Accounts,
                      stakes[e] # {}
               PROVE  \E registration \in registered[e] :
                        OwnedStakeShare(stakes[e], ownStake) =
                          [owned |-> StakeOf((registration \cup ownStake)
                                               \cap 1..delegators[e]),
                           total |-> StakeOf(1..delegators[e])]
    BY DEF ShareOfWhole
  <2>1. PICK registration \in registered[e] : stakes[e] = Whole(e, registration)
    BY DEF SnapInv, SnapshotWhole
  <2>2. delegators[e] \in 0..MaxDelegators
    BY DEF SnapInv, StakeTypeOK
  <2> DEFINE listed == { r \in stakes[e] : r.poolOwner \/ r.account \in ownStake }
             owned == registration \cup ownStake
  <2>3. \A r : r \in listed <=> r \in Whole(e, registration) /\ r.account \in owned
    <3>1. ASSUME NEW r \in Whole(e, registration)
          PROVE  r.poolOwner <=> r.account \in registration
      <4>1. PICK a \in 1..delegators[e] : r = StakeRow(a, registration)
        BY DEF Whole
      <4>2. r.account = a /\ r.poolOwner = (a \in registration)
        BY <4>1, Zenon DEF StakeRow
      <4> QED
        BY <4>2
    <3> QED
      BY <2>1, <3>1
  <2>4. TotalOf(listed) = StakeOf(owned \cap 1..delegators[e])
    <3> HIDE DEF listed, owned
    <3> QED
      BY <2>2, <2>3, RowsAreStakes
  <2>5. TotalOf(stakes[e]) = StakeOf(1..delegators[e])
    <3> DEFINE all == 1..delegators[e]
    <3>1. \A r : r \in stakes[e] <=> r \in Whole(e, registration) /\ r.account \in all
      BY <2>1 DEF Whole, StakeRow
    <3>2. TotalOf(stakes[e]) = StakeOf(all \cap 1..delegators[e])
      <4> HIDE DEF all
      <4> QED
        BY <2>2, <3>1, RowsAreStakes
    <3>3. all \cap 1..delegators[e] = all
      OBVIOUS
    <3> QED
      BY <3>2, <3>3
  <2> QED
    BY <2>4, <2>5 DEF OwnedStakeShare
<1> QED
  BY <1>1, InitSnapInv, StepSnapInv, PTL DEF StakeSpec

\* --------------------------------------------------------- the price cache

PriceTypeOK ==
    /\ want \in [Requests -> {"idle", "waiting", "answered"}]
    /\ holder \in Requests \cup {NoOne}
    /\ calling \in Nat
    /\ price \in Nat /\ answer \in [Requests -> Nat]
    /\ stampAge \in 0..PriceTTL /\ quoteAge \in Nat
    /\ failing \in BOOLEAN

\* The stamp is put when LBank is asked, and at no other time.
StampIsCall == callAge = stampAge

\* As long as a call is on, the stamp is as old as the call.
CallIsFresh ==
    holder # NoOne =>
        want[holder] = "waiting" /\ calling <= CallLimit /\ stampAge = calling

\* An answer on its way was given while the stamp was fresh, so no call has
\* begun since, and the price is still the one it carries.
AnswerIsFresh ==
    \A r \in Requests : want[r] = "answered" =>
        holder = NoOne /\ stampAge < PriceTTL /\ answer[r] = price

\* Between the calls, a price that the last call brought is as old as the stamp.
QuoteIsFresh ==
    /\ quoteAge > 0 => price # 0
    /\ ~failing /\ holder = NoOne /\ stampAge < PriceTTL => quoteAge <= stampAge

PriceInv == PriceTypeOK /\ StampIsCall /\ CallIsFresh /\ AnswerIsFresh /\ QuoteIsFresh

\* The cache starts empty, with an old stamp.
LEMMA InitPriceInv == PriceInit => PriceInv
<1> SUFFICES ASSUME PriceInit PROVE PriceInv
  OBVIOUS
<1>0. want \in [Requests -> {"idle", "waiting", "answered"}] /\ answer \in [Requests -> Nat]
  BY DEF PriceInit
<1>1. /\ holder = NoOne /\ calling = 0 /\ price = 0 /\ stampAge = PriceTTL
      /\ callAge = PriceTTL /\ quoteAge = 0 /\ failing = FALSE
  BY DEF PriceInit
<1>2. PriceTypeOK
  <2>1. holder \in Requests \cup {NoOne} /\ failing \in BOOLEAN
    BY <1>1
  <2>2. calling \in Nat /\ price \in Nat /\ quoteAge \in Nat /\ stampAge \in 0..PriceTTL
    BY <1>1, TTLAssumption
  <2> QED
    BY <1>0, <2>1, <2>2 DEF PriceTypeOK
<1>3. StampIsCall /\ CallIsFresh
  BY <1>1 DEF StampIsCall, CallIsFresh
<1>4. AnswerIsFresh /\ QuoteIsFresh
  BY <1>1, TTLAssumption DEF PriceInit, AnswerIsFresh, QuoteIsFresh
<1> QED
  BY <1>2, <1>3, <1>4 DEF PriceInv

\* A fresh stamp: the request leaves with the cached price.
LEMMA CachedKeeps == ASSUME PriceInv, NEW r \in Requests, AnswerCached(r) PROVE PriceInv'
<1> USE TTLAssumption, RequestsAssumption DEF PriceInv, AnswerCached, Answer
<1>1. PriceTypeOK' /\ StampIsCall'
  BY DEF PriceTypeOK, StampIsCall
<1>2. CallIsFresh'
  BY DEF CallIsFresh
<1>3. AnswerIsFresh'
  BY DEF PriceTypeOK, AnswerIsFresh
<1>4. QuoteIsFresh'
  BY DEF QuoteIsFresh
<1> QED
  BY <1>1, <1>2, <1>3, <1>4

\* An old stamp: nobody has an answer on its way, and a call begins.
LEMMA AskKeeps == ASSUME PriceInv, NEW r \in Requests, AskLBank(r) PROVE PriceInv'
<1> USE TTLAssumption, RequestsAssumption DEF PriceInv, AskLBank, Stamp
<1>1. PriceTypeOK' /\ StampIsCall'
  BY DEF PriceTypeOK, StampIsCall
<1>2. CallIsFresh'
  BY DEF CallIsFresh
<1>3. AnswerIsFresh'
  BY DEF PriceTypeOK, AnswerIsFresh
<1>4. QuoteIsFresh'
  BY DEF QuoteIsFresh
<1> QED
  BY <1>1, <1>2, <1>3, <1>4

\* The call ends: since it held the mutex, no other answer is on its way.
LEMMA ReturnKeeps == ASSUME PriceInv, NEW r \in Requests, LBankReturns(r) PROVE PriceInv'
<1> USE TTLAssumption, QuotesAssumption, RequestsAssumption
    DEF PriceInv, LBankReturns, Quoted, NoQuote, Answer
<1>1. r # NoOne /\ holder = r
  OBVIOUS
<1>2. PriceTypeOK' /\ StampIsCall'
  <2>1. CASE NoQuote(r)
    BY <2>1 DEF PriceTypeOK, StampIsCall
  <2>2. ASSUME NEW q \in Quotes, Quoted(r, q)
        PROVE  PriceTypeOK' /\ StampIsCall'
    <3>1. q \in Nat
      OBVIOUS
    <3>2. want' \in [Requests -> {"idle", "waiting", "answered"}]
            /\ answer' \in [Requests -> Nat]
      BY <2>2, <3>1 DEF PriceTypeOK
    <3> QED
      BY <2>2, <3>1, <3>2 DEF PriceTypeOK, StampIsCall
  <2> QED
    BY <2>1, <2>2
<1>3. CallIsFresh'
  BY DEF CallIsFresh
<1>4. AnswerIsFresh'
  BY <1>1 DEF PriceTypeOK, CallIsFresh, AnswerIsFresh
<1>5. QuoteIsFresh'
  BY <1>1 DEF PriceTypeOK, QuoteIsFresh
<1> QED
  BY <1>2, <1>3, <1>4, <1>5

\* Requests come and go.
LEMMA VisitKeeps ==
    ASSUME PriceInv, NEW r \in Requests, Arrive(r) \/ Leave(r) PROVE PriceInv'
<1> USE TTLAssumption, RequestsAssumption DEF PriceInv, Arrive, Leave
<1>1. PriceTypeOK' /\ StampIsCall'
  BY DEF PriceTypeOK, StampIsCall
<1>2. CallIsFresh'
  BY DEF PriceTypeOK, CallIsFresh
<1>3. AnswerIsFresh'
  BY DEF PriceTypeOK, AnswerIsFresh
<1>4. QuoteIsFresh'
  BY DEF QuoteIsFresh
<1> QED
  BY <1>1, <1>2, <1>3, <1>4

\* Time: the stamp and the quote grow old together, and a call not over yet
\* has not reached its limit.
LEMMA TickKeeps == ASSUME PriceInv, PriceTick PROVE PriceInv'
<1> USE TTLAssumption DEF PriceInv, PriceTick, Capped
<1>1. PriceTypeOK' /\ StampIsCall'
  BY DEF PriceTypeOK, StampIsCall, TooOld
<1>2. CallIsFresh'
  BY DEF PriceTypeOK, CallIsFresh
<1>3. AnswerIsFresh'
  BY DEF AnswerIsFresh
<1>4. QuoteIsFresh'
  BY DEF PriceTypeOK, QuoteIsFresh, TooOld
<1> QED
  BY <1>1, <1>2, <1>3, <1>4

LEMMA StepPriceInv == PriceInv /\ [PriceNext]_priceVars => PriceInv'
<1> SUFFICES ASSUME PriceInv, [PriceNext]_priceVars
             PROVE  PriceInv'
  OBVIOUS
<1>1. CASE UNCHANGED priceVars
  BY <1>1 DEF priceVars, PriceInv, PriceTypeOK, StampIsCall, CallIsFresh, AnswerIsFresh,
              QuoteIsFresh
<1>2. CASE PriceTick
  BY <1>2, TickKeeps
<1>3. ASSUME NEW r \in Requests, Arrive(r) \/ Serve(r) \/ LBankReturns(r) \/ Leave(r)
      PROVE  PriceInv'
  BY <1>3, VisitKeeps, CachedKeeps, AskKeeps, ReturnKeeps DEF Serve
<1> QED
  BY <1>1, <1>2, <1>3 DEF PriceNext

\* price()'s "don't hammer LBank on every request": however many requests there
\* are, a call begins no earlier than PriceTTL after the one before.
THEOREM AsksAreRare == PriceSpec => AskedOncePerTTL
<1>1. PriceInv /\ [PriceNext]_priceVars
        => [\A r \in Requests : AskLBank(r) => callAge >= PriceTTL]_priceVars
  BY TTLAssumption DEF PriceInv, PriceTypeOK, StampIsCall, AskLBank
<1> QED
  BY InitPriceInv, StepPriceInv, <1>1, PTL DEF PriceSpec, AskedOncePerTTL

\* price()'s "a stale cached value is served while LBank is unreachable", and
\* only then.
THEOREM PricesAreKept == PriceSpec => []PriceKept
<1>1. PriceInv => PriceKept
  BY TTLAssumption DEF PriceInv, PriceTypeOK, AnswerIsFresh, QuoteIsFresh, PriceKept
<1> QED
  BY InitPriceInv, StepPriceInv, <1>1, PTL DEF PriceSpec
=============================================================================
