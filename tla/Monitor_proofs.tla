--------------------------- MODULE Monitor_proofs ---------------------------
(***************************************************************************)
(* What decides the monitor's alerts, proved for any settings: the stall   *)
(* threshold is the documented one, by the parameter of the pass's epoch;  *)
(* the quiet window is the time from its start to its end, and defers an   *)
(* alert for one window at most; a reload of the configuration keeps the   *)
(* pools it should; and the messages of a pass carry all of its alerts,    *)
(* none longer than Telegram takes.                                        *)
(***************************************************************************)
EXTENDS BlockAssessment, QuietHours, ConfigReload, MessageSplit, FiniteSetTheorems, TLAPS

\* ------------------------------------------------------ the stall threshold

BlockTypeOK ==
    /\ epochNow \in BlockEpochs /\ dOf \in [BlockEpochs -> 0..100] /\ stake \in 0..100
    /\ dry \in Nat /\ hasBlock \in BOOLEAN
    /\ asked \in BlockEpochs /\ checkPc \in {"idle", "params", "assess"}

\* A cached parameter is the one of the epoch it is cached for.
CacheTrue == dCache.valid => dCache.value = dOf[dCache.epoch]

\* No lookup has failed before the parameters are asked for.
AskedSoFar == checkPc = "params" => ~lost

\* A pool without a block has not been judged.
NotJudgedYet == ~hasBlock => stall = "skipped"

BlockInv == BlockTypeOK /\ CacheTrue /\ AskedSoFar /\ DecentralisationCurrent /\ NotJudgedYet

\* A whole quotient is exceeded exactly when its multiple is.
LEMMA QuotientExceeded ==
    ASSUME NEW a \in Nat, NEW e \in Nat, e > 0, NEW x \in Nat
    PROVE  x > a \div e <=> x * e > a
<1> DEFINE q == a \div e
           r == a % e
<1>1. q \in Nat /\ r \in Nat /\ r < e /\ a = e * q + r
  OBVIOUS
<1> HIDE DEF q, r
<1>2. ASSUME x > q PROVE x * e > a
  <2>1. PICK y \in Nat : x = q + 1 + y
    <3>1. x - q - 1 \in Nat /\ x = q + 1 + (x - q - 1)
      BY <1>1, <1>2
    <3> QED
      BY <3>1
  <2>2. x * e = e * q + e + y * e
    BY <1>1, <2>1
  <2>3. y * e >= 0
    BY <2>1
  <2> QED
    BY <1>1, <2>2, <2>3
<1>3. ASSUME ~(x > q) PROVE ~(x * e > a)
  <2>1. PICK y \in Nat : q = x + y
    <3>1. q - x \in Nat /\ q = x + (q - x)
      BY <1>1, <1>3
    <3> QED
      BY <3>1
  <2>2. e * q = x * e + y * e /\ y * e >= 0
    BY <1>1, <2>1
  <2>3. x * e \in Int /\ y * e \in Int /\ e * q \in Int
    BY <1>1, <2>1
  <2> QED
    BY <1>1, <2>2, <2>3
<1> QED
  BY <1>2, <1>3 DEF q

\* The network expects no negative number of blocks of a pool.
LEMMA ExpectedNat ==
    ASSUME NEW share \in 0..100, NEW param \in 0..100
    PROVE  Expected(share, param) \in Nat
<1>1. NetworkBlocks \in Nat /\ share \in Nat /\ 100 - param \in Nat
  BY RateAssumption
<1>2. \A m, n \in Nat : m * n \in Nat
  OBVIOUS
<1>3. NetworkBlocks * share \in Nat
  BY <1>1, <1>2
<1> QED
  BY <1>1, <1>2, <1>3 DEF Expected

\* A dry spell longer than K expected gaps.
Exceeds(x, exp) == x * exp > K * EpochTicks * 10000

\* The threshold, without its quotient: the larger of the floor and K expected
\* gaps, and at most the cap.
LEMMA ThresholdFacts ==
    ASSUME NEW share \in 0..100, NEW param \in 0..100, NEW x \in Nat
    PROVE  /\ x > Threshold(share, param) =>
                x > Cap \/ (x > Floor /\ Exceeds(x, Expected(share, param)))
           /\ ~(x > Threshold(share, param)) =>
                x <= Cap /\ (x <= Floor \/ ~Exceeds(x, Expected(share, param)))
<1> DEFINE exp == Expected(share, param)
           gaps == K * EpochTicks * 10000
           raw == IF exp <= 0 THEN Cap ELSE gaps \div exp
           floored == IF raw < Floor THEN Floor ELSE raw
<1>1. exp \in Nat
  BY ExpectedNat
<1>2. gaps \in Nat
  <2>1. K \in Nat /\ EpochTicks \in Nat /\ 10000 \in Nat
    BY RateAssumption, SettingsAssumption
  <2>2. \A m, n \in Nat : m * n \in Nat
    OBVIOUS
  <2> QED
    BY <2>1, <2>2
<1>3. Threshold(share, param) = IF floored > Cap THEN Cap ELSE floored
  BY DEF Threshold
<1>4. Floor \in Nat /\ Cap \in Nat /\ Floor <= Cap
  BY SettingsAssumption
<1> HIDE DEF exp, gaps
<1>5. CASE exp = 0
  <2>1. raw = Cap /\ x * exp = 0
    BY <1>5
  <2>2. Threshold(share, param) = Cap
    BY <1>3, <1>4, <2>1
  <2>3. x * exp <= gaps
    BY <1>2, <2>1
  <2>4. \/ x > Cap
        \/ x <= Cap
    BY <1>4
  <2> QED
    BY <1>2, <1>4, <2>1, <2>2, <2>3, <2>4 DEF exp, gaps, Exceeds
<1>6. CASE exp > 0
  <2>1. x > gaps \div exp <=> x * exp > gaps
    BY <1>1, <1>2, <1>6, QuotientExceeded
  <2> DEFINE q == gaps \div exp
             y == x * exp
  <2>2. q \in Nat /\ raw = q
    BY <1>1, <1>2, <1>6
  <2>3. y \in Int
    BY <1>1
  <2>4. x > q <=> y > gaps
    BY <2>1
  <2> HIDE DEF q, y, raw
  <2>5. /\ x > Threshold(share, param) => x > Cap \/ (x > Floor /\ y > gaps)
        /\ ~(x > Threshold(share, param)) => x <= Cap /\ (x <= Floor \/ y <= gaps)
    BY <1>2, <1>3, <1>4, <2>2, <2>3, <2>4
  <2> QED
    BY <1>2, <2>3, <2>5 DEF y, exp, gaps, Exceeds
<1> QED
  BY <1>1, <1>5, <1>6

\* The pass begins idle, with nothing cached.
LEMMA InitBlockInv == BlockInit => BlockInv
<1> SUFFICES ASSUME BlockInit PROVE BlockInv
  OBVIOUS
<1>1. 0 \in BlockEpochs
  BY LastEpochAssumption DEF BlockEpochs
<1>2. dOf \in [BlockEpochs -> 0..100] /\ stake \in 0..100
  BY ValuesAssumption DEF BlockInit
<1>3. BlockTypeOK
  BY <1>1, <1>2 DEF BlockInit, BlockTypeOK
<1>4. CacheTrue /\ AskedSoFar /\ DecentralisationCurrent /\ NotJudgedYet
  BY DEF BlockInit, CacheTrue, AskedSoFar, DecentralisationCurrent, NotJudgedYet
<1> QED
  BY <1>3, <1>4 DEF BlockInv

\* Every step keeps the invariant: a rollover between the two calls of a pass
\* changes neither the epoch it asked for nor the parameter of that epoch.
LEMMA StepBlockInv == BlockInv /\ [BlockNext]_blockVars => BlockInv'
<1> SUFFICES ASSUME BlockInv, [BlockNext]_blockVars PROVE BlockInv'
  OBVIOUS
<1> USE DEF passVars, worldVars
<1>a. BlockTypeOK /\ CacheTrue /\ AskedSoFar /\ DecentralisationCurrent /\ NotJudgedYet
  BY DEF BlockInv
<1>1. CASE AskEpoch
  <2>1. /\ checkPc = "idle" /\ asked' = epochNow
        /\ \/ Cached(epochNow) /\ d' = dCache.value /\ lost' = FALSE /\ checkPc' = "assess"
           \/ lost' = FALSE /\ checkPc' = "params"
           \/ d' = 0 /\ lost' = TRUE /\ checkPc' = "assess"
        /\ UNCHANGED <<epochNow, dOf, stake, dry, hasBlock, dCache, stall>>
    BY <1>1 DEF AskEpoch, Failed
  <2>2. BlockTypeOK'
    BY <1>a, <2>1 DEF BlockTypeOK
  <2>3. CacheTrue' /\ AskedSoFar' /\ DecentralisationCurrent' /\ NotJudgedYet'
    BY <1>a, <2>1 DEF CacheTrue, AskedSoFar, DecentralisationCurrent, NotJudgedYet, Cached
  <2> QED
    BY <2>2, <2>3 DEF BlockInv
<1>2. CASE AskParams
  <2>1. /\ checkPc = "params" /\ checkPc' = "assess"
        /\ \/ /\ d' = dOf[asked] /\ lost' = lost
              /\ dCache' = [epoch |-> asked, value |-> dOf[asked], valid |-> TRUE]
           \/ d' = 0 /\ lost' = TRUE /\ dCache' = dCache
        /\ UNCHANGED <<epochNow, dOf, stake, dry, hasBlock, asked, stall>>
    BY <1>2 DEF AskParams, Failed
  <2>2. BlockTypeOK'
    BY <1>a, <2>1 DEF BlockTypeOK
  <2>3. CacheTrue'
    BY <1>a, <2>1 DEF CacheTrue
  <2>4. AskedSoFar' /\ DecentralisationCurrent' /\ NotJudgedYet'
    BY <1>a, <2>1 DEF AskedSoFar, DecentralisationCurrent, NotJudgedYet
  <2> QED
    BY <2>2, <2>3, <2>4 DEF BlockInv
<1>3. CASE AssessBlock
  <2>1. /\ checkPc' = "idle" /\ asked' = 0 /\ lost' = FALSE
        /\ stall' = Verdict \/ stall' = stall
        /\ UNCHANGED <<epochNow, dOf, stake, dry, hasBlock, dCache>>
    BY <1>3 DEF AssessBlock
  <2>2. BlockTypeOK'
    BY <1>a, <2>1, LastEpochAssumption DEF BlockTypeOK, BlockEpochs
  <2>3. CacheTrue' /\ AskedSoFar' /\ DecentralisationCurrent' /\ NotJudgedYet'
    BY <1>a, <2>1 DEF CacheTrue, AskedSoFar, DecentralisationCurrent, NotJudgedYet, Verdict
  <2> QED
    BY <2>2, <2>3 DEF BlockInv
<1>4. CASE DryLonger \/ Produce \/ NextEpoch \/ UNCHANGED blockVars
  <2>1. /\ UNCHANGED <<dOf, dCache, checkPc, asked, d, lost, stall>>
        /\ hasBlock' = hasBlock \/ hasBlock' = TRUE
        /\ dry' = dry \/ dry' = dry + 1 \/ dry' = 0
    BY <1>4 DEF DryLonger, Produce, NextEpoch, blockVars
  <2>2. epochNow' \in BlockEpochs /\ stake' \in 0..100
    <3>1. CASE NextEpoch
      <4>1. epochNow < LastEpoch /\ epochNow' = epochNow + 1 /\ stake' \in Stakes
        BY <3>1 DEF NextEpoch
      <4>2. epochNow \in 0..LastEpoch
        BY <1>a DEF BlockTypeOK, BlockEpochs
      <4>3. epochNow' \in 0..LastEpoch
        BY <4>1, <4>2, LastEpochAssumption
      <4>4. stake' \in 0..100
        BY <4>1, ValuesAssumption
      <4> QED
        BY <4>3, <4>4 DEF BlockEpochs
    <3>2. CASE epochNow' = epochNow /\ stake' = stake
      BY <1>a, <3>2 DEF BlockTypeOK
    <3> QED
      BY <1>4, <3>1, <3>2 DEF DryLonger, Produce, blockVars
  <2>3. BlockTypeOK'
    <3>1. dry' \in Nat
      BY <1>a, <2>1 DEF BlockTypeOK
    <3>2. hasBlock' \in BOOLEAN
      BY <1>a, <2>1 DEF BlockTypeOK
    <3> QED
      BY <1>a, <2>1, <2>2, <3>1, <3>2 DEF BlockTypeOK
  <2>4. CacheTrue' /\ AskedSoFar' /\ DecentralisationCurrent' /\ NotJudgedYet'
    BY <1>a, <2>1 DEF CacheTrue, AskedSoFar, DecentralisationCurrent, NotJudgedYet
  <2> QED
    BY <2>3, <2>4 DEF BlockInv
<1> QED
  BY <1>1, <1>2, <1>3, <1>4 DEF BlockNext

\* The verdict of a pass whose lookups came through, when it is a new one.
LEMMA JudgedAsDocumented ==
    ASSUME BlockInv, AssessBlock, ~lost, stall' # stall
    PROVE  LET exp == Expected(stake, dOf[asked]) IN
           /\ stall' = "stalled"   => dry > Cap \/ (dry > Floor /\ dry * exp > K * EpochTicks * 10000)
           /\ stall' = "producing" => dry <= Cap /\ (dry <= Floor \/ dry * exp <= K * EpochTicks * 10000)
           /\ stall' = "skipped"   => exp < MinBlocksEpoch * 10000
<1>1. /\ d = dOf[asked] /\ stall' = Verdict /\ dry \in Nat /\ stake \in 0..100 /\ d \in 0..100
      /\ ~hasBlock => stall = "skipped"
  BY DEF BlockInv, BlockTypeOK, DecentralisationCurrent, NotJudgedYet, AssessBlock
<1>0. stake \in 0..100 /\ d \in 0..100 /\ dry \in Nat
  BY <1>1
<1>2. CASE ~hasBlock \/ ~Monitorable(stake, d)
  <2>1. stall' = "skipped" /\ ~Monitorable(stake, d)
    BY <1>1, <1>2 DEF Verdict
  <2>2. Expected(stake, d) \in Nat /\ MinBlocksEpoch * 10000 \in Nat
    <3>1. MinBlocksEpoch \in Nat
      BY SettingsAssumption
    <3>2. MinBlocksEpoch * 10000 \in Nat
      BY <3>1
    <3>3. Expected(stake, d) \in Nat
      BY <1>0, ExpectedNat
    <3> QED
      BY <3>2, <3>3
  <2>3. Expected(stake, d) < MinBlocksEpoch * 10000
    BY <2>1, <2>2 DEF Monitorable
  <2> QED
    BY <1>1, <2>1, <2>3
<1>3. CASE ~(~hasBlock \/ ~Monitorable(stake, d))
  <2>1. stall' = IF dry > Threshold(stake, d) THEN "stalled" ELSE "producing"
    BY <1>1, <1>3 DEF Verdict
  <2> DEFINE gaps == K * EpochTicks * 10000
             y == dry * Expected(stake, d)
  <2>2. /\ dry > Threshold(stake, d) =>
             dry > Cap \/ (dry > Floor /\ Exceeds(dry, Expected(stake, d)))
        /\ ~(dry > Threshold(stake, d)) =>
             dry <= Cap /\ (dry <= Floor \/ ~Exceeds(dry, Expected(stake, d)))
    BY <1>0, ThresholdFacts
  <2>3. Exceeds(dry, Expected(stake, d)) <=> y > gaps
    BY DEF Exceeds
  <2>4. y \in Int /\ gaps \in Int
    <3>1. Expected(stake, d) \in Nat
      BY <1>0, ExpectedNat
    <3>2. y \in Int
      BY <1>0, <3>1
    <3>3. K \in Int /\ EpochTicks \in Int
      BY RateAssumption, SettingsAssumption
    <3> QED
      BY <3>2, <3>3
  <2> HIDE DEF y, gaps
  <2>5. /\ stall' = "stalled"   => dry > Cap \/ (dry > Floor /\ y > gaps)
        /\ stall' = "producing" => dry <= Cap /\ (dry <= Floor \/ y <= gaps)
        /\ stall' # "skipped"
    BY <2>1, <2>2, <2>3, <2>4
  <2> QED
    BY <1>1, <2>5 DEF y, gaps
<1> QED
  BY <1>2, <1>3

\* The invariant holds throughout.
LEMMA BlockInvariant == BlockSpec => []BlockInv
<1> QED
  BY InitBlockInv, StepBlockInv, PTL DEF BlockSpec

\* The parameter a pass judges by is the one of the epoch it began in, through
\* any number of rollovers, failed calls and cached answers.
THEOREM ParameterOfTheEpoch == BlockSpec => []DecentralisationCurrent
<1>1. BlockInv => DecentralisationCurrent
  BY DEF BlockInv
<1> QED
  BY <1>1, BlockInvariant, PTL

\* A pool is found stalled, producing or not to be monitored exactly as the
\* documented rule says, for any settings, stakes and parameters.
THEOREM StallsAsDocumented == BlockSpec => StallAsDocumented
<1>1. BlockInv =>
        [AssessBlock /\ ~lost /\ stall' # stall =>
         LET exp == Expected(stake, dOf[asked]) IN
         /\ stall' = "stalled"   => dry > Cap \/ (dry > Floor /\ dry * exp > K * EpochTicks * 10000)
         /\ stall' = "producing" => dry <= Cap /\ (dry <= Floor \/ dry * exp <= K * EpochTicks * 10000)
         /\ stall' = "skipped"   => exp < MinBlocksEpoch * 10000]_blockVars
  BY JudgedAsDocumented
<1> QED
  BY <1>1, BlockInvariant, PTL DEF BlockSpec, StallAsDocumented

\* ---------------------------------------------------------- the quiet hours

QuietTypeOK ==
    /\ minute \in Minutes /\ start \in Minutes /\ end \in Minutes
    /\ interval \in 1..Day /\ untilPass \in 0..interval
    /\ deferred \in 0..Day /\ changes \in 0..MaxChanges

\* How far the change of the clock so far may have moved it.
Slip == IF changes = 0 THEN 0 ELSE ClockShift

\* A streak of deferred passes lies in one window: u is the time since that
\* window's start, negative when the clock was put back to before it.  The
\* streak has not lasted longer than that, and its last pass was in the window.
Streak ==
    WindowLength + ClockShift + interval <= Day /\ deferred > 0 =>
        \E u \in (-ClockShift)..(Day - 1) :
            /\ SinceStart = IF u < 0 THEN u + Day ELSE u
            /\ (deferred - 1) * interval + (interval - untilPass) <= u + Slip
            /\ u - (interval - untilPass) < WindowLength + Slip

QuietInv == QuietTypeOK /\ Streak /\ DeferralsEnd

\* The remainder of less than two days.
LEMMA DayRemainder ==
    ASSUME NEW x \in Nat, x < Day + Day
    PROVE  x % Day = IF x < Day THEN x ELSE x - Day
<1> DEFINE q == x \div Day
           r == x % Day
<1>1. Day \in Nat /\ Day > 0
  BY DayAssumption
<1>2. q \in Nat /\ r \in Nat /\ r < Day /\ x = Day * q + r
  BY <1>1
<1> HIDE DEF q, r
<1>3. q = 0 \/ q = 1
  <2> SUFFICES ASSUME ~(q = 0 \/ q = 1) PROVE FALSE
    OBVIOUS
  <2>1. PICK y \in Nat : q = 2 + y
    <3>1. q - 2 \in Nat /\ q = 2 + (q - 2)
      BY <1>2
    <3> QED
      BY <3>1
  <2>2. Day * q = Day + Day + Day * y /\ Day * y >= 0
    BY <1>1, <2>1
  <2>3. Day * y \in Int
    BY <1>1, <2>1
  <2> QED
    BY <1>1, <1>2, <2>2, <2>3
<1>4. CASE q = 0
  BY <1>1, <1>2, <1>4 DEF r
<1>5. CASE q = 1
  BY <1>1, <1>2, <1>5 DEF r
<1> QED
  BY <1>3, <1>4, <1>5

\* The length of the window and the time since its start, without remainders.
LEMMA WindowFacts ==
    ASSUME minute \in Minutes, start \in Minutes, end \in Minutes
    PROVE  /\ WindowLength = IF end < start THEN end + Day - start ELSE end - start
           /\ SinceStart = IF minute < start THEN minute + Day - start ELSE minute - start
           /\ WindowLength \in 0..(Day - 1) /\ SinceStart \in 0..(Day - 1)
<1>1. /\ Day \in Nat /\ Day > 0
      /\ minute \in 0..(Day - 1) /\ start \in 0..(Day - 1) /\ end \in 0..(Day - 1)
  BY DayAssumption DEF Minutes
<1>2. /\ end + Day - start \in Nat /\ end + Day - start < Day + Day
      /\ minute + Day - start \in Nat /\ minute + Day - start < Day + Day
  BY <1>1
<1>3. WindowLength = IF end + Day - start < Day THEN end + Day - start
                     ELSE end + Day - start - Day
  <2> DEFINE x == end + Day - start
  <2>1. x \in Nat /\ x < Day + Day
    BY <1>2
  <2>2. WindowLength = x % Day
    BY DEF WindowLength
  <2> HIDE DEF x
  <2>3. x % Day = IF x < Day THEN x ELSE x - Day
    BY <2>1, DayRemainder
  <2>4. WindowLength = IF x < Day THEN x ELSE x - Day
    BY <2>2, <2>3
  <2> QED
    BY <1>1, <2>4 DEF x
<1>4. SinceStart = IF minute + Day - start < Day THEN minute + Day - start
                   ELSE minute + Day - start - Day
  <2> DEFINE x == minute + Day - start
  <2>1. x \in Nat /\ x < Day + Day
    BY <1>2
  <2>2. SinceStart = x % Day
    BY DEF SinceStart
  <2> HIDE DEF x
  <2>3. x % Day = IF x < Day THEN x ELSE x - Day
    BY <2>1, DayRemainder
  <2>4. SinceStart = IF x < Day THEN x ELSE x - Day
    BY <2>2, <2>3
  <2> QED
    BY <1>1, <2>4 DEF x
<1> QED
  BY <1>1, <1>3, <1>4

\* The clock is in the window when no more time has passed since its start than
\* the window is long.
LEMMA ActiveIsWindow ==
    ASSUME minute \in Minutes, start \in Minutes, end \in Minutes
    PROVE  QuietIsTheWindow
<1>1. /\ Day \in Nat /\ Day > 0
      /\ minute \in 0..(Day - 1) /\ start \in 0..(Day - 1) /\ end \in 0..(Day - 1)
  BY DayAssumption DEF Minutes
<1> QED
  BY <1>1, WindowFacts DEF Active, QuietIsTheWindow

\* The clock moves on by a day at most.
LEMMA ClockMoves ==
    ASSUME QuietTypeOK, NEW k \in 0..Day, minute' = (minute + k) % Day,
           start' = start, end' = end
    PROVE  /\ minute' \in Minutes
           /\ SinceStart' = IF SinceStart + k < Day THEN SinceStart + k
                            ELSE SinceStart + k - Day
           /\ WindowLength' = WindowLength
<1>1. /\ Day \in Nat /\ Day > 0 /\ k \in 0..Day
      /\ minute \in 0..(Day - 1) /\ start \in 0..(Day - 1) /\ end \in 0..(Day - 1)
  BY DayAssumption DEF Minutes, QuietTypeOK
<1>2. minute + k \in Nat /\ minute + k < Day + Day
  BY <1>1
<1>3. minute' = IF minute + k < Day THEN minute + k ELSE minute + k - Day
  <2> DEFINE x == minute + k
  <2>1. x \in Nat /\ x < Day + Day
    BY <1>2
  <2>2. minute' = x % Day
    OBVIOUS
  <2> HIDE DEF x
  <2>3. x % Day = IF x < Day THEN x ELSE x - Day
    BY <2>1, DayRemainder
  <2>4. minute' = IF x < Day THEN x ELSE x - Day
    BY <2>2, <2>3
  <2> QED
    BY <1>1, <2>4 DEF x
<1>4. minute' \in 0..(Day - 1)
  BY <1>1, <1>3
<1>5. SinceStart = IF minute < start THEN minute + Day - start ELSE minute - start
  BY WindowFacts DEF QuietTypeOK
<1>6. SinceStart' = IF minute' < start THEN minute' + Day - start ELSE minute' - start
  <2> DEFINE x == minute' + Day - start
  <2>1. x \in Nat /\ x < Day + Day
    BY <1>1, <1>4
  <2>2. SinceStart' = x % Day
    BY DEF SinceStart
  <2>3. x < Day <=> minute' < start
    BY <1>1, <1>4
  <2>4. x - Day = minute' - start
    BY <1>1, <1>4
  <2> HIDE DEF x
  <2>5. x % Day = IF x < Day THEN x ELSE x - Day
    BY <2>1, DayRemainder
  <2> QED
    BY <2>2, <2>3, <2>4, <2>5 DEF x
<1>7. WindowLength' = WindowLength
  BY DEF WindowLength
<1> QED
  BY <1>1, <1>3, <1>4, <1>5, <1>6, <1>7 DEF Minutes

\* At the start no pass has been deferred.
LEMMA InitQuietInv == QuietInit => QuietInv
<1> SUFFICES ASSUME QuietInit PROVE QuietInv
  OBVIOUS
<1>1. /\ minute \in Minutes /\ start \in Minutes /\ end \in Minutes /\ interval \in 1..Day
      /\ untilPass = 0 /\ deferred = 0 /\ changes = 0
  BY DEF QuietInit
<1>2. Day \in Nat /\ MaxChanges \in Nat /\ ClockShift \in Nat
  BY DayAssumption, ShiftAssumption
<1>3. QuietTypeOK
  BY <1>1, <1>2 DEF QuietTypeOK
<1>4. Streak
  BY <1>1 DEF Streak
<1>5. DeferralsEnd
  <2>1. WindowLength \in 0..(Day - 1)
    BY <1>1, WindowFacts
  <2>2. (deferred - 1) * interval = -interval
    BY <1>1, <1>2
  <2> QED
    BY <1>1, <1>2, <2>1, <2>2 DEF DeferralsEnd
<1> QED
  BY <1>3, <1>4, <1>5 DEF QuietInv

\* A streak within the window that is longer by a pass still fits the window.
LEMMA PassKeeps == ASSUME QuietInv, PassDue PROVE QuietInv'
<1> DEFINE W == WindowLength
           lasted == (deferred - 1) * interval
           short == W + ClockShift + interval <= Day
<1>1. /\ untilPass = 0 /\ untilPass' = interval
      /\ deferred' = IF ~Active THEN 0 ELSE IF deferred < Day THEN deferred + 1 ELSE deferred
      /\ minute' = minute /\ start' = start /\ end' = end /\ interval' = interval
      /\ changes' = changes
  BY DEF PassDue
<1>2. /\ minute \in Minutes /\ start \in Minutes /\ end \in Minutes
      /\ interval \in 1..Day /\ untilPass \in 0..interval
      /\ deferred \in 0..Day /\ changes \in 0..MaxChanges
      /\ Day \in Nat /\ Day > 1 /\ ClockShift \in Nat /\ MaxChanges \in Nat
  BY DayAssumption, ShiftAssumption DEF QuietInv, QuietTypeOK
<1>3. QuietTypeOK'
  BY <1>1, <1>2 DEF QuietTypeOK
<1>4. /\ W \in 0..(Day - 1) /\ SinceStart \in 0..(Day - 1)
      /\ Active <=> SinceStart < W
  BY <1>2, WindowFacts, ActiveIsWindow DEF QuietIsTheWindow
<1>5. WindowLength' = W /\ SinceStart' = SinceStart /\ Slip' = Slip /\ Slip \in 0..ClockShift
  BY <1>1, <1>2 DEF WindowLength, SinceStart, Slip
<1>6. lasted \in Int /\ deferred * interval = lasted + interval
  <2>1. deferred - 1 \in Int /\ interval \in Int
    BY <1>2
  <2>2. deferred * interval = (deferred - 1) * interval + interval
    BY <1>2
  <2>3. (deferred - 1) * interval \in Int
    BY <2>1
  <2> QED
    BY <2>2, <2>3
<1>7. DeferralsEnd <=> (short => lasted < W + ClockShift)
  BY DEF DeferralsEnd
<1>8. deferred' = 0 => Streak' /\ DeferralsEnd'
  <2> SUFFICES ASSUME deferred' = 0 PROVE Streak' /\ DeferralsEnd'
    OBVIOUS
  <2>1. Streak'
    BY DEF Streak
  <2>2. (deferred' - 1) * interval' = -interval
    BY <1>1, <1>2
  <2>3. -interval < W + ClockShift
    BY <1>2, <1>4
  <2> QED
    BY <1>5, <2>1, <2>2, <2>3 DEF DeferralsEnd
<1>9. CASE ~Active
  BY <1>1, <1>3, <1>8, <1>9 DEF QuietInv
<1>10. CASE Active
  <2> DEFINE lasted1 == (deferred' - 1) * interval'
             w == SinceStart
  <2>1. w < W
    BY <1>4, <1>10
  <2>2. deferred > 0 => (lasted1 = lasted + interval \/ lasted1 = lasted)
    <3>1. CASE deferred < Day
      <4>1. deferred' = deferred + 1 /\ interval' = interval
        BY <1>1, <1>10, <3>1
      <4>2. lasted1 = deferred * interval
        BY <1>2, <4>1
      <4> QED
        BY <1>6, <4>2
    <3>2. CASE ~(deferred < Day)
      BY <1>1, <1>10, <3>2
    <3> QED
      BY <3>1, <3>2
  <2>3. deferred = 0 => lasted1 = 0
    <3> SUFFICES ASSUME deferred = 0 PROVE lasted1 = 0
      OBVIOUS
    <3>1. deferred' = 1 /\ interval' = interval
      BY <1>1, <1>2, <1>10
    <3> QED
      BY <1>2, <3>1
  <2>4. short /\ deferred > 0 => lasted + interval <= w + Slip
    <3> SUFFICES ASSUME short, deferred > 0 PROVE lasted + interval <= w + Slip
      OBVIOUS
    <3>1. PICK u \in (-ClockShift)..(Day - 1) :
            /\ w = IF u < 0 THEN u + Day ELSE u
            /\ lasted + (interval - untilPass) <= u + Slip
      BY DEF QuietInv, Streak
    <3> HIDE DEF w, lasted, W
    <3>2. ~(u < 0)
      BY <1>2, <1>4, <2>1, <3>1 DEF w
    <3>3. w = u /\ interval - untilPass = interval
      BY <1>1, <1>2, <3>1, <3>2
    <3> QED
      BY <3>1, <3>3
  <2>5. /\ short' <=> short
        /\ short => lasted1 <= w + Slip
    <3>1. short' <=> short
      BY <1>1, <1>5
    <3>2. short => lasted1 <= w + Slip
      <4> HIDE DEF w, lasted, lasted1, W, short
      <4>1. CASE deferred = 0
        BY <1>2, <1>4, <1>5, <2>3, <4>1 DEF w
      <4>2. CASE deferred > 0
        BY <1>2, <1>4, <1>5, <1>6, <2>2, <2>4, <4>2 DEF w
      <4> QED
        BY <1>2, <4>1, <4>2
    <3> QED
      BY <3>1, <3>2
  <2>6. lasted1 \in Int
    <3>1. deferred' - 1 \in Int /\ interval' \in Int
      BY <1>1, <1>2
    <3> QED
      BY <3>1
  <2>7. DeferralsEnd'
    <3>1. short => lasted1 < W + ClockShift
      <4> HIDE DEF w, lasted1, W, short
      <4> QED
        BY <1>2, <1>4, <1>5, <2>1, <2>5, <2>6 DEF w
    <3>2. DeferralsEnd' <=> (short' => lasted1 < WindowLength' + ClockShift)
      BY DEF DeferralsEnd
    <3> QED
      BY <1>5, <2>5, <3>1, <3>2
  <2>8. Streak'
    <3> SUFFICES ASSUME short
                 PROVE  \E u \in (-ClockShift)..(Day - 1) :
                          /\ SinceStart' = IF u < 0 THEN u + Day ELSE u
                          /\ lasted1 + (interval' - untilPass') <= u + Slip'
                          /\ u - (interval' - untilPass') < WindowLength' + Slip'
      BY <2>5 DEF Streak
    <3>1. w \in (-ClockShift)..(Day - 1) /\ ~(w < 0)
      BY <1>2, <1>4
    <3>2. interval' - untilPass' = 0
      BY <1>1, <1>2
    <3>3. lasted1 + 0 <= w + Slip' /\ w - 0 < WindowLength' + Slip'
      <4> HIDE DEF w, lasted1, W, short
      <4> QED
        BY <1>2, <1>4, <1>5, <2>1, <2>5, <2>6 DEF w, W
    <3> QED
      BY <1>5, <3>1, <3>2, <3>3
  <2> QED
    BY <1>3, <2>7, <2>8 DEF QuietInv
<1> QED
  BY <1>9, <1>10

\* The clock moves between two passes, by a minute or by a change: a streak
\* found in its window is found there again, u1 into it.
LEMMA ClockKeeps ==
    ASSUME QuietInv, QuietTypeOK', WindowLength' = WindowLength, interval' = interval,
           deferred' = deferred,
           WindowLength + ClockShift + interval <= Day /\ deferred > 0 =>
             \E u1 \in (-ClockShift)..(Day - 1) :
               /\ SinceStart' = IF u1 < 0 THEN u1 + Day ELSE u1
               /\ (deferred - 1) * interval + (interval - untilPass') <= u1 + Slip'
               /\ u1 - (interval - untilPass') < WindowLength + Slip'
    PROVE  QuietInv'
<1>1. Streak'
  BY DEF Streak
<1>2. DeferralsEnd'
  BY DEF QuietInv, DeferralsEnd
<1> QED
  BY <1>1, <1>2 DEF QuietInv

\* A minute passes.
LEMMA MinuteKeeps == ASSUME QuietInv, MinutePasses PROVE QuietInv'
<1> DEFINE W == WindowLength
           lasted == (deferred - 1) * interval
           w == SinceStart
<1>1. /\ untilPass > 0 /\ untilPass' = untilPass - 1 /\ minute' = (minute + 1) % Day
      /\ start' = start /\ end' = end /\ interval' = interval
      /\ deferred' = deferred /\ changes' = changes
  BY DEF MinutePasses
<1>2. /\ minute \in Minutes /\ start \in Minutes /\ end \in Minutes
      /\ interval \in 1..Day /\ untilPass \in 0..interval
      /\ deferred \in 0..Day /\ changes \in 0..MaxChanges
      /\ Day \in Nat /\ Day > 1 /\ ClockShift \in Nat /\ MaxChanges \in Nat /\ QuietTypeOK
  BY DayAssumption, ShiftAssumption DEF QuietInv, QuietTypeOK
<1>3. 1 \in 0..Day
  BY <1>2
<1>4. /\ minute' \in Minutes /\ WindowLength' = W
      /\ SinceStart' = IF w + 1 < Day THEN w + 1 ELSE w + 1 - Day
  BY <1>1, <1>2, <1>3, ClockMoves
<1>5. QuietTypeOK'
  <2>1. untilPass' \in 0..interval
    BY <1>1, <1>2
  <2> QED
    BY <1>1, <1>2, <1>4, <2>1 DEF QuietTypeOK
<1>6. Slip' = Slip /\ Slip \in 0..ClockShift
  BY <1>1, <1>2 DEF Slip
<1>7. W \in 0..(Day - 1) /\ w \in 0..(Day - 1)
  BY <1>2, WindowFacts
<1>8. lasted \in Int
  <2>1. deferred - 1 \in Int /\ interval \in Int
    BY <1>2
  <2> QED
    BY <2>1
<1>9. ASSUME W + ClockShift + interval <= Day, deferred > 0
      PROVE  \E u1 \in (-ClockShift)..(Day - 1) :
               /\ SinceStart' = IF u1 < 0 THEN u1 + Day ELSE u1
               /\ lasted + (interval - untilPass') <= u1 + Slip'
               /\ u1 - (interval - untilPass') < W + Slip'
  <2>1. PICK u \in (-ClockShift)..(Day - 1) :
          /\ w = IF u < 0 THEN u + Day ELSE u
          /\ lasted + (interval - untilPass) <= u + Slip
          /\ u - (interval - untilPass) < W + Slip
    BY <1>9 DEF QuietInv, Streak
  <2> HIDE DEF w, lasted, W
  <2> DEFINE v == u + 1
  <2>2. v \in (-ClockShift)..(Day - 1)
    BY <1>1, <1>2, <1>6, <1>7, <1>9, <2>1
  <2>3. SinceStart' = IF v < 0 THEN v + Day ELSE v
    BY <1>2, <1>4, <1>7, <2>1, <2>2
  <2>4. /\ lasted + (interval - untilPass') <= v + Slip'
        /\ v - (interval - untilPass') < W + Slip'
    BY <1>1, <1>2, <1>6, <1>7, <1>8, <2>1
  <2> HIDE DEF v
  <2> QED
    BY <2>2, <2>3, <2>4
<1> QED
  BY <1>1, <1>2, <1>4, <1>5, <1>9, ClockKeeps

\* The one change of the clock moves the streak by ClockShift, which the time
\* outside the window has room for.
LEMMA ChangeKeeps == ASSUME MaxChanges <= 1, QuietInv, ClockChanges PROVE QuietInv'
<1> DEFINE W == WindowLength
           lasted == (deferred - 1) * interval
           w == SinceStart
<1>1. /\ changes < MaxChanges /\ changes' = changes + 1
      /\ \/ minute' = (minute + ClockShift) % Day
         \/ minute' = (minute + Day - ClockShift) % Day
      /\ start' = start /\ end' = end /\ interval' = interval
      /\ untilPass' = untilPass /\ deferred' = deferred
  BY DEF ClockChanges
<1>2. /\ minute \in Minutes /\ start \in Minutes /\ end \in Minutes /\ minute \in Int
      /\ interval \in 1..Day /\ untilPass \in 0..interval
      /\ deferred \in 0..Day /\ changes \in 0..MaxChanges
      /\ Day \in Nat /\ Day > 1 /\ ClockShift \in Nat /\ ClockShift < Day
      /\ MaxChanges \in Nat /\ QuietTypeOK
  BY DayAssumption, ShiftAssumption DEF QuietInv, QuietTypeOK, Minutes
<1>3. PICK k \in {ClockShift, Day - ClockShift} : minute' = (minute + k) % Day
  <2>1. minute + Day - ClockShift = minute + (Day - ClockShift)
    BY <1>2
  <2> QED
    BY <1>1, <2>1
<1>4. k \in 0..Day
  BY <1>2
<1>5. /\ minute' \in Minutes /\ WindowLength' = W
      /\ SinceStart' = IF w + k < Day THEN w + k ELSE w + k - Day
  BY <1>1, <1>2, <1>3, <1>4, ClockMoves
<1>6. changes = 0 /\ changes' = 1 /\ Slip = 0 /\ Slip' = ClockShift
  BY <1>1, <1>2 DEF Slip
<1>7. QuietTypeOK'
  <2>1. changes' \in 0..MaxChanges
    BY <1>1, <1>2
  <2> QED
    BY <1>1, <1>2, <1>5, <2>1 DEF QuietTypeOK
<1>8. W \in 0..(Day - 1) /\ w \in 0..(Day - 1)
  BY <1>2, WindowFacts
<1>9. deferred > 0 => lasted \in Nat
  <2> SUFFICES ASSUME deferred > 0 PROVE lasted \in Nat
    OBVIOUS
  <2>1. deferred - 1 \in Nat /\ interval \in Nat
    BY <1>2
  <2>2. \A m, n \in Nat : m * n \in Nat
    OBVIOUS
  <2> QED
    BY <2>1, <2>2
<1>10. ASSUME W + ClockShift + interval <= Day, deferred > 0
      PROVE  \E u1 \in (-ClockShift)..(Day - 1) :
               /\ SinceStart' = IF u1 < 0 THEN u1 + Day ELSE u1
               /\ lasted + (interval - untilPass') <= u1 + Slip'
               /\ u1 - (interval - untilPass') < W + Slip'
  <2>1. PICK u \in (-ClockShift)..(Day - 1) :
          /\ w = IF u < 0 THEN u + Day ELSE u
          /\ lasted + (interval - untilPass) <= u + Slip
          /\ u - (interval - untilPass) < W + Slip
    BY <1>10 DEF QuietInv, Streak
  <2> HIDE DEF w, lasted, W
  <2>2. u >= 0 /\ w = u
    BY <1>2, <1>6, <1>9, <1>10, <2>1
  <2>3. CASE k = ClockShift
    <3> DEFINE v == u + ClockShift
    <3>1. v \in (-ClockShift)..(Day - 1)
      BY <1>2, <1>6, <1>8, <1>10, <2>1, <2>2
    <3>2. SinceStart' = IF v < 0 THEN v + Day ELSE v
      BY <1>2, <1>5, <2>2, <2>3, <3>1
    <3>3. /\ lasted + (interval - untilPass') <= v + Slip'
          /\ v - (interval - untilPass') < W + Slip'
      BY <1>1, <1>2, <1>6, <1>8, <1>9, <1>10, <2>1
    <3> HIDE DEF v
    <3> QED
      BY <3>1, <3>2, <3>3
  <2>4. CASE k = Day - ClockShift
    <3> DEFINE v == u - ClockShift
    <3>1. v \in (-ClockShift)..(Day - 1)
      BY <1>2, <2>2
    <3>2. SinceStart' = IF v < 0 THEN v + Day ELSE v
      BY <1>2, <1>5, <1>8, <2>2, <2>4
    <3>3. /\ lasted + (interval - untilPass') <= v + Slip'
          /\ v - (interval - untilPass') < W + Slip'
      BY <1>1, <1>2, <1>6, <1>8, <1>9, <1>10, <2>1
    <3> HIDE DEF v
    <3> QED
      BY <3>1, <3>2, <3>3
  <2> QED
    BY <1>3, <2>3, <2>4
<1> QED
  BY <1>1, <1>5, <1>7, <1>10, ClockKeeps

\* The window is taken for the time from its start to its end, over midnight
\* too, on every clock and for every window.
THEOREM WindowIsQuiet == QuietSpec => []QuietIsTheWindow
<1> DEFINE Inv == minute \in Minutes /\ start \in Minutes /\ end \in Minutes
<1>1. QuietInit => Inv
  BY DEF QuietInit
<1>2. Inv /\ [QuietNext]_quietVars => Inv'
  <2> SUFFICES ASSUME Inv, [QuietNext]_quietVars PROVE Inv'
    OBVIOUS
  <2>0. /\ Day \in Nat /\ Day > 0 /\ ClockShift \in Nat /\ ClockShift < Day
        /\ minute \in 0..(Day - 1)
    BY DayAssumption, ShiftAssumption DEF Minutes
  <2>1. CASE MinutePasses \/ ClockChanges
    <3>1. /\ start' = start /\ end' = end
          /\ \/ minute' = (minute + 1) % Day
             \/ minute' = (minute + ClockShift) % Day
             \/ minute' = (minute + Day - ClockShift) % Day
      BY <2>1 DEF MinutePasses, ClockChanges
    <3>2. \A x \in Nat : x % Day \in 0..(Day - 1)
      BY <2>0
    <3>3. minute + 1 \in Nat /\ minute + ClockShift \in Nat /\ minute + Day - ClockShift \in Nat
      BY <2>0
    <3>4. minute' \in 0..(Day - 1)
      BY <3>1, <3>2, <3>3
    <3> QED
      BY <3>1, <3>4 DEF Minutes
  <2>2. CASE PassDue \/ UNCHANGED quietVars
    BY <2>2 DEF PassDue, quietVars
  <2> QED
    BY <2>1, <2>2 DEF QuietNext
<1>3. Inv => QuietIsTheWindow
  BY ActiveIsWindow
<1> QED
  BY <1>1, <1>2, <1>3, PTL DEF QuietSpec

\* A persisting alert is deferred through one window at most, when the time
\* outside it is as long as the interval between the passes, whatever the
\* window, the interval and the length of a day.  A streak is shorter than a
\* day, so it meets one change of the clock at most.
THEOREM DeferredOnce == ASSUME MaxChanges <= 1 PROVE QuietSpec => []DeferralsEnd
<1>1. QuietInv /\ [QuietNext]_quietVars => QuietInv'
  <2> SUFFICES ASSUME QuietInv, [QuietNext]_quietVars PROVE QuietInv'
    OBVIOUS
  <2>1. CASE UNCHANGED quietVars
    BY <2>1 DEF quietVars, QuietInv, QuietTypeOK, Streak, DeferralsEnd, WindowLength,
                SinceStart, Slip
  <2> QED
    BY <2>1, PassKeeps, MinuteKeeps, ChangeKeeps DEF QuietNext
<1>2. QuietInv => DeferralsEnd
  BY DEF QuietInv
<1> QED
  BY <1>1, <1>2, InitQuietInv, PTL DEF QuietSpec

\* -------------------------------------------------- the configuration's reload

\* What a file adds to the merge.
Entries(f) == { Entry(f, p) : p \in file[f].pools }

\* A file the reload has passed, and that was not edited since, is in the merge.
PassedMerged ==
    \A f \in steady : f < next =>
        Entries(f) \subseteq merged /\ (file[f].address => address)

ReloadInv ==
    /\ next \in 0..(NFiles + 1)
    /\ steady \subseteq Files
    /\ PassedMerged
    /\ PoolsNeverEmptied

\* A broken file adds nothing, so that skipping it leaves out nothing.
LEMMA BrokenAddsNothing ==
    ASSUME NEW f, file[f] = Broken
    PROVE  Entries(f) = {} /\ ~file[f].address
  BY DEF Entries, Broken

\* Before the first reload nothing is promised.
LEMMA InitReloadInv == ConfigInit => ReloadInv
  BY ConfigAssumption DEF ConfigInit, ReloadInv, PassedMerged, PoolsNeverEmptied

\* Each step of a reload, and each edit, keeps the invariant.
LEMMA StepReloadInv == ReloadInv /\ [ConfigNext]_configVars => ReloadInv'
<1> SUFFICES ASSUME ReloadInv, [ConfigNext]_configVars
             PROVE  ReloadInv'
  OBVIOUS
<1>0. NFiles \in Nat \ {0}
  BY ConfigAssumption
<1>1. CASE BeginReload
  <2>1. next' \in 0..(NFiles + 1) /\ steady' \subseteq Files
    BY <1>0, <1>1 DEF BeginReload
  <2>2. PassedMerged'
    BY <1>0, <1>1 DEF BeginReload, PassedMerged, Files
  <2>3. PoolsNeverEmptied'
    BY <1>1 DEF BeginReload, ReloadInv, PoolsNeverEmptied
  <2> QED
    BY <2>1, <2>2, <2>3 DEF ReloadInv
<1>2. CASE LoadFile
  <2>1. next' \in 0..(NFiles + 1) /\ steady' \subseteq Files
    BY <1>0, <1>2 DEF LoadFile, Files, ReloadInv
  <2>2. PassedMerged'
    <3> SUFFICES ASSUME NEW f \in steady, f < next + 1
                 PROVE  Entries(f) \subseteq merged' /\ (file[f].address => address')
      BY <1>2 DEF LoadFile, PassedMerged, Entries
    <3>1. f \in Files /\ next \in Files
      BY <1>2 DEF LoadFile, ReloadInv
    <3>2. merged \subseteq merged' /\ (address => address')
      BY <1>2 DEF LoadFile
    <3>3. CASE f < next
      BY <3>2, <3>3 DEF ReloadInv, PassedMerged
    <3>4. CASE f = next /\ file[f] = Broken
      BY <3>4, BrokenAddsNothing
    <3>5. CASE f = next /\ file[f] # Broken
      BY <1>2, <3>5 DEF LoadFile, Entries
    <3> QED
      BY <1>0, <3>1, <3>3, <3>4, <3>5 DEF Files
  <2>3. PoolsNeverEmptied'
    BY <1>2 DEF LoadFile, ReloadInv, PoolsNeverEmptied
  <2> QED
    BY <2>1, <2>2, <2>3 DEF ReloadInv
<1>3. CASE EndReload
  <2>1. next' \in 0..(NFiles + 1) /\ steady' \subseteq Files /\ PassedMerged'
    BY <1>0, <1>3 DEF EndReload, PassedMerged
  <2>2. PoolsNeverEmptied'
    BY <1>3 DEF EndReload, Usable, Restricted, ReloadInv, PoolsNeverEmptied
  <2> QED
    BY <2>1, <2>2 DEF ReloadInv
<1>4. ASSUME NEW f \in Files, NEW content \in Content, Edit(f, content)
      PROVE  ReloadInv'
  <2>1. next' \in 0..(NFiles + 1) /\ steady' \subseteq Files
    BY <1>4 DEF Edit, ReloadInv
  <2>2. PassedMerged'
    <3> SUFFICES ASSUME NEW g \in steady, g # f, g < next
                 PROVE  Entries(g)' \subseteq merged /\ (file'[g].address => address)
      BY <1>4 DEF Edit, PassedMerged
    <3>1. file'[g] = file[g]
      BY <1>4 DEF Edit
    <3> QED
      BY <3>1 DEF ReloadInv, PassedMerged, Entries
  <2>3. PoolsNeverEmptied'
    BY <1>4 DEF Edit, ReloadInv, PoolsNeverEmptied
  <2> QED
    BY <2>1, <2>2, <2>3 DEF ReloadInv
<1>5. CASE UNCHANGED configVars
  BY <1>5 DEF configVars, ReloadInv, PassedMerged, Entries, PoolsNeverEmptied
<1> QED
  BY <1>1, <1>2, <1>3, <1>4, <1>5 DEF ConfigNext, Reload

\* At its end a reload has passed every file, and replaces the list only by
\* entries that include those of the files nobody touched.
LEMMA EndListsSteady ==
    ASSUME ReloadInv, EndReload, NEW g \in steady, file[g].address, NEW f \in steady
    PROVE  Restricted(Entries(f)) \subseteq pools'
<1>1. f < next /\ g < next
  BY ConfigAssumption DEF ReloadInv, EndReload, Files
<1>2. Entries(f) \subseteq merged /\ address
  BY <1>1 DEF ReloadInv, PassedMerged
<1>3. CASE Entries(f) = {}
  BY <1>3 DEF Restricted
<1>4. CASE Entries(f) # {}
  <2>1. pools' = Restricted(merged)
    BY <1>2, <1>4 DEF EndReload, Usable
  <2> QED
    BY <1>2, <2>1 DEF Restricted
<1> QED
  BY <1>3, <1>4

\* reloadConfig's "never empties the dashboard": no error, whatever the files
\* hold and whenever they are edited, leaves a daemon without pools.
THEOREM NeverEmptied == ConfigSpec => []PoolsNeverEmptied
<1>1. ReloadInv => PoolsNeverEmptied
  BY DEF ReloadInv
<1> QED
  BY InitReloadInv, StepReloadInv, <1>1, PTL DEF ConfigSpec

\* LoadAllConfigs' "one malformed operator file can never take the whole
\* monitor down": the pools of the files nobody touched are listed.
THEOREM SteadyListed == ConfigSpec => SteadyFilesListed
<1>1. ReloadInv /\ [ConfigNext]_configVars =>
        [EndReload /\ (\E f \in steady : file[f].address) =>
           \A f \in steady :
              Restricted({ Entry(f, p) : p \in file[f].pools }) \subseteq pools']_configVars
  BY EndListsSteady DEF Entries
<1> QED
  BY InitReloadInv, StepReloadInv, <1>1, PTL DEF ConfigSpec, SteadyFilesListed
\* ------------------------------------------------------- the messages of a pass

Chunk == [first : Nat, last : Nat]

SplitTypeOK ==
    /\ splitPc \in {"assess", "split", "send"}
    /\ marks \in Seq(Nat) /\ index \in Nat
    /\ open \in [first : Nat, size : Nat]
    /\ chunks \in Seq(Chunk) /\ sent \in Seq(Int)

\* Each alert ends behind the one before it, its separator between them.
MarksAscend == \A i \in 1..Total : Mark(i - 1) + SepBytes <= Mark(i)

\* The chunks follow each other from the first alert on.
Follows(c, j) == c.first = IF j = 1 THEN 1 ELSE chunks[j - 1].last + 1

\* A closed chunk has alerts, fits unless it has only one, and had no room for
\* the alert after it.
Closed(c) ==
    /\ c.first <= c.last
    /\ Reserve + Bytes(c.first, c.last) <= MaxBytes \/ c.first = c.last

CutInTime(c) == c.last < Total /\ Reserve + Bytes(c.first, c.last + 1) > MaxBytes

ChunksInOrder ==
    \A j \in 1..Len(chunks) :
        /\ Follows(chunks[j], j) /\ Closed(chunks[j])
        /\ j <= chunks[j].last /\ chunks[j].last <= Total
        /\ j < Len(chunks) \/ splitPc = "split" => CutInTime(chunks[j])

\* The loop of splitAlerts: the open chunk starts where the last one ended, and
\* its size is the longest header's and its alerts'.
OpenChunk ==
    splitPc = "split" =>
        /\ Total > 0 /\ sent = <<>>
        /\ Follows(open, Len(chunks) + 1)
        /\ open.first <= index /\ index <= Total + 1 /\ open.first <= Total
        /\ index = open.first => index = 1
        /\ index > open.first => Closed([first |-> open.first, last |-> index - 1])
        /\ open.size = Reserve + Bytes(open.first, index - 1)

\* What is sent are the messages of the chunks, one after the other.
SentInOrder ==
    splitPc = "send" =>
        /\ chunks # <<>> /\ chunks[Len(chunks)].last = Total
        /\ Len(sent) <= Len(chunks)
        /\ \A j \in 1..Len(sent) : sent[j] = MessageLength(chunks[j], j, Len(chunks))

Assessing == splitPc = "assess" => chunks = <<>> /\ sent = <<>>

SplitInv ==
    SplitTypeOK /\ MarksAscend /\ ChunksInOrder /\ OpenChunk /\ SentInOrder /\ Assessing

\* A larger number has no fewer digits.
LEMMA DigitsGrow ==
    ASSUME NEW m \in Nat, NEW n \in Nat, m <= n
    PROVE  Digits(m) \in Nat /\ Digits(n) \in Nat /\ Digits(m) <= Digits(n)
<1> DEFINE D(k) == { i \in 0..k : Base^i \in 1..k }
<1>1. ASSUME NEW k \in Nat PROVE IsFiniteSet(D(k)) /\ Cardinality(D(k)) \in Nat
  <2>1. IsFiniteSet(0..k)
    BY FS_Interval
  <2>2. D(k) \in SUBSET (0..k)
    OBVIOUS
  <2>3. IsFiniteSet(D(k))
    BY <2>1, <2>2, FS_Subset
  <2> QED
    BY <2>3, FS_CardinalityType
<1>2. D(m) \subseteq D(n)
  <2>1. 0..m \subseteq 0..n /\ 1..m \subseteq 1..n
    OBVIOUS
  <2> QED
    BY <2>1
<1>3. Cardinality(D(m)) <= Cardinality(D(n))
  BY <1>1, <1>2, FS_Subset
<1>4. Digits(m) = Cardinality(D(m)) /\ Digits(n) = Cardinality(D(n))
  BY DEF Digits
<1> QED
  BY <1>1, <1>3, <1>4

\* The header reserved is the longest a message of several alerts can get.
LEMMA ReserveIsLongest ==
    ASSUME SplitTypeOK, Total > 0, NEW part \in 1..Total, NEW parts \in 1..Total
    PROVE  /\ Reserve \in Nat /\ HeaderLength(Total, part, parts) \in Nat
           /\ Total # 1 => HeaderLength(Total, part, parts) <= Reserve
<1>1. Total \in Nat /\ part \in Nat /\ parts \in Nat /\ part <= Total /\ parts <= Total
  BY DEF SplitTypeOK, Total
<1>2. /\ Digits(part) \in Nat /\ Digits(parts) \in Nat /\ Digits(Total) \in Nat
      /\ Digits(part) <= Digits(Total) /\ Digits(parts) <= Digits(Total)
  BY <1>1, DigitsGrow
<1>3. CountText \in Nat /\ PartsText \in Nat /\ CountText <= PartsText
  BY LengthAssumption
<1> QED
  BY <1>1, <1>2, <1>3 DEF Reserve, HeaderLength

\* The mark in front of an alert and the one behind it.
LEMMA MarkFacts ==
    ASSUME SplitTypeOK, MarksAscend
    PROVE  /\ Total \in Nat /\ SepBytes \in Nat
           /\ \A i \in 0..Total : Mark(i) \in Nat
           /\ \A i \in 1..Total : Bytes(i, i) \in Nat /\ Bytes(i, i - 1) = 0
<1>1. Total \in Nat /\ SepBytes \in Nat
  BY LengthAssumption DEF SplitTypeOK, Total
<1>2. ASSUME NEW i \in 0..Total PROVE Mark(i) \in Nat
  BY <1>1 DEF SplitTypeOK, Total, Mark
<1>3. ASSUME NEW i \in 1..Total PROVE Bytes(i, i) \in Nat /\ Bytes(i, i - 1) = 0
  <2>1. i \in 0..Total /\ i - 1 \in 0..Total
    BY <1>1
  <2>2. Mark(i) \in Nat /\ Mark(i - 1) \in Nat /\ Mark(i - 1) + SepBytes <= Mark(i)
    BY <1>2, <2>1 DEF MarksAscend
  <2> QED
    BY <1>1, <2>2 DEF Bytes
<1> QED
  BY <1>1, <1>2, <1>3

\* The batch grows by an alert while the pass assesses; nothing is cut yet.
LEMMA NotifyKeeps ==
    ASSUME SplitInv, NEW length \in TextLengths, Notify(length)
    PROVE  SplitInv'
<1>1. /\ splitPc = "assess" /\ chunks = <<>> /\ sent = <<>>
      /\ marks' = Append(marks, Mark(Total) + SepBytes + length)
      /\ UNCHANGED <<splitPc, index, open, chunks, sent>>
  BY DEF Notify, SplitInv, Assessing
<1>2. /\ SplitTypeOK /\ Total \in Nat /\ SepBytes \in Nat /\ length \in Nat
      /\ \A i \in 0..Total : Mark(i) \in Nat
  BY MarkFacts, LengthAssumption DEF SplitInv
<1>3. Mark(Total) \in Nat /\ Mark(Total) + SepBytes + length \in Nat
  BY <1>2
<1>4. SplitTypeOK'
  BY <1>1, <1>2, <1>3 DEF SplitTypeOK
<1> PICK n \in Nat : n = Total
  BY <1>2
<1>5. /\ Total' = n + 1 /\ Mark(n + 1)' = Mark(n) + SepBytes + length
      /\ \A i \in 0..n : Mark(i)' = Mark(i)
  <2>1. /\ Len(marks') = n + 1 /\ marks'[n + 1] = Mark(n) + SepBytes + length
        /\ \A i \in 1..n : marks'[i] = marks[i]
    BY <1>1, <1>3 DEF SplitTypeOK, Total
  <2> QED
    BY <2>1 DEF Total, Mark
<1>6. MarksAscend'
  <2> SUFFICES ASSUME NEW i \in 1..(n + 1)
               PROVE  Mark(i - 1)' + SepBytes <= Mark(i)'
    BY <1>5 DEF MarksAscend
  <2>1. CASE i = n + 1
    <3>1. i - 1 = n /\ n \in 0..n
      BY <2>1
    <3>2. Mark(i - 1)' = Mark(n)
      BY <1>5, <3>1
    <3> QED
      BY <1>2, <1>3, <1>5, <2>1, <3>2
  <2>2. CASE i # n + 1
    <3>1. i \in 0..n /\ i - 1 \in 0..n /\ i \in 1..Total
      BY <2>2
    <3>2. Mark(i - 1)' = Mark(i - 1) /\ Mark(i)' = Mark(i)
      BY <1>5, <3>1
    <3> QED
      BY <3>1, <3>2 DEF SplitInv, MarksAscend, Total
  <2> QED
    BY <2>1, <2>2
<1>7. ChunksInOrder' /\ OpenChunk' /\ SentInOrder' /\ Assessing'
  BY <1>1 DEF ChunksInOrder, OpenChunk, SentInOrder, Assessing
<1> QED
  BY <1>4, <1>6, <1>7 DEF SplitInv

\* The loop of splitAlerts starts with an empty chunk.
LEMMA FlushBatchKeeps == ASSUME SplitInv, FlushBatch PROVE SplitInv'
<1>1. /\ splitPc = "assess" /\ chunks = <<>> /\ sent = <<>> /\ Total > 0
      /\ splitPc' = "split" /\ index' = 1 /\ open' = [first |-> 1, size |-> Reserve]
      /\ UNCHANGED <<marks, chunks, sent>>
  BY DEF FlushBatch, SplitInv, Assessing
<1>2. SplitTypeOK /\ MarksAscend /\ Total \in Nat /\ Bytes(1, 0) = 0
  <2>1. SplitTypeOK /\ MarksAscend
    BY DEF SplitInv
  <2>2. Total \in Nat /\ Bytes(1, 1 - 1) = 0
    BY <1>1, <2>1, MarkFacts
  <2> QED
    BY <2>1, <2>2
<1>3. Reserve \in Nat
  <2>1. Total \in 1..Total
    BY <1>1, <1>2
  <2> QED
    BY <1>1, <1>2, <2>1, ReserveIsLongest
<1>4. SplitTypeOK'
  BY <1>1, <1>2, <1>3 DEF SplitTypeOK
<1>5. MarksAscend' /\ Total' = Total /\ Reserve' = Reserve /\ Bytes(1, 0)' = Bytes(1, 0)
  BY <1>1, <1>2
  DEF MarksAscend, Total, Mark, Reserve, HeaderLength, Bytes
<1>6. ChunksInOrder'
  BY <1>1 DEF ChunksInOrder
<1>7. OpenChunk'
  <2>1. /\ open'.first = 1 /\ open'.size = Reserve /\ Len(chunks') = 0
        /\ index' = 1 /\ sent' = <<>> /\ Total' > 0 /\ Total' \in Nat
    BY <1>1, <1>2, <1>5
  <2>2. Follows(open, Len(chunks) + 1)'
    BY <2>1 DEF Follows
  <2>3. open'.size = Reserve' + Bytes(1, 0)'
    BY <1>2, <1>3, <1>5, <2>1
  <2>4. Bytes(open.first, index - 1)' = Bytes(1, 0)'
    BY <2>1 DEF Bytes, Mark
  <2>5. (open.size = Reserve + Bytes(open.first, index - 1))'
    BY <2>3, <2>4
  <2>6. index' = 1 /\ open'.first = 1
    BY <2>1
  <2>7. (open.first <= index /\ index <= Total + 1 /\ open.first <= Total)'
    BY <2>1 DEF Total
  <2>8. (index > open.first => Closed([first |-> open.first, last |-> index - 1]))'
    BY <2>6
  <2> QED
    BY <2>1, <2>2, <2>5, <2>6, <2>7, <2>8 DEF OpenChunk
<1>8. SentInOrder' /\ Assessing'
  BY <1>1 DEF SentInOrder, Assessing
<1> QED
  BY <1>4, <1>5, <1>6, <1>7, <1>8 DEF SplitInv

\* While the batch stays as it is, so do its marks and what they say of a chunk.
LEMMA SameBatch ==
    ASSUME UNCHANGED marks
    PROVE  /\ Total' = Total /\ Len(marks') = Len(marks) /\ Reserve' = Reserve
           /\ MarksAscend' = MarksAscend
           /\ \A i, j : Bytes(i, j)' = Bytes(i, j)
           /\ \A c : Closed(c)' = Closed(c) /\ CutInTime(c)' = CutInTime(c)
           /\ \A c, part, parts :
                MessageLength(c, part, parts)' = MessageLength(c, part, parts)
<1>1. Total' = Total /\ Len(marks') = Len(marks) /\ \A i : Mark(i)' = Mark(i)
  BY DEF Total, Mark
<1>2. Reserve' = Reserve /\ MarksAscend' = MarksAscend
  BY <1>1 DEF Reserve, HeaderLength, MarksAscend, Mark, Total
<1>3. \A i, j : Bytes(i, j)' = Bytes(i, j)
  BY DEF Bytes, Mark
<1>4. \A c : Closed(c)' = Closed(c) /\ CutInTime(c)' = CutInTime(c)
  BY DEF Closed, CutInTime, Bytes, Mark, Reserve, HeaderLength, Total
<1>5. \A c, part, parts : MessageLength(c, part, parts)' = MessageLength(c, part, parts)
  BY DEF MessageLength, HeaderLength, Bytes, Mark, Total
<1> QED
  BY <1>1, <1>2, <1>3, <1>4, <1>5

\* What the loop of splitAlerts knows when it looks at an alert.
LEMMA RoundFacts ==
    ASSUME SplitInv, splitPc = "split", index <= Total
    PROVE  /\ Total \in Nat /\ index \in 1..Total /\ open.first \in 1..index
           /\ Reserve \in Nat /\ Bytes(index, index) \in Nat /\ open.size \in Nat
           /\ Reserve + Bytes(open.first, index) = open.size + Bytes(index, index)
           /\ Bytes(open.first, index - 1) \in Int
<1>1. /\ SplitTypeOK /\ MarksAscend /\ Total > 0
      /\ Follows(open, Len(chunks) + 1)
      /\ open.first <= index /\ index <= Total /\ open.first <= Total
      /\ open.size = Reserve + Bytes(open.first, index - 1)
  BY DEF SplitInv, OpenChunk
<1>2. /\ Total \in Nat /\ \A i \in 0..Total : Mark(i) \in Nat
      /\ \A i \in 1..Total : Bytes(i, i) \in Nat /\ Bytes(i, i - 1) = 0
  BY <1>1, MarkFacts
<1>3. index \in Nat /\ open.first \in Nat /\ open.size \in Nat /\ Len(chunks) \in Nat
  BY <1>1 DEF SplitTypeOK
<1>4. open.first > 0
  <2>1. CASE Len(chunks) = 0
    BY <1>1, <2>1 DEF Follows
  <2>2. CASE Len(chunks) # 0
    <3>1. Len(chunks) \in 1..Len(chunks) /\ open.first = chunks[Len(chunks)].last + 1
      <4>1. Len(chunks) + 1 # 1 /\ (Len(chunks) + 1) - 1 = Len(chunks)
        BY <1>3, <2>2
      <4> QED
        BY <1>1, <1>3, <2>2, <4>1 DEF Follows
    <3>2. chunks[Len(chunks)] \in Chunk
      BY <1>1, <3>1 DEF SplitTypeOK
    <3>3. chunks[Len(chunks)].last \in Nat
      BY <3>2 DEF Chunk
    <3> QED
      BY <3>1, <3>3
  <2> QED
    BY <2>1, <2>2
<1>5. index \in 1..Total /\ open.first \in 1..index
  BY <1>1, <1>2, <1>3, <1>4
<1>6. Reserve \in Nat
  <2>1. Total \in 1..Total
    BY <1>1, <1>2
  <2> QED
    BY <1>1, <2>1, ReserveIsLongest
<1>7. /\ Mark(index) \in Nat /\ Mark(index - 1) \in Nat /\ Mark(open.first - 1) \in Nat
      /\ Bytes(index, index) \in Nat
  <2>1. index \in 0..Total /\ index - 1 \in 0..Total /\ open.first - 1 \in 0..Total
    BY <1>2, <1>5
  <2> QED
    BY <1>2, <1>5, <2>1
<1>8. /\ Bytes(open.first, index) = Bytes(open.first, index - 1) + Bytes(index, index)
      /\ Bytes(open.first, index - 1) \in Int /\ Bytes(open.first, index) \in Int
  BY <1>7 DEF Bytes
<1>9. Reserve + Bytes(open.first, index) = open.size + Bytes(index, index)
  BY <1>1, <1>6, <1>7, <1>8
<1> QED
  BY <1>2, <1>3, <1>5, <1>6, <1>7, <1>8, <1>9

\* A chunk put behind the closed ones keeps their order, if it follows the last
\* of them, is closed, and had no room for more unless it is the last of all.
LEMMA ChunkAdded ==
    ASSUME SplitInv, splitPc = "split", UNCHANGED marks, NEW c \in Chunk,
           chunks' = Append(chunks, c), Follows(c, Len(chunks) + 1), Closed(c),
           c.last <= Total, CutInTime(c) \/ splitPc' # "split"
    PROVE  ChunksInOrder' /\ chunks' \in Seq(Chunk)
<1>1. /\ SplitTypeOK /\ ChunksInOrder /\ Total \in Nat
  BY MarkFacts DEF SplitInv
<1> PICK n \in Nat : n = Len(chunks)
  BY <1>1 DEF SplitTypeOK
<1>2. /\ chunks' \in Seq(Chunk) /\ Len(chunks') = n + 1 /\ chunks'[n + 1] = c
      /\ \A j \in 1..n : chunks'[j] = chunks[j] /\ chunks[j] \in Chunk
  BY <1>1 DEF SplitTypeOK
<1>3. ASSUME NEW j \in 1..n
      PROVE  /\ Follows(chunks[j], j)' /\ Closed(chunks[j])' /\ CutInTime(chunks[j])'
             /\ j <= chunks[j].last /\ chunks[j].last <= Total'
  <2>1. /\ Follows(chunks[j], j) /\ Closed(chunks[j]) /\ CutInTime(chunks[j])
        /\ j <= chunks[j].last /\ chunks[j].last <= Total
    BY <1>1 DEF ChunksInOrder
  <2>2. chunks'[j] = chunks[j] /\ Total' = Total
    BY <1>2, SameBatch
  <2>3. Follows(chunks[j], j)'
    BY <1>2, <2>1, <2>2 DEF Follows
  <2>4. PICK ch : ch = chunks[j]
    OBVIOUS
  <2>5. Closed(ch)' /\ CutInTime(ch)'
    BY <2>1, <2>4, SameBatch
  <2> QED
    BY <2>1, <2>2, <2>3, <2>4, <2>5
<1>4. /\ Follows(chunks[n + 1], n + 1)' /\ Closed(chunks[n + 1])'
      /\ chunks'[n + 1].last <= Total'
      /\ CutInTime(chunks[n + 1])' \/ splitPc' # "split"
  <2>1. Total' = Total /\ Closed(c)' /\ (CutInTime(c)' \/ splitPc' # "split")
    BY SameBatch
  <2>2. Follows(chunks[n + 1], n + 1)'
    <3>1. c.first = IF n + 1 = 1 THEN 1 ELSE chunks[n].last + 1
      BY DEF Follows
    <3>2. n + 1 # 1 => n \in 1..n
      OBVIOUS
    <3> QED
      BY <1>2, <3>1, <3>2 DEF Follows
  <2> QED
    BY <1>2, <2>1, <2>2
<1>5. n + 1 <= c.last
  <2>1. c.first <= c.last /\ c \in Chunk
    BY DEF Closed
  <2>2. c.first = IF n + 1 = 1 THEN 1 ELSE chunks[n].last + 1
    BY DEF Follows
  <2>3. CASE n = 0
    BY <2>1, <2>2, <2>3 DEF Chunk
  <2>4. CASE n # 0
    <3>1. n \in 1..n /\ n + 1 # 1
      BY <2>4
    <3>2. n <= chunks[n].last /\ chunks[n].last \in Nat
      BY <1>1, <1>2, <3>1 DEF ChunksInOrder, Chunk
    <3> QED
      BY <2>1, <2>2, <3>1, <3>2 DEF Chunk
  <2> QED
    BY <2>3, <2>4
<1>6. ASSUME NEW j \in 1..(n + 1)
      PROVE  /\ Follows(chunks[j], j)' /\ Closed(chunks[j])'
             /\ j <= chunks'[j].last /\ chunks'[j].last <= Total'
             /\ j < n + 1 \/ splitPc' = "split" => CutInTime(chunks[j])'
  <2>1. CASE j = n + 1
    BY <1>2, <1>4, <1>5, <2>1
  <2>2. CASE j # n + 1
    <3>1. j \in 1..n
      BY <2>2
    <3> QED
      BY <1>2, <1>3, <3>1
  <2> QED
    BY <2>1, <2>2
<1>7. ChunksInOrder'
  BY <1>2, <1>6 DEF ChunksInOrder
<1> QED
  BY <1>2, <1>7

\* One round of the loop.
LEMMA RoundKeeps == ASSUME SplitInv, Round PROVE SplitInv'
<1>1. /\ splitPc = "split" /\ index <= Total /\ index' = index + 1
      /\ UNCHANGED <<splitPc, marks, sent>>
  BY DEF Round
<1>2. /\ SplitTypeOK /\ MarksAscend /\ ChunksInOrder /\ sent = <<>> /\ Total > 0
      /\ Follows(open, Len(chunks) + 1) /\ open.first <= Total
      /\ index > open.first => Closed([first |-> open.first, last |-> index - 1])
  BY <1>1 DEF SplitInv, OpenChunk
<1>3. /\ Total \in Nat /\ index \in 1..Total /\ open.first \in 1..index
      /\ Reserve \in Nat /\ Bytes(index, index) \in Nat /\ open.size \in Nat
      /\ Reserve + Bytes(open.first, index) = open.size + Bytes(index, index)
  BY <1>1, RoundFacts
<1> PICK i \in Nat : i = index
  BY <1>3
<1>4. /\ Total' = Total /\ Reserve' = Reserve /\ MarksAscend'
      /\ \A j, k : Bytes(j, k)' = Bytes(j, k)
      /\ \A c : Closed(c) => Closed(c)'
  BY <1>1, <1>2, SameBatch
<1>5. CASE Full
  <2> DEFINE c == [first |-> open.first, last |-> i - 1]
  <2>1. /\ i > open.first /\ open.size + Bytes(i, i) > MaxBytes
        /\ chunks' = Append(chunks, c)
        /\ open' = [first |-> i, size |-> Reserve + Bytes(i, i)]
    BY <1>5 DEF Round, Full, Opened
  <2>2. /\ c \in Chunk /\ c.last = i - 1 /\ c.first = open.first /\ c.last + 1 = i
        /\ c.last < Total /\ c.last <= Total
    BY <1>3, <2>1 DEF Chunk
  <2>3. Follows(c, Len(chunks) + 1) /\ Closed(c) /\ CutInTime(c)
    <3>1. Follows(c, Len(chunks) + 1)
      BY <1>2, <2>2 DEF Follows
    <3>2. Closed(c)
      BY <1>2, <2>1
    <3>3. Reserve + Bytes(c.first, c.last + 1) > MaxBytes
      BY <1>3, <2>1, <2>2
    <3> QED
      BY <2>2, <3>1, <3>2, <3>3 DEF CutInTime
  <2> HIDE DEF c
  <2>4. ChunksInOrder' /\ chunks' \in Seq(Chunk)
    BY <1>1, <2>1, <2>2, <2>3, ChunkAdded
  <2>5. SplitTypeOK'
    BY <1>1, <1>2, <1>3, <2>1, <2>4 DEF SplitTypeOK
  <2>6. OpenChunk'
    <3> PICK n \in Nat : n = Len(chunks)
      BY <1>2 DEF SplitTypeOK
    <3>1. /\ Len(chunks') = n + 1 /\ chunks'[n + 1] = c /\ (n + 1) + 1 # 1
          /\ ((n + 1) + 1) - 1 = n + 1
      BY <1>2, <2>1, <2>2 DEF SplitTypeOK
    <3>2. open'.first = i /\ open'.size = Reserve + Bytes(i, i) /\ index' = i + 1
      BY <1>1, <2>1
    <3>3. Follows(open, Len(chunks) + 1)'
      BY <2>2, <3>1, <3>2 DEF Follows
    <3>4. (open.first <= index /\ index <= Total + 1 /\ open.first <= Total)'
      BY <1>3, <1>4, <3>2 DEF Total
    <3>5. (open.size = Reserve + Bytes(open.first, index - 1))'
      <4>1. (open.first = i /\ index - 1 = i)'
        BY <3>2
      <4>2. Bytes(open.first, index - 1)' = Bytes(i, i)'
        BY <4>1 DEF Bytes, Mark
      <4> QED
        BY <1>4, <3>2, <4>2
    <3>6. (index > open.first => Closed([first |-> open.first, last |-> index - 1]))'
      <4>1. [first |-> open'.first, last |-> index' - 1] = [first |-> i, last |-> i]
        BY <3>2
      <4>2. Closed([first |-> i, last |-> i])
        BY DEF Closed
      <4>3. Closed([first |-> i, last |-> i])'
        BY <1>4, <4>2
      <4> QED
        BY <4>1, <4>3
    <3>7. (index = open.first => index = 1)' /\ sent' = <<>>
      BY <1>1, <1>2, <3>2
    <3>8. Total' > 0
      BY <1>2, <1>4
    <3> QED
      BY <3>3, <3>4, <3>5, <3>6, <3>7, <3>8 DEF OpenChunk
  <2>7. SentInOrder' /\ Assessing'
    BY <1>1 DEF SentInOrder, Assessing
  <2> QED
    BY <1>4, <2>4, <2>5, <2>6, <2>7 DEF SplitInv
<1>6. CASE ~Full
  <2>1. /\ chunks' = chunks
        /\ open' = [open EXCEPT !.size = @ + Bytes(index, index)]
        /\ i = open.first \/ open.size + Bytes(i, i) <= MaxBytes
    <3>1. MaxBytes \in Nat
      BY LengthAssumption
    <3> QED
      BY <1>3, <1>6, <3>1 DEF Round, Full
  <2>2. /\ open'.first = open.first /\ open'.size = open.size + Bytes(i, i)
        /\ open' \in [first : Nat, size : Nat] /\ index' = i + 1
    <3> PICK b \in Nat : b = Bytes(index, index)
      BY <1>3
    <3>1. open \in [first : Nat, size : Nat] /\ open' = [open EXCEPT !.size = @ + b]
      BY <1>2, <2>1 DEF SplitTypeOK
    <3>2. open'.first = open.first /\ open'.size = open.size + b
      BY <3>1
    <3>3. open' \in [first : Nat, size : Nat]
      BY <3>1
    <3> QED
      BY <1>1, <3>2, <3>3
  <2>3. SplitTypeOK' /\ ChunksInOrder'
    <3>1. SplitTypeOK'
      <4>1. index' \in Nat
        BY <2>2
      <4> QED
        BY <1>1, <1>2, <2>1, <2>2, <4>1 DEF SplitTypeOK
    <3>2. ChunksInOrder'
      BY <1>1, <1>2, <1>4, <2>1
      DEF ChunksInOrder, Follows, Closed, CutInTime, Bytes, Mark, Reserve, HeaderLength, Total
    <3> QED
      BY <3>1, <3>2
  <2>4. OpenChunk'
    <3>1. Follows(open, Len(chunks) + 1)'
      BY <1>2, <2>1, <2>2 DEF Follows
    <3>2. (open.first <= index /\ index <= Total + 1 /\ open.first <= Total)'
      BY <1>2, <1>3, <1>4, <2>2 DEF Total
    <3>3. (open.size = Reserve + Bytes(open.first, index - 1))'
      <4> PICK f \in Nat : f = open.first
        BY <1>3
      <4>1. (open.first = f /\ index - 1 = i)'
        BY <2>2
      <4>2. Bytes(open.first, index - 1)' = Bytes(f, i)'
        BY <4>1 DEF Bytes, Mark
      <4> QED
        BY <1>3, <1>4, <2>2, <4>2
    <3>4. (index > open.first => Closed([first |-> open.first, last |-> index - 1]))'
      <4> DEFINE c == [first |-> open.first, last |-> i]
      <4>1. [first |-> open'.first, last |-> index' - 1] = c
        BY <2>2
      <4>2. c.first = open.first /\ c.last = i /\ c.first <= c.last
        BY <1>3
      <4>3. Reserve + Bytes(c.first, c.last) <= MaxBytes \/ c.first = c.last
        BY <1>3, <2>1, <4>2
      <4> PICK ch : ch = c
        OBVIOUS
      <4>4. Closed(ch)
        BY <4>2, <4>3 DEF Closed
      <4>5. Closed(ch)'
        BY <1>4, <4>4
      <4> QED
        BY <4>1, <4>5
    <3>5. (index = open.first => index = 1)' /\ sent' = <<>> /\ Total' > 0
      BY <1>1, <1>2, <1>3, <1>4, <2>2
    <3> QED
      BY <3>1, <3>2, <3>3, <3>4, <3>5 DEF OpenChunk
  <2>5. SentInOrder' /\ Assessing'
    BY <1>1 DEF SentInOrder, Assessing
  <2> QED
    BY <1>4, <2>3, <2>4, <2>5 DEF SplitInv
<1> QED
  BY <1>5, <1>6

\* The loop is over, and the open chunk is the last.
LEMMA CloseLastKeeps == ASSUME SplitInv, CloseLast PROVE SplitInv'
<1> DEFINE c == [first |-> open.first, last |-> Total]
<1>1. /\ splitPc = "split" /\ index > Total /\ splitPc' = "send"
      /\ chunks' = Append(chunks, c) /\ UNCHANGED <<marks, index, open, sent>>
  BY DEF CloseLast
<1>2. /\ SplitTypeOK /\ MarksAscend /\ sent = <<>> /\ Total \in Nat /\ index \in Nat
      /\ Follows(open, Len(chunks) + 1) /\ open.first <= Total /\ index <= Total + 1
      /\ index > open.first => Closed([first |-> open.first, last |-> index - 1])
  BY <1>1, MarkFacts DEF SplitInv, OpenChunk, SplitTypeOK
<1>3. c \in Chunk /\ c.first = open.first /\ c.last = Total
  BY <1>2 DEF SplitTypeOK, Chunk
<1>4. index > open.first /\ index - 1 = Total
  BY <1>1, <1>2 DEF SplitTypeOK
<1>5. Follows(c, Len(chunks) + 1) /\ Closed(c) /\ c.last <= Total
  BY <1>2, <1>3, <1>4 DEF Follows
<1> HIDE DEF c
<1>6. ChunksInOrder' /\ chunks' \in Seq(Chunk)
  BY <1>1, <1>3, <1>5, ChunkAdded
<1>7. SplitTypeOK' /\ MarksAscend'
  BY <1>1, <1>2, <1>6, SameBatch DEF SplitTypeOK
<1>8. OpenChunk' /\ Assessing'
  BY <1>1 DEF OpenChunk, Assessing
<1>9. SentInOrder'
  <2>1. /\ Len(chunks') = Len(chunks) + 1 /\ Len(chunks) \in Nat
        /\ chunks'[Len(chunks')] = c
    BY <1>1, <1>2, <1>3 DEF SplitTypeOK
  <2>2. Total' = Total
    BY <1>1, SameBatch
  <2>3. Len(sent') = 0 /\ Len(sent') <= Len(chunks') /\ chunks' # <<>>
    BY <1>1, <1>2, <2>1
  <2> QED
    BY <1>3, <2>1, <2>2, <2>3 DEF SentInOrder
<1> QED
  BY <1>6, <1>7, <1>8, <1>9 DEF SplitInv

\* A chunk lies within the batch, and there are no more chunks than alerts.
LEMMA ChunkWithin ==
    ASSUME SplitTypeOK, MarksAscend, ChunksInOrder, NEW j \in 1..Len(chunks)
    PROVE  /\ chunks[j] \in Chunk /\ Closed(chunks[j])
           /\ chunks[j].first \in 1..Total /\ chunks[j].last \in 1..Total
           /\ j \in 1..Total /\ Len(chunks) \in 1..Total /\ Total > 0
           /\ Bytes(chunks[j].first, chunks[j].last) \in Int
           /\ Bytes(1, 1) \in Nat
<1>1. Total \in Nat /\ \A i \in 0..Total : Mark(i) \in Nat
  BY MarkFacts
<1> PICK t \in Nat : t = Total
  BY <1>1
<1> PICK n \in Nat : n = Len(chunks)
  BY DEF SplitTypeOK
<1>2. j \in 1..n /\ n \in 1..n
  OBVIOUS
<1> PICK c \in Chunk : c = chunks[j]
  BY <1>2 DEF SplitTypeOK
<1>3. /\ j <= c.last /\ c.last <= t /\ Closed(c) /\ Follows(c, j)
      /\ n <= chunks[n].last /\ chunks[n].last <= t /\ chunks[n] \in Chunk
  BY <1>2 DEF ChunksInOrder, SplitTypeOK
<1>4. j \in 1..t /\ n \in 1..t /\ t > 0
  BY <1>2, <1>3 DEF Chunk
<1> PICK f \in Nat : f = c.first
  BY DEF Chunk
<1> PICK l \in Nat : l = c.last
  BY DEF Chunk
<1>5. f >= 1
  <2>1. j # 1 => j - 1 \in 1..n /\ chunks[j - 1] \in Chunk
    BY <1>2 DEF SplitTypeOK
  <2> QED
    BY <1>3, <2>1 DEF Follows, Chunk
<1>6. f \in 1..t /\ l \in 1..t
  BY <1>3, <1>5 DEF Closed
<1>7. Bytes(f, l) \in Int
  <2>1. f - 1 \in 0..t /\ l \in 0..t
    BY <1>6
  <2> QED
    BY <1>1, <2>1 DEF Bytes
<1>8. Bytes(1, 1) \in Nat
  <2>1. 1 \in 1..t
    BY <1>4
  <2> QED
    BY <2>1, MarkFacts
<1> QED
  BY <1>3, <1>4, <1>6, <1>7, <1>8

\* What was sent is joined by the message of the next chunk.
LEMMA SendChunkKeeps == ASSUME SplitInv, SendChunk PROVE SplitInv'
<1> PICK n \in Nat : n = Len(sent)
  BY DEF SplitInv, SplitTypeOK
<1>1. /\ splitPc = "send" /\ n < Len(chunks)
      /\ sent' = Append(sent, MessageLength(chunks[n + 1], n + 1, Len(chunks)))
      /\ UNCHANGED <<splitPc, marks, index, open, chunks>>
  BY DEF SendChunk
<1>2. /\ SplitTypeOK /\ MarksAscend /\ ChunksInOrder /\ SentInOrder /\ Total \in Nat
      /\ \A i \in 0..Total : Mark(i) \in Nat
  BY MarkFacts DEF SplitInv
<1>3. MessageLength(chunks[n + 1], n + 1, Len(chunks)) \in Int
  <2>1. n + 1 \in 1..Len(chunks) /\ Len(chunks) \in 1..Len(chunks)
    BY <1>1, <1>2 DEF SplitTypeOK
  <2>2. /\ n + 1 \in 1..Total /\ Len(chunks) \in 1..Total /\ Total > 0
        /\ Bytes(chunks[n + 1].first, chunks[n + 1].last) \in Int /\ Bytes(1, 1) \in Nat
    BY <1>2, <2>1, ChunkWithin
  <2>3. HeaderLength(Total, n + 1, Len(chunks)) \in Nat
    BY <1>2, <2>2, ReserveIsLongest
  <2>4. SepBytes \in Nat
    BY LengthAssumption
  <2> QED
    BY <2>2, <2>3, <2>4 DEF MessageLength
<1>4. SplitTypeOK' /\ MarksAscend'
  <2>1. sent' \in Seq(Int)
    BY <1>1, <1>2, <1>3 DEF SplitTypeOK
  <2> QED
    BY <1>1, <1>2, <2>1, SameBatch DEF SplitTypeOK
<1>5. ChunksInOrder'
  BY <1>1, <1>2
  DEF ChunksInOrder, Follows, Closed, CutInTime, Bytes, Mark, Reserve, HeaderLength, Total
<1>6. OpenChunk' /\ Assessing'
  BY <1>1 DEF OpenChunk, Assessing
<1>7. SentInOrder'
  <2>1. /\ Len(sent') = n + 1
        /\ sent'[n + 1] = MessageLength(chunks[n + 1], n + 1, Len(chunks))
        /\ \A j \in 1..n : sent'[j] = sent[j]
    BY <1>1, <1>2, <1>3 DEF SplitTypeOK
  <2>2. \A j \in 1..(n + 1) : sent'[j] = MessageLength(chunks[j], j, Len(chunks))
    <3> SUFFICES ASSUME NEW j \in 1..(n + 1)
                 PROVE  sent'[j] = MessageLength(chunks[j], j, Len(chunks))
      OBVIOUS
    <3>1. CASE j = n + 1
      BY <2>1, <3>1
    <3>2. CASE j # n + 1
      <4>1. j \in 1..n
        BY <3>2
      <4> QED
        BY <1>1, <1>2, <2>1, <4>1 DEF SentInOrder
    <3> QED
      BY <3>1, <3>2
  <2>3. ASSUME NEW j \in 1..(n + 1)
        PROVE  (sent[j] = MessageLength(chunks[j], j, Len(chunks)))'
    <3>1. sent'[j] = MessageLength(chunks[j], j, Len(chunks))
      BY <2>2
    <3>2. MessageLength(chunks[j], j, Len(chunks))' = MessageLength(chunks[j], j, Len(chunks))
      BY <1>1 DEF MessageLength, HeaderLength, Bytes, Mark, Total
    <3> QED
      BY <3>1, <3>2
  <2>4. /\ chunks' # <<>> /\ chunks'[Len(chunks')].last = Total'
        /\ n + 1 <= Len(chunks')
    <3>1. /\ chunks # <<>> /\ chunks[Len(chunks)].last = Total
          /\ Len(chunks) \in Nat
      BY <1>1, <1>2 DEF SentInOrder, SplitTypeOK
    <3> QED
      BY <1>1, <3>1, SameBatch
  <2> QED
    BY <2>1, <2>3, <2>4 DEF SentInOrder
<1> QED
  BY <1>4, <1>5, <1>6, <1>7 DEF SplitInv

\* The invariant of the messages of a pass.
LEMMA SplitInvariant == SplitSpec => []SplitInv
<1>1. SplitInit => SplitInv
  <2> SUFFICES ASSUME SplitInit PROVE SplitInv
    OBVIOUS
  <2>1. SplitTypeOK
    BY DEF SplitInit, SplitTypeOK
  <2>2. MarksAscend /\ ChunksInOrder
    BY DEF SplitInit, MarksAscend, ChunksInOrder, Total
  <2> QED
    BY <2>1, <2>2 DEF SplitInit, SplitInv, OpenChunk, SentInOrder, Assessing
<1>2. SplitInv /\ [SplitNext]_splitVars => SplitInv'
  <2> SUFFICES ASSUME SplitInv, [SplitNext]_splitVars PROVE SplitInv'
    OBVIOUS
  <2>1. CASE NextPass
    <3>1. SplitTypeOK'
      BY <2>1 DEF NextPass, SplitTypeOK
    <3>2. MarksAscend' /\ ChunksInOrder'
      BY <2>1 DEF NextPass, MarksAscend, ChunksInOrder, Total
    <3>3. OpenChunk' /\ SentInOrder' /\ Assessing'
      BY <2>1 DEF NextPass, OpenChunk, SentInOrder, Assessing
    <3> QED
      BY <3>1, <3>2, <3>3 DEF SplitInv
  <2>2. CASE UNCHANGED splitVars
    BY <2>2
    DEF splitVars, SplitInv, SplitTypeOK, MarksAscend, ChunksInOrder, OpenChunk, SentInOrder,
        Assessing, Follows, Closed, CutInTime, Bytes, Mark, Reserve, MessageLength,
        HeaderLength, Total
  <2> QED
    BY <2>1, <2>2, NotifyKeeps, FlushBatchKeeps, RoundKeeps, CloseLastKeeps, SendChunkKeeps
    DEF SplitNext
<1> QED
  BY <1>1, <1>2, PTL DEF SplitSpec

\* No message is longer than Telegram takes, unless one alert leaves no room for
\* itself beside the longest header.
THEOREM MessagesAreTaken == SplitSpec => []MessagesFit
<1>1. SplitInv => MessagesFit
  <2> SUFFICES ASSUME SplitInv, NEW j \in 1..Len(sent)
               PROVE  \/ sent[j] <= MaxBytes
                      \/ /\ chunks[j].first = chunks[j].last
                         /\ Reserve + Bytes(chunks[j].first, chunks[j].first) > MaxBytes
    BY DEF MessagesFit
  <2>1. /\ SplitTypeOK /\ MarksAscend /\ ChunksInOrder
        /\ Total \in Nat /\ SepBytes \in Nat /\ MaxBytes \in Nat
        /\ \A i \in 0..Total : Mark(i) \in Nat
    BY MarkFacts, LengthAssumption DEF SplitInv
  <2>2. splitPc = "send"
    <3>1. Len(sent) # 0
      BY <2>1 DEF SplitTypeOK
    <3> QED
      BY <2>1, <3>1 DEF SplitInv, OpenChunk, Assessing, SplitTypeOK
  <2>3. /\ chunks # <<>> /\ Len(sent) <= Len(chunks) /\ Len(sent) \in Nat
        /\ sent[j] = MessageLength(chunks[j], j, Len(chunks))
        /\ Len(chunks) \in Nat
    BY <2>1, <2>2 DEF SplitInv, SentInOrder, SplitTypeOK
  <2>4. j \in 1..Len(chunks) /\ Len(chunks) \in 1..Len(chunks)
    BY <2>3
  <2> PICK c : c = chunks[j]
    OBVIOUS
  <2>5. /\ c \in Chunk /\ Closed(c) /\ c.first \in 1..Total /\ c.last \in 1..Total
        /\ j \in 1..Total /\ Len(chunks) \in 1..Total /\ Total > 0
        /\ Bytes(c.first, c.last) \in Int /\ Bytes(1, 1) \in Nat
    BY <2>1, <2>4, ChunkWithin
  <2>6. /\ Reserve \in Nat /\ HeaderLength(Total, j, Len(chunks)) \in Nat
        /\ Total # 1 => HeaderLength(Total, j, Len(chunks)) <= Reserve
    BY <2>1, <2>5, ReserveIsLongest
  <2>7. sent[j] \in Int /\ sent[j] <= Reserve + Bytes(c.first, c.last)
    <3>1. CASE Total = 1
      <4>1. c.first = 1 /\ c.last = 1
        BY <2>5, <3>1
      <4> QED
        BY <2>1, <2>3, <2>5, <2>6, <3>1, <4>1 DEF MessageLength
    <3>2. CASE Total # 1
      BY <2>3, <2>5, <2>6, <3>2 DEF MessageLength
    <3> QED
      BY <3>1, <3>2
  <2>8. CASE Reserve + Bytes(c.first, c.last) <= MaxBytes
    BY <2>1, <2>5, <2>6, <2>7, <2>8
  <2>9. CASE ~(Reserve + Bytes(c.first, c.last) <= MaxBytes)
    <3>1. c.first = c.last
      BY <2>5, <2>9 DEF Closed
    <3> QED
      BY <2>1, <2>5, <2>6, <2>9, <3>1
  <2> QED
    BY <2>8, <2>9
<1> QED
  BY <1>1, SplitInvariant, PTL

\* The messages carry each alert of the batch once and in order, and none of them
\* is cut short of an alert that would have fitted.
THEOREM BatchesAreCarried == SplitSpec => []BatchCarried
<1>1. SplitInv => BatchCarried
  <2> SUFFICES ASSUME SplitInv, splitPc = "send" PROVE BatchCarried
    BY DEF BatchCarried
  <2> PICK n \in Nat : n = Len(chunks)
    BY DEF SplitInv, SplitTypeOK
  <2>1. /\ n > 0 /\ chunks[n].last = Total /\ chunks \in Seq(Chunk)
    BY DEF SplitInv, SentInOrder, SplitTypeOK
  <2>2. \A j \in 1..n : Follows(chunks[j], j) /\ Closed(chunks[j])
    BY DEF SplitInv, ChunksInOrder
  <2>3. chunks[1].first = 1
    BY <2>1, <2>2 DEF Follows
  <2>4. \A j \in 1..n : chunks[j].first <= chunks[j].last
    BY <2>2 DEF Closed
  <2>5. ASSUME NEW j \in 1..(n - 1)
        PROVE  /\ chunks[j + 1].first = chunks[j].last + 1
               /\ Reserve + Bytes(chunks[j].first, chunks[j + 1].first) > MaxBytes
    <3>1. j \in 1..n /\ j + 1 \in 1..n /\ j < n /\ j + 1 # 1 /\ (j + 1) - 1 = j
      OBVIOUS
    <3>2. chunks[j + 1].first = chunks[j].last + 1
      BY <2>2, <3>1 DEF Follows
    <3>3. CutInTime(chunks[j])
      BY <3>1 DEF SplitInv, ChunksInOrder
    <3> QED
      BY <3>2, <3>3 DEF CutInTime
  <2> QED
    BY <2>1, <2>3, <2>4, <2>5 DEF BatchCarried
<1> QED
  BY <1>1, SplitInvariant, PTL

=============================================================================
