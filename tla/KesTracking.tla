---------------------------- MODULE KesTracking ----------------------------
(***************************************************************************)
(* The KES side of spo-monitor for one pool: from the operational          *)
(* certificate counter its blocks carry, the pass estimates when the       *)
(* certificate expires.  The first pass searches the pool's history for    *)
(* the block the counter first appeared in; later passes notice a counter  *)
(* that changed; the estimate is kept in the table pool_kes_states.        *)
(*                                                                         *)
(* The certificates themselves and the blocks are the world outside.  A    *)
(* certificate starts with the KES period it is issued in and is usable    *)
(* for MaxKesEvolutions of them, which the monitor never gets to see.      *)
(***************************************************************************)
EXTENDS Integers, Sequences, FiniteSets

CONSTANTS
    Window,             \* maxKesScan: how many blocks the search looks back
    MaxKesEvolutions,   \* KES periods a certificate is usable for
    KesPeriod,          \* SlotsPerKesPeriod * SlotLength, in ticks
    Thresholds,         \* Settings.KesThresholds, in ticks before the expiry
    ForgeGap,           \* a pool with a usable certificate forges this often
    PassGap,            \* a pass goes through this often, from its start to the next one's end
    KesFaults,          \* the failures this instance admits
    MaxTime, MaxCerts   \* bounds on the clock and on the certificates

ASSUME WindowAssumption     == Window \in Nat \ {0}
ASSUME PeriodAssumption     == KesPeriod \in Nat \ {0} /\ MaxKesEvolutions \in Nat \ {0}
ASSUME GapAssumption        == ForgeGap \in Nat \ {0} /\ PassGap \in Nat \ {0}
ASSUME KesFaultsAssumption  == KesFaults \subseteq {"probe", "load", "save", "crash"}
ASSUME KesBoundsAssumption  == MaxTime \in Nat /\ MaxCerts \in Nat \ {0}

\* Settings.KesThresholds takes any numbers, in any order.
ASSUME ThresholdsAssumption == Thresholds \in Seq(Int)

VARIABLES
    now,        \* the time of day, in ticks
    certs,      \* certs[c]: when the certificate with counter c was issued
    forged,     \* the pool's blocks, oldest first
    kesRow,     \* the pool's row in pool_kes_states; counter 0 for no row
    kesPc,      \* where the pass is: idle, search or commit
    began,      \* when the pass read the latest block
    newest,     \* the latest block, as the pass read it
    found,      \* GetKesState found the row
    kesState,   \* the state the pass will save
    search,     \* the local variables of findRotation
    tier,       \* the tier the last pass handed to evaluateTiered
    seen,       \* the counter it had found
    lastPass,   \* when the last pass that went through began; Never before the first
    exact,      \* the row's estimate rests on no failed lookup and no block forged meanwhile
    parted      \* a load or a save of the row has failed

searchVars == <<kesPc, began, newest, found, kesState, search>>
pastVars == <<tier, seen, lastPass, exact, parted>>
kesVars == <<now, certs, forged, kesRow, searchVars, pastVars>>

Never == -1
NoBlock == [time |-> 0, cert |-> 0]
NoKesRow == [counter |-> 0, rotation |-> 0, confidence |-> "none"]
NoSearch == [lo |-> 0, hi |-> -1, best |-> 0, older |-> FALSE,
             probes |-> 0, moved |-> 0, missed |-> FALSE]

Later(s, t) == IF s > t THEN s ELSE t

Cert == Len(certs)
LastForged == IF forged = <<>> THEN 0 ELSE forged[Len(forged)].time

\* Of certificate c: the start of its first KES period, and the end of its last.
StartOf(c) == certs[c] - (certs[c] % KesPeriod)
ExpiryOf(c) == StartOf(c) + MaxKesEvolutions * KesPeriod

\* Faulty variant: the period that makes up for the lag is left in.
KesLifetimeWhole == MaxKesEvolutions * KesPeriod

\* KesLifetime: one period less than the certificate has, if it has more than one.
KesLifetime ==
    (IF MaxKesEvolutions > 1 THEN MaxKesEvolutions - 1 ELSE MaxKesEvolutions) * KesPeriod

\* tierLevel: how many thresholds the time left has crossed.
TierLevel(left) == Cardinality({ i \in DOMAIN Thresholds : left <= Thresholds[i] })

\* --------------------------------------------------------------- the pass

\* Faulty variant: each pass dates the certificate anew.
TrackedAnew(row, block) ==
    [counter |-> block.cert, rotation |-> block.time, confidence |-> "ok"]

\* The counter is the one of the row: the estimate stands.  It is another: the
\* certificate was renewed, and the block just read is taken for its first.
Tracked(row, block) ==
    IF row.counter = block.cert THEN row
    ELSE [counter |-> block.cert, rotation |-> block.time, confidence |-> "ok"]

\* assessKES up to the search: the latest block, then the row.  When the block
\* cannot be read, or there is none, the pass leaves everything as it is.
StartAssess(loaded) ==
    /\ kesPc = "idle" /\ forged # <<>>
    /\ loaded \/ "load" \in KesFaults
    /\ began' = now /\ newest' = forged[Len(forged)]
    /\ found' = (loaded /\ kesRow.counter # 0)
    /\ IF found'
         THEN kesPc' = "commit" /\ kesState' = Tracked(kesRow, newest')
              /\ search' = NoSearch
         ELSE /\ kesPc' = "search" /\ kesState' = NoKesRow
              /\ search' = [NoSearch EXCEPT !.hi = Window - 1, !.best = newest'.time]
    /\ parted' = (parted \/ ~loaded)
    /\ UNCHANGED <<now, certs, forged, kesRow, tier, seen, lastPass, exact>>

\* getAt: the block at an index of the history, counted from the newest.
Has(index) == index < Len(forged)
BlockAt(index) == forged[Len(forged) - index]

\* Faulty variants of a lookup's use: the search keeps the index it has probed;
\* it takes the older block's time.
NarrowStuck(s, mid, b) ==
    IF b.cert = newest.cert THEN [s EXCEPT !.best = b.time, !.lo = mid]
                            ELSE [s EXCEPT !.older = TRUE, !.hi = mid - 1]

NarrowOlder(s, mid, b) ==
    IF b.cert = newest.cert THEN [s EXCEPT !.best = b.time, !.lo = mid + 1]
                            ELSE [s EXCEPT !.best = b.time, !.older = TRUE, !.hi = mid - 1]

\* What the search makes of the block it looked up.
Narrow(s, mid, b) ==
    IF b.cert = newest.cert THEN [s EXCEPT !.best = b.time, !.lo = mid + 1]
                            ELSE [s EXCEPT !.older = TRUE, !.hi = mid - 1]

\* One round of findRotation.  A lookup that fails, also one cut off by the
\* time limit or a shutdown, counts as past the history.
Probe(answered) ==
    LET mid == (search.lo + search.hi) \div 2
        s   == [search EXCEPT !.probes = @ + 1] IN
    /\ kesPc = "search" /\ search.lo <= search.hi
    /\ search' = IF answered /\ Has(mid) THEN Narrow(s, mid, BlockAt(mid))
                 ELSE [s EXCEPT !.hi = mid - 1, !.missed = @ \/ Has(mid)]
    /\ answered \/ ("probe" \in KesFaults /\ Has(mid))
    /\ UNCHANGED <<now, certs, forged, kesRow, kesPc, began, newest, found, kesState, pastVars>>

\* findRotation returns.
EndSearch ==
    /\ kesPc = "search" /\ search.lo > search.hi
    /\ kesPc' = "commit"
    /\ kesState' = [counter |-> newest.cert, rotation |-> search.best,
                    confidence |-> IF search.older THEN "ok" ELSE "lowerbound"]
    /\ UNCHANGED <<now, certs, forged, kesRow, began, newest, found, search, pastVars>>

\* SaveKesState, then the tier goes to evaluateTiered.  A state built without
\* the row is inserted, which is refused when the row exists.
Commit(saved) ==
    LET accepted == saved /\ (found \/ kesRow.counter = 0) IN
    /\ kesPc = "commit"
    /\ saved \/ "save" \in KesFaults
    /\ kesPc' = "idle"
    /\ kesRow' = IF accepted THEN kesState ELSE kesRow
    /\ tier' = TierLevel(kesState.rotation + KesLifetime - now)
    /\ seen' = newest.cert
    /\ parted' = (parted \/ ~accepted)
    /\ lastPass' = IF accepted THEN began ELSE lastPass
    /\ exact' = IF ~accepted \/ kesState = kesRow THEN exact
                ELSE found \/ ~(search.missed \/ search.moved > 0)
    /\ began' = 0 /\ newest' = NoBlock /\ found' = FALSE
    /\ kesState' = NoKesRow /\ search' = NoSearch
    /\ UNCHANGED <<now, certs, forged>>

\* The process dies in the middle of a pass, and its successor starts another.
KesCrash ==
    /\ "crash" \in KesFaults /\ kesPc # "idle"
    /\ kesPc' = "idle"
    /\ began' = 0 /\ newest' = NoBlock /\ found' = FALSE
    /\ kesState' = NoKesRow /\ search' = NoSearch
    /\ UNCHANGED <<now, certs, forged, kesRow, pastVars>>

\* ---------------------------------------------------------- the world outside

\* Time passes, also while a search waits for its lookups: each has a time limit,
\* so a pass ends within PassGap.  The pool is never dry for longer than ForgeGap
\* unless its certificate is worn out, and once the monitor runs, a pass goes
\* through every PassGap.
KesTick ==
    /\ now < MaxTime
    /\ kesPc # "idle" => now < began + PassGap
    /\ now >= ExpiryOf(Cert) \/ now < Later(LastForged, certs[Cert]) + ForgeGap
    /\ lastPass = Never \/ now < lastPass + PassGap
    /\ now' = now + 1
    /\ UNCHANGED <<certs, forged, kesRow, searchVars, pastVars>>

\* The pool forges a block, also while the search is counting from the newest.
Forge ==
    /\ forged = <<>> \/ LastForged < now
    /\ now < ExpiryOf(Cert)
    /\ forged' = Append(forged, [time |-> now, cert |-> Cert])
    /\ search' = IF kesPc # "idle" THEN [search EXCEPT !.moved = @ + 1] ELSE search
    /\ UNCHANGED <<now, certs, kesRow, kesPc, began, newest, found, kesState, pastVars>>

\* The operator issues a new certificate and puts it to use.
Renew ==
    /\ Cert < MaxCerts
    /\ certs[Cert] < now
    /\ certs' = Append(certs, now)
    /\ UNCHANGED <<now, forged, kesRow, searchVars, pastVars>>

\* -------------------------------------------------------------- specification

KesInit ==
    /\ now = 0 /\ certs = <<0>> /\ forged = <<>>
    /\ kesRow = NoKesRow
    /\ kesPc = "idle" /\ began = 0 /\ newest = NoBlock /\ found = FALSE
    /\ kesState = NoKesRow /\ search = NoSearch
    /\ tier = 0 /\ seen = 0 /\ lastPass = Never /\ exact = FALSE /\ parted = FALSE

KesNext ==
    \/ \E loaded \in BOOLEAN : StartAssess(loaded)
    \/ \E answered \in BOOLEAN : Probe(answered)
    \/ EndSearch
    \/ \E saved \in BOOLEAN : Commit(saved)
    \/ KesCrash
    \/ KesTick \/ Forge \/ Renew

KesSpec == KesInit /\ [][KesNext]_kesVars

\* ----------------------------------------------------------------- properties

\* The place in the history of the first block with counter c.
FirstOf(c) == CHOOSE i \in 1..Len(forged) :
                 forged[i].cert = c /\ \A j \in 1..(i - 1) : forged[j].cert # c

\* Where the block of a time is in the history.
PlaceOf(t) == CHOOSE i \in 1..Len(forged) : forged[i].time = t

\* The binary search ends at the block a scan of the whole window would end at:
\* the first one with the counter, or the oldest of the window.  It is certain
\* only of a true boundary.  Each block forged meanwhile puts it off by one, and a
\* failed lookup only ever makes the rotation later.  (A renewal meanwhile is
\* taken for an older certificate, and corrected by the next pass.)
BoundaryFound ==
    kesPc = "commit" /\ ~found /\ forged[Len(forged)].cert = newest.cert =>
        LET first  == FirstOf(newest.cert)
            oldest == Later(1, Len(forged) - search.moved - Window + 1)
            target == Later(first, oldest)
            place  == PlaceOf(kesState.rotation)
            sure   == kesState.confidence = "ok" IN
        /\ forged[place].cert = newest.cert /\ place >= target
        /\ ~search.missed => place <= target + search.moved
        /\ sure => oldest < first
        /\ ~search.missed /\ search.moved = 0 /\ oldest < first => sure

\* Each lookup halves what is left, whatever fails or is forged meanwhile: a
\* window of 4096 blocks takes at most 13 of them.
SearchIsShort == \A k \in 1..Window : 2^k > Window => search.probes <= k

\* README.md: the estimate is about one KES period off at most.  It is never
\* more than a period early, and where a counter change was seen it is late by
\* less than the time the change took to be forged and to be noticed.
EstimateNearExpiry ==
    kesRow.counter # 0 =>
        LET off == kesRow.rotation + KesLifetime - ExpiryOf(kesRow.counter) IN
        /\ off >= -KesPeriod
        /\ exact /\ ~parted /\ kesRow.confidence = "ok" => off < ForgeGap + PassGap

\* While the row is loaded and saved, the tier falls only when the certificate
\* was renewed: the recovery message tells of a renewal.  It falls to the tier of
\* a new certificate, which is none, and the recovery is told, unless a threshold
\* reaches the lifetime: then no renewal ever brings the pool back to none.
TierFollowsRenewal ==
    [][\A saved \in BOOLEAN :
         Commit(saved) /\ ~parted' /\ seen # 0 =>
            /\ tier' < tier => seen' # seen
            /\ seen' # seen => /\ TierLevel(KesLifetime) <= tier'
                              /\ tier' <= TierLevel(KesLifetime - PassGap)]_kesVars
=============================================================================
