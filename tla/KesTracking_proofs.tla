------------------------- MODULE KesTracking_proofs -------------------------
(***************************************************************************)
(* The KES assessment of any history, window, thresholds and failures: the *)
(* search for a certificate's first block finds the boundary, the expiry   *)
(* it gives is near the true one, and the tier falls only with a renewal;  *)
(* and the search takes no more lookups than halve the window to nothing.  *)
(***************************************************************************)
EXTENDS KesTracking, FiniteSetTheorems, TLAPS

BlockRecord == [time : Nat, cert : Nat]
KesRowRecord == [counter : Nat, rotation : Int, confidence : {"none", "ok", "lowerbound"}]
SearchRecord == [lo : Nat, hi : Int, best : Nat, older : BOOLEAN,
                 probes : Nat, moved : Nat, missed : BOOLEAN]

KesTypeOK ==
    /\ now \in Nat
    /\ certs \in Seq(Nat) /\ Cert >= 1
    /\ forged \in Seq(BlockRecord)
    /\ kesRow \in KesRowRecord /\ kesState \in KesRowRecord
    /\ kesPc \in {"idle", "search", "commit"}
    /\ began \in Nat /\ newest \in BlockRecord /\ found \in BOOLEAN
    /\ search \in SearchRecord
    /\ tier \in Nat /\ seen \in Nat /\ lastPass \in Nat \cup {Never}
    /\ exact \in BOOLEAN /\ parted \in BOOLEAN

\* No earlier block has the certificate of this one.
IsFirst(f) == \A j \in 1..(f - 1) : forged[j].cert # forged[f].cert

\* The history: blocks are forged one at a time, under the latest certificate.
CertsInPast == \A c \in 1..Cert : certs[c] <= now

BlocksDated ==
    \A i \in 1..Len(forged) :
        /\ 1 <= forged[i].cert /\ forged[i].cert <= Cert
        /\ certs[forged[i].cert] <= forged[i].time /\ forged[i].time <= now
        /\ \A c \in 1..Cert : forged[i].cert < c => forged[i].time <= certs[c]

BlocksInOrder ==
    \A i, j \in 1..Len(forged) :
        i < j => forged[i].time < forged[j].time /\ forged[i].cert <= forged[j].cert

EachHasFirst ==
    \A i \in 1..Len(forged) :
        \E f \in 1..i : IsFirst(f) /\ forged[f].cert = forged[i].cert

\* The pool forges often, so a certificate's first block comes soon.
ForgesOften == now < ExpiryOf(Cert) => now <= Later(LastForged, certs[Cert]) + ForgeGap

FirstSoon ==
    \A f \in 1..Len(forged) :
        IsFirst(f) => forged[f].time <= certs[forged[f].cert] + ForgeGap

World ==
    CertsInPast /\ BlocksDated /\ BlocksInOrder /\ EachHasFirst /\ ForgesOften /\ FirstSoon

\* A row is of a certificate that has forged, and never dates it too early.
RowDated ==
    kesRow.counter # 0 =>
        /\ kesRow.counter <= Cert /\ certs[kesRow.counter] <= kesRow.rotation
        /\ forged # <<>> /\ kesRow.counter <= forged[Len(forged)].cert

PassesOften == lastPass # Never => lastPass <= now /\ now <= lastPass + PassGap

\* While loads and saves go through, a block of another certificate than the
\* row's is younger than the last pass; an exact row is near the renewal; and the
\* tier is at most the one the row has come to by now.
RowFresh ==
    kesRow.counter # 0 /\ ~parted =>
        /\ lastPass # Never
        /\ \A i \in 1..Len(forged) : kesRow.counter < forged[i].cert => lastPass <= forged[i].time

RowNear ==
    kesRow.counter # 0 /\ exact /\ ~parted /\ kesRow.confidence = "ok" =>
        kesRow.rotation <= certs[kesRow.counter] + ForgeGap + PassGap

TierHolds ==
    ~parted /\ seen # 0 =>
        /\ kesRow.counter = seen
        /\ tier <= TierLevel(kesRow.rotation + KesLifetime - now)

Row == RowDated /\ PassesOften /\ RowFresh /\ RowNear /\ TierHolds

\* How many blocks there were when the pass read the latest one, and the oldest
\* of them that the search can reach.
AtStart == Len(forged) - search.moved
OldestInWindow == Later(1, AtStart - Window + 1)

\* A pass, which is not on for long, holds the block that was the latest when it
\* began; all others came later.
PassInHand ==
    kesPc # "idle" =>
        /\ began <= now /\ now <= began + PassGap
        /\ AtStart \in 1..Len(forged) /\ newest = forged[AtStart]
        /\ \A i \in 1..Len(forged) : AtStart < i => began <= forged[i].time
        /\ kesRow.counter <= newest.cert
        /\ ~parted /\ kesRow.counter # 0 => found
        /\ found => /\ kesPc = "commit" /\ kesRow.counter # 0
                    /\ kesState = Tracked(kesRow, newest)

\* The search: its best is a block of the counter, within what it has probed;
\* an older certificate was seen in the window, next to what is left, and none
\* was seen only if nothing of the window is left behind.
BestFound ==
    \E b \in 1..Len(forged) :
        /\ forged[b].time = search.best /\ forged[b].cert = newest.cert
        /\ AtStart - Window + 1 <= b /\ b <= Len(forged) - search.lo + 1

OlderFound ==
    \E j \in 1..Len(forged) :
        /\ forged[j].cert # newest.cert /\ AtStart - Window + 1 <= j
        /\ ~search.missed => AtStart - search.hi - 1 <= j

SearchInHand ==
    kesPc # "idle" /\ ~found =>
        /\ search.lo <= search.hi + 1 /\ search.hi < Window
        /\ kesPc = "commit" =>
             /\ search.lo > search.hi
             /\ kesState = [counter |-> newest.cert, rotation |-> search.best,
                            confidence |-> IF search.older THEN "ok" ELSE "lowerbound"]
        /\ BestFound
        /\ forged[Len(forged)].cert = newest.cert =>
             /\ search.older => OlderFound
             /\ ~search.older /\ ~search.missed => AtStart - search.hi <= OldestInWindow

KesInv == KesTypeOK /\ World /\ Row /\ PassInHand /\ SearchInHand

\* -------------------------------------------------------------- what holds

\* A sequence with one more element.
LEMMA Appended ==
    ASSUME NEW S, NEW s \in Seq(S), NEW x \in S
    PROVE  /\ Append(s, x) \in Seq(S) /\ Len(s) \in Nat
           /\ Len(Append(s, x)) = Len(s) + 1
           /\ \A i \in 1..Len(s) : Append(s, x)[i] = s[i]
           /\ Append(s, x)[Len(s) + 1] = x
  OBVIOUS

\* The times and certificates of the history are numbers.
LEMMA HistoryTypes ==
    ASSUME KesTypeOK
    PROVE  /\ Len(forged) \in Nat /\ Cert \in Nat /\ Cert \in 1..Cert
           /\ \A i \in 1..Len(forged) :
                forged[i] \in BlockRecord /\ forged[i].time \in Nat /\ forged[i].cert \in Nat
           /\ \A c \in 1..Cert : certs[c] \in Nat
<1>1. forged \in Seq(BlockRecord) /\ certs \in Seq(Nat) /\ Cert >= 1
  BY DEF KesTypeOK
<1>2. Len(forged) \in Nat /\ Cert \in Nat /\ Cert \in 1..Cert
  BY <1>1 DEF Cert
<1>3. \A c \in 1..Cert : certs[c] \in Nat
  BY <1>1 DEF Cert
<1>4. \A i \in 1..Len(forged) : forged[i] \in BlockRecord
  BY <1>1
<1>5. \A b \in BlockRecord : b.time \in Nat /\ b.cert \in Nat
  BY DEF BlockRecord
<1> QED
  BY <1>2, <1>3, <1>4, <1>5

\* A certificate's end is a time.
LEMMA ExpiryIsTime == ASSUME KesTypeOK, NEW c \in 1..Cert PROVE ExpiryOf(c) \in Int
<1>1. certs[c] \in Nat /\ KesPeriod \in Nat /\ KesPeriod > 0 /\ MaxKesEvolutions \in Nat
  BY HistoryTypes, PeriodAssumption
<1>2. \A m, n \in Nat : m * n \in Nat
  OBVIOUS
<1>3. \A m, n \in Nat : n > 0 => m % n \in Nat
  OBVIOUS
<1>4. certs[c] % KesPeriod \in Nat /\ MaxKesEvolutions * KesPeriod \in Nat
  BY <1>1, <1>2, <1>3
<1> QED
  BY <1>1, <1>4 DEF ExpiryOf, StartOf

\* The certificates of the blocks grow with their times.
LEMMA CertsGrow ==
    ASSUME KesTypeOK, BlocksInOrder, NEW i \in 1..Len(forged), NEW j \in 1..Len(forged), i <= j
    PROVE  forged[i].cert <= forged[j].cert /\ forged[i].time <= forged[j].time
<1>1. /\ forged[i].cert \in Nat /\ forged[j].cert \in Nat
      /\ forged[i].time \in Nat /\ forged[j].time \in Nat
  BY HistoryTypes
<1>2. CASE i = j
  BY <1>1, <1>2
<1>3. CASE i < j
  BY <1>1, <1>3 DEF BlocksInOrder
<1> QED
  BY <1>2, <1>3

\* Nothing is forged, seen or saved at the start.
LEMMA InitKesInv == KesInit => KesInv
<1> SUFFICES ASSUME KesInit PROVE KesInv
  OBVIOUS
<1> USE DEF KesInit
<1>1. certs \in Seq(Nat) /\ Len(certs) = 1 /\ certs[1] = 0 /\ Len(forged) = 0
  OBVIOUS
<1>2. forged \in Seq(BlockRecord)
  OBVIOUS
<1>3. NoKesRow \in KesRowRecord /\ NoBlock \in BlockRecord /\ NoSearch \in SearchRecord
  BY DEF NoKesRow, KesRowRecord, NoBlock, BlockRecord, NoSearch, SearchRecord
<1>4. KesTypeOK
  <2>1. now \in Nat /\ Cert >= 1 /\ kesPc \in {"idle", "search", "commit"}
    BY <1>1 DEF Cert
  <2>2. kesRow \in KesRowRecord /\ kesState \in KesRowRecord /\ newest \in BlockRecord
        /\ search \in SearchRecord
    BY <1>3
  <2>3. /\ tier \in Nat /\ seen \in Nat /\ lastPass \in Nat \cup {Never}
        /\ exact \in BOOLEAN /\ parted \in BOOLEAN /\ found \in BOOLEAN
    OBVIOUS
  <2> QED
    BY <1>1, <1>2, <2>1, <2>2, <2>3 DEF KesTypeOK
<1>5. World
  <2>1. CertsInPast
    BY <1>1 DEF CertsInPast, Cert
  <2>2. BlocksDated /\ BlocksInOrder /\ EachHasFirst /\ FirstSoon
    BY <1>1 DEF BlocksDated, BlocksInOrder, EachHasFirst, FirstSoon
  <2>3. ForgesOften
    BY <1>1, GapAssumption DEF ForgesOften, Later, LastForged, Cert
  <2> QED
    BY <2>1, <2>2, <2>3 DEF World
<1>6. Row
  BY DEF Row, RowDated, PassesOften, RowFresh, RowNear, TierHolds, NoKesRow, Never
<1>7. PassInHand /\ SearchInHand
  BY DEF PassInHand, SearchInHand
<1> QED
  BY <1>4, <1>5, <1>6, <1>7 DEF KesInv

\* The tier is a number, and no lower when less time is left.
LEMMA TierCounts ==
    ASSUME NEW left \in Int, NEW more \in Int, left <= more
    PROVE  TierLevel(left) \in Nat /\ TierLevel(more) <= TierLevel(left)
<1> DEFINE Crossed(t) == { i \in DOMAIN Thresholds : t <= Thresholds[i] }
<1>1. /\ Thresholds \in Seq(Int) /\ DOMAIN Thresholds = 1..Len(Thresholds)
      /\ Len(Thresholds) \in Nat /\ \A i \in DOMAIN Thresholds : Thresholds[i] \in Int
  BY ThresholdsAssumption
<1>2. IsFiniteSet(DOMAIN Thresholds)
  <2>1. 0 \in Int /\ 1 \in Int /\ Len(Thresholds) \in Int
    BY <1>1
  <2> QED
    BY <1>1, <2>1, FS_Interval
<1>3. Crossed(left) \subseteq DOMAIN Thresholds /\ Crossed(more) \subseteq Crossed(left)
  BY <1>1
<1> HIDE DEF Crossed
<1>4. IsFiniteSet(Crossed(left)) /\ IsFiniteSet(Crossed(more))
  BY <1>2, <1>3, FS_Subset
<1>5. Cardinality(Crossed(left)) \in Nat /\ Cardinality(Crossed(more)) \in Nat
  BY <1>4, FS_CardinalityType
<1>6. Cardinality(Crossed(more)) <= Cardinality(Crossed(left))
  BY <1>3, <1>4, FS_Subset
<1> QED
  BY <1>5, <1>6 DEF TierLevel, Crossed

\* The lifetime is a time.
LEMMA LifetimeIsTime == KesLifetime \in Int /\ PassGap \in Nat /\ ForgeGap \in Nat
<1>1. \A m \in Int, n \in Nat : m * n \in Int
  OBVIOUS
<1>2. /\ KesPeriod \in Nat /\ MaxKesEvolutions \in Int /\ MaxKesEvolutions - 1 \in Int
  BY PeriodAssumption
<1> QED
  BY <1>1, <1>2, GapAssumption DEF KesLifetime

\* ------------------------------------------------------ the world outside

\* A block is forged: the first of its certificate comes soon after the renewal.
LEMMA ForgeKeepsWorld == ASSUME KesTypeOK, World, Forge PROVE World'
<1> DEFINE N == Len(forged)
           b == [time |-> now, cert |-> Cert]
<1>1. /\ forged = <<>> \/ LastForged < now
      /\ now < ExpiryOf(Cert)
      /\ forged' = Append(forged, b) /\ now' = now /\ certs' = certs
  BY DEF Forge
<1>2. /\ N \in Nat /\ Cert \in Nat /\ Cert \in 1..Cert /\ now \in Nat
      /\ \A i \in 1..N : forged[i].time \in Nat /\ forged[i].cert \in Nat
      /\ \A c \in 1..Cert : certs[c] \in Nat
  BY HistoryTypes DEF KesTypeOK
<1>3. b \in BlockRecord /\ forged \in Seq(BlockRecord)
  BY <1>2 DEF BlockRecord, KesTypeOK
<1> HIDE DEF b
<1>4. /\ Len(forged') = N + 1 /\ (\A i \in 1..N : forged'[i] = forged[i])
      /\ forged'[N + 1] = b
  BY <1>1, <1>3, Appended
<1>5. b.time = now /\ b.cert = Cert
  BY DEF b
<1>6. /\ CertsInPast /\ BlocksDated /\ BlocksInOrder /\ EachHasFirst /\ ForgesOften /\ FirstSoon
  BY DEF World
<1>7. \A i \in 1..N : forged[i].time < now
  <2> SUFFICES ASSUME NEW i \in 1..N PROVE forged[i].time < now
    OBVIOUS
  <2>1. N >= 1 /\ N \in 1..N /\ i <= N
    BY <1>2
  <2>2. forged # <<>>
    BY <2>1
  <2>3. LastForged = forged[N].time /\ LastForged < now
    BY <1>1, <2>2 DEF LastForged
  <2>4. forged[i].time <= forged[N].time
    BY <1>6, <2>1, CertsGrow
  <2> QED
    BY <1>2, <2>1, <2>3, <2>4
<1>8. \A i \in 1..Len(forged') : i \in 1..N \/ i = N + 1
  BY <1>2, <1>4
<1>9. CertsInPast' /\ BlocksDated' /\ Cert' = Cert
  BY <1>1, <1>2, <1>4, <1>5, <1>6, <1>8 DEF CertsInPast, BlocksDated, Cert
<1>10. BlocksInOrder'
  <2> SUFFICES ASSUME NEW i \in 1..Len(forged'), NEW j \in 1..Len(forged'), i < j
               PROVE  forged'[i].time < forged'[j].time /\ forged'[i].cert <= forged'[j].cert
    BY DEF BlocksInOrder
  <2>1. i \in 1..N
    BY <1>2, <1>4
  <2>2. CASE j \in 1..N
    BY <1>4, <1>6, <2>1, <2>2 DEF BlocksInOrder
  <2>3. CASE j = N + 1
    BY <1>4, <1>5, <1>6, <1>7, <2>1, <2>3 DEF BlocksDated
  <2> QED
    BY <1>8, <2>2, <2>3
<1>11. \A f \in 1..N : IsFirst(f)' <=> IsFirst(f)
  <2> SUFFICES ASSUME NEW f \in 1..N PROVE IsFirst(f)' <=> IsFirst(f)
    OBVIOUS
  <2>1. \A j \in 1..(f - 1) : j \in 1..N
    BY <1>2
  <2>2. /\ forged'[f] = forged[f]
        /\ \A j \in 1..(f - 1) : forged'[j] = forged[j]
    BY <1>4, <2>1
  <2> QED
    BY <2>2 DEF IsFirst
<1>12. ASSUME NEW f, f = N + 1
       PROVE  IsFirst(f)' <=> \A j \in 1..N : forged[j].cert # Cert
  <2>1. f - 1 = N
    BY <1>2, <1>12
  <2>2. IsFirst(f)' <=> \A j \in 1..N : forged'[j].cert # forged'[f].cert
    BY <2>1 DEF IsFirst
  <2> QED
    BY <1>4, <1>5, <1>12, <2>2
<1>13. EachHasFirst'
  <2> SUFFICES ASSUME NEW i \in 1..Len(forged')
               PROVE  \E f \in 1..i : IsFirst(f)' /\ forged'[f].cert = forged'[i].cert
    BY DEF EachHasFirst
  <2>1. ASSUME NEW k \in 1..N, k <= i, forged[k].cert = forged'[i].cert
        PROVE  \E f \in 1..i : IsFirst(f)' /\ forged'[f].cert = forged'[i].cert
    <3>1. PICK f \in 1..k : IsFirst(f) /\ forged[f].cert = forged[k].cert
      BY <1>6 DEF EachHasFirst
    <3>2. f \in 1..N /\ f \in 1..i
      BY <1>2, <1>4, <2>1
    <3> QED
      BY <1>4, <1>11, <2>1, <3>1, <3>2
  <2>2. CASE i \in 1..N
    BY <1>2, <1>4, <2>1, <2>2
  <2>3. CASE i = N + 1
    <3>1. CASE \E k \in 1..N : forged[k].cert = Cert
      BY <1>2, <1>4, <1>5, <2>1, <2>3, <3>1
    <3>2. CASE \A k \in 1..N : forged[k].cert # Cert
      <4>1. i \in 1..i /\ IsFirst(i)'
        BY <1>2, <1>12, <2>3, <3>2
      <4> QED
        BY <4>1
    <3> QED
      BY <3>1, <3>2
  <2> QED
    BY <1>8, <2>2, <2>3
<1>14. LastForged' = now
  BY <1>2, <1>4, <1>5 DEF LastForged
<1>15. ForgesOften'
  BY <1>1, <1>2, <1>9, <1>14, GapAssumption DEF ForgesOften, Later
<1>16. FirstSoon'
  <2> SUFFICES ASSUME NEW f \in 1..Len(forged'), IsFirst(f)'
               PROVE  forged'[f].time <= certs'[forged'[f].cert] + ForgeGap
    BY DEF FirstSoon
  <2>1. CASE f \in 1..N
    BY <1>1, <1>4, <1>6, <1>11, <2>1 DEF FirstSoon
  <2>2. CASE f = N + 1
    <3>1. \A j \in 1..N : forged[j].cert # Cert
      BY <1>12, <2>2
    <3>2. \A j \in 1..N : forged[j].time <= certs[Cert]
      BY <1>2, <1>6, <3>1 DEF BlocksDated
    <3>3. LastForged <= certs[Cert] /\ LastForged \in Nat
      BY <1>2, <3>2 DEF LastForged
    <3>4. Later(LastForged, certs[Cert]) = certs[Cert]
      BY <1>2, <3>3 DEF Later
    <3>5. now <= certs[Cert] + ForgeGap
      BY <1>1, <1>6, <3>4 DEF ForgesOften
    <3> QED
      BY <1>1, <1>4, <1>5, <2>2, <3>5
  <2> QED
    BY <1>8, <2>1, <2>2
<1> QED
  BY <1>9, <1>10, <1>13, <1>15, <1>16 DEF World

\* Time passes: not so long that a pool with a usable certificate is dry.
LEMMA TickKeepsWorld == ASSUME KesTypeOK, World, KesTick PROVE World'
<1>1. /\ now' = now + 1 /\ certs' = certs /\ forged' = forged
      /\ now >= ExpiryOf(Cert) \/ now < Later(LastForged, certs[Cert]) + ForgeGap
  BY DEF KesTick
<1>2. /\ Len(forged) \in Nat /\ Cert \in Nat /\ Cert \in 1..Cert /\ now \in Nat
      /\ \A i \in 1..Len(forged) : forged[i].time \in Nat /\ forged[i].cert \in Nat
      /\ \A c \in 1..Cert : certs[c] \in Nat
  BY HistoryTypes DEF KesTypeOK
<1>3. ExpiryOf(Cert) \in Int
  BY <1>2, ExpiryIsTime
<1>4. LastForged \in Nat
  <2>1. CASE forged = <<>>
    BY <2>1 DEF LastForged
  <2>2. CASE forged # <<>>
    BY <1>2, <2>2 DEF LastForged, KesTypeOK
  <2> QED
    BY <2>1, <2>2
<1>5. Later(LastForged, certs[Cert]) \in Nat
  BY <1>2, <1>4 DEF Later
<1>6. /\ ExpiryOf(Cert)' = ExpiryOf(Cert) /\ Cert' = Cert
      /\ Later(LastForged, certs[Cert])' = Later(LastForged, certs[Cert])
  BY <1>1 DEF ExpiryOf, StartOf, Later, LastForged, Cert
<1>7. ForgesOften'
  BY <1>1, <1>2, <1>3, <1>5, <1>6, GapAssumption DEF ForgesOften
<1>8. CertsInPast'
  BY <1>1, <1>2, <1>6 DEF World, CertsInPast
<1>9. BlocksDated'
  BY <1>1, <1>2, <1>6 DEF World, BlocksDated
<1>10. BlocksInOrder' /\ EachHasFirst' /\ FirstSoon'
  BY <1>1 DEF World, BlocksInOrder, EachHasFirst, FirstSoon, IsFirst
<1> QED
  BY <1>7, <1>8, <1>9, <1>10 DEF World

\* A new certificate is younger than every block.
LEMMA RenewKeepsWorld == ASSUME KesTypeOK, World, Renew PROVE World'
<1> DEFINE C == Len(certs)
<1>1. now' = now /\ certs' = Append(certs, now) /\ forged' = forged
  BY DEF Renew
<1>2. /\ Len(forged) \in Nat /\ C \in Nat /\ C >= 1 /\ now \in Nat
      /\ \A i \in 1..Len(forged) : forged[i].time \in Nat /\ forged[i].cert \in Nat
      /\ \A c \in 1..C : certs[c] \in Nat
  BY HistoryTypes DEF KesTypeOK, Cert
<1>3. certs \in Seq(Nat)
  BY DEF KesTypeOK
<1>4. /\ Len(certs') = C + 1 /\ (\A c \in 1..C : certs'[c] = certs[c])
      /\ certs'[C + 1] = now
  BY <1>1, <1>2, <1>3, Appended
<1>5. \A c \in 1..Len(certs') : c \in 1..C \/ c = C + 1
  BY <1>2, <1>4
<1>6. /\ CertsInPast /\ BlocksDated /\ BlocksInOrder /\ EachHasFirst /\ FirstSoon
  BY DEF World
<1>7. CertsInPast'
  BY <1>1, <1>2, <1>4, <1>5, <1>6 DEF CertsInPast, Cert
<1>8. \A i \in 1..Len(forged) :
         forged[i].cert \in 1..C /\ certs'[forged[i].cert] = certs[forged[i].cert]
  BY <1>2, <1>4, <1>6 DEF BlocksDated, Cert
<1>9. BlocksDated'
  <2> SUFFICES ASSUME NEW i \in 1..Len(forged)
               PROVE  /\ 1 <= forged[i].cert /\ forged[i].cert <= Len(certs')
                      /\ certs'[forged[i].cert] <= forged[i].time /\ forged[i].time <= now
                      /\ \A c \in 1..Len(certs') : forged[i].cert < c => forged[i].time <= certs'[c]
    BY <1>1 DEF BlocksDated, Cert
  <2>1. /\ 1 <= forged[i].cert /\ forged[i].cert <= C
        /\ certs[forged[i].cert] <= forged[i].time /\ forged[i].time <= now
        /\ \A c \in 1..C : forged[i].cert < c => forged[i].time <= certs[c]
    BY <1>6 DEF BlocksDated, Cert
  <2>2. 1 <= forged[i].cert /\ forged[i].cert <= Len(certs')
    BY <1>2, <1>4, <2>1
  <2>3. certs'[forged[i].cert] <= forged[i].time /\ forged[i].time <= now
    BY <1>8, <2>1
  <2>4. \A c \in 1..Len(certs') : forged[i].cert < c => forged[i].time <= certs'[c]
    BY <1>4, <1>5, <2>1
  <2> QED
    BY <2>2, <2>3, <2>4
<1>10. BlocksInOrder' /\ EachHasFirst'
  BY <1>1, <1>6 DEF BlocksInOrder, EachHasFirst, IsFirst
<1>11. FirstSoon'
  BY <1>1, <1>6, <1>8 DEF FirstSoon, IsFirst
<1>12. ForgesOften'
  <2>1. certs'[Cert'] = now
    BY <1>4 DEF Cert
  <2>2. LastForged' \in Nat
    BY <1>1, <1>2 DEF LastForged
  <2>3. now <= Later(LastForged', now) /\ Later(LastForged', now) \in Nat
    BY <1>2, <2>2 DEF Later
  <2>4. Later(LastForged, certs[Cert])' = Later(LastForged', now)
    BY <2>1 DEF Later
  <2>5. now' <= Later(LastForged, certs[Cert])' + ForgeGap
    BY <1>1, <1>2, <2>3, <2>4, GapAssumption
  <2> QED
    BY <2>5 DEF ForgesOften
<1> QED
  BY <1>7, <1>9, <1>10, <1>11, <1>12 DEF World

\* The world's steps take nothing from the row: a new block is no older than the
\* last pass, a new certificate changes no older one.
LEMMA WorldKeepsRow ==
    ASSUME KesTypeOK, World, Row, Forge \/ KesTick \/ Renew PROVE Row'
<1>1. /\ kesRow' = kesRow /\ tier' = tier /\ seen' = seen /\ lastPass' = lastPass
      /\ exact' = exact /\ parted' = parted
  BY DEF Forge, KesTick, Renew, pastVars
<1>2. /\ Len(forged) \in Nat /\ Cert \in Nat /\ Cert \in 1..Cert /\ now \in Nat
      /\ \A i \in 1..Len(forged) : forged[i].time \in Nat /\ forged[i].cert \in Nat
      /\ \A c \in 1..Cert : certs[c] \in Nat
  BY HistoryTypes DEF KesTypeOK
<1>3. /\ kesRow.counter \in Nat /\ lastPass \in Nat \cup {Never}
  BY DEF KesTypeOK, KesRowRecord
<1>4. RowDated /\ PassesOften /\ RowFresh /\ RowNear /\ TierHolds
  BY DEF Row
<1>5. now' = now => TierHolds'
  BY <1>1, <1>4 DEF TierHolds, TierLevel, KesLifetime
<1>6. CASE Forge
  <2> DEFINE N == Len(forged)
             b == [time |-> now, cert |-> Cert]
  <2>1. forged' = Append(forged, b) /\ now' = now /\ certs' = certs
    BY <1>6 DEF Forge
  <2>2. b \in BlockRecord /\ forged \in Seq(BlockRecord) /\ b.time = now /\ b.cert = Cert
    BY <1>2 DEF BlockRecord, KesTypeOK
  <2> HIDE DEF b
  <2>3. /\ Len(forged') = N + 1 /\ (\A i \in 1..N : forged'[i] = forged[i])
        /\ forged'[N + 1] = b
    BY <2>1, <2>2, Appended
  <2>4. forged' # <<>> /\ forged'[Len(forged')].cert = Cert
    BY <1>2, <2>2, <2>3
  <2>5. RowDated'
    BY <1>1, <1>2, <1>3, <1>4, <2>1, <2>4 DEF RowDated, Cert
  <2>6. PassesOften'
    BY <1>1, <1>4, <2>1 DEF PassesOften
  <2>7. RowFresh'
    <3> SUFFICES ASSUME kesRow.counter # 0, ~parted
                 PROVE  /\ lastPass # Never
                        /\ \A i \in 1..Len(forged') :
                             kesRow.counter < forged'[i].cert => lastPass <= forged'[i].time
      BY <1>1 DEF RowFresh
    <3>1. lastPass # Never /\ lastPass <= now
      BY <1>4 DEF RowFresh, PassesOften
    <3>2. \A i \in 1..N : kesRow.counter < forged[i].cert => lastPass <= forged[i].time
      BY <1>4 DEF RowFresh
    <3>3. \A i \in 1..Len(forged') : i \in 1..N \/ i = N + 1
      BY <1>2, <2>3
    <3> QED
      BY <2>2, <2>3, <3>1, <3>2, <3>3
  <2>8. RowNear'
    BY <1>1, <1>4, <2>1 DEF RowNear
  <2> QED
    BY <1>5, <2>1, <2>5, <2>6, <2>7, <2>8 DEF Row
<1>7. CASE KesTick
  <2>1. /\ now' = now + 1 /\ certs' = certs /\ forged' = forged
        /\ lastPass = Never \/ now < lastPass + PassGap
    BY <1>7 DEF KesTick
  <2>2. PassesOften'
    BY <1>1, <1>2, <1>3, <1>4, <2>1, GapAssumption DEF PassesOften
  <2>3. RowDated' /\ RowFresh' /\ RowNear'
    BY <1>1, <1>4, <2>1 DEF RowDated, RowFresh, RowNear, Cert
  <2>4. TierHolds'
    <3> SUFFICES ASSUME ~parted, seen # 0
                 PROVE  /\ kesRow.counter = seen
                        /\ tier <= TierLevel(kesRow.rotation + KesLifetime - now)'
      BY <1>1 DEF TierHolds
    <3> DEFINE left == kesRow.rotation + KesLifetime - (now + 1)
               more == kesRow.rotation + KesLifetime - now
    <3>1. left \in Int /\ more \in Int /\ left <= more /\ tier \in Nat
      <4>1. kesRow.rotation \in Int /\ tier \in Nat
        BY DEF KesTypeOK, KesRowRecord
      <4> QED
        BY <1>2, <4>1, LifetimeIsTime
    <3>2. kesRow.counter = seen /\ tier <= TierLevel(more)
      BY <1>4 DEF TierHolds
    <3>3. TierLevel(kesRow.rotation + KesLifetime - now)' = TierLevel(left)
      BY <1>1, <2>1 DEF TierLevel, KesLifetime
    <3> HIDE DEF left, more
    <3>4. /\ TierLevel(left) \in Nat /\ TierLevel(more) \in Nat
          /\ TierLevel(more) <= TierLevel(left)
      BY <3>1, TierCounts
    <3> QED
      BY <3>1, <3>2, <3>3, <3>4
  <2> QED
    BY <2>2, <2>3, <2>4 DEF Row
<1>8. CASE Renew
  <2>1. now' = now /\ certs' = Append(certs, now) /\ forged' = forged
    BY <1>8 DEF Renew
  <2>2. certs \in Seq(Nat)
    BY DEF KesTypeOK
  <2>3. /\ Len(certs') = Len(certs) + 1 /\ (\A c \in 1..Len(certs) : certs'[c] = certs[c])
    BY <1>2, <2>1, <2>2, Appended
  <2>4. kesRow.counter # 0 => kesRow.counter \in 1..Len(certs)
    BY <1>2, <1>3, <1>4 DEF RowDated, Cert
  <2>5. RowDated'
    BY <1>1, <1>2, <1>3, <1>4, <2>1, <2>3, <2>4 DEF RowDated, Cert
  <2>6. PassesOften' /\ RowFresh'
    BY <1>1, <1>4, <2>1 DEF PassesOften, RowFresh
  <2>7. RowNear'
    BY <1>1, <1>4, <2>3, <2>4 DEF RowNear
  <2> QED
    BY <1>5, <2>1, <2>5, <2>6, <2>7 DEF Row
<1> QED
  BY <1>6, <1>7, <1>8

\* What a pass knows of the block it has read.
LEMMA NewestFacts ==
    ASSUME KesTypeOK, World, PassInHand, kesPc # "idle"
    PROVE  /\ AtStart \in 1..Len(forged) /\ newest = forged[AtStart]
           /\ newest.cert \in 1..Cert /\ newest.cert \in Nat /\ newest.time \in Nat
           /\ certs[newest.cert] <= newest.time /\ newest.time <= now
           /\ newest.cert <= forged[Len(forged)].cert
           /\ \A i \in 1..Len(forged) : newest.cert < forged[i].cert => began <= forged[i].time
<1>1. /\ Len(forged) \in Nat /\ Cert \in Nat
      /\ \A i \in 1..Len(forged) : forged[i].time \in Nat /\ forged[i].cert \in Nat
      /\ \A c \in 1..Cert : certs[c] \in Nat
  BY HistoryTypes
<1>2. /\ AtStart \in 1..Len(forged) /\ newest = forged[AtStart]
      /\ \A i \in 1..Len(forged) : AtStart < i => began <= forged[i].time
  BY DEF PassInHand
<1>3. BlocksDated /\ BlocksInOrder
  BY DEF World
<1> DEFINE n == AtStart
<1> HIDE DEF n
<1>4. n \in 1..Len(forged) /\ newest = forged[n]
  BY <1>2 DEF n
<1>5. newest.cert \in 1..Cert /\ certs[newest.cert] <= newest.time /\ newest.time <= now
  BY <1>1, <1>3, <1>4 DEF BlocksDated
<1>6. newest.cert <= forged[Len(forged)].cert
  <2>1. Len(forged) \in 1..Len(forged) /\ n <= Len(forged)
    BY <1>1, <1>4
  <2> QED
    BY <1>3, <1>4, <2>1, CertsGrow
<1>7. ASSUME NEW i \in 1..Len(forged), newest.cert < forged[i].cert
      PROVE  began <= forged[i].time
  <2>1. CASE n < i
    BY <1>2, <2>1 DEF n
  <2>2. CASE ~(n < i)
    <3>1. i <= n
      BY <1>1, <1>4, <2>2
    <3>2. forged[i].cert <= forged[n].cert
      BY <1>3, <1>4, <3>1, CertsGrow
    <3> QED
      BY <1>1, <1>4, <1>7, <3>2
  <2> QED
    BY <2>1, <2>2
<1> QED
  BY <1>1, <1>2, <1>4, <1>5, <1>6, <1>7

\* A block forged during the pass moves the indices, not the places.
LEMMA ForgeKeepsPass ==
    ASSUME KesTypeOK, World, PassInHand, SearchInHand, Forge
    PROVE  PassInHand' /\ SearchInHand'
<1> DEFINE N == Len(forged)
           b == [time |-> now, cert |-> Cert]
<1>1. /\ forged' = Append(forged, b) /\ now' = now /\ certs' = certs /\ kesRow' = kesRow
      /\ kesPc' = kesPc /\ began' = began /\ newest' = newest
      /\ found' = found /\ kesState' = kesState
      /\ search' = IF kesPc # "idle" THEN [search EXCEPT !.moved = @ + 1] ELSE search
      /\ parted' = parted
  BY DEF Forge, pastVars
<1>2. /\ N \in Nat /\ Cert \in Nat /\ now \in Nat
      /\ \A i \in 1..N : forged[i].time \in Nat /\ forged[i].cert \in Nat
  BY HistoryTypes DEF KesTypeOK
<1>3. b \in BlockRecord /\ forged \in Seq(BlockRecord) /\ b.time = now /\ b.cert = Cert
  <2>1. Cert \in Nat /\ now \in Nat
    BY <1>2
  <2> QED
    BY <2>1 DEF BlockRecord, KesTypeOK
<1> HIDE DEF b
<1>4. /\ Len(forged') = N + 1 /\ (\A i \in 1..N : forged'[i] = forged[i])
      /\ forged'[N + 1] = b
  BY <1>1, <1>3, Appended
<1>5. \A i \in 1..Len(forged') : i \in 1..N \/ i = N + 1
  BY <1>2, <1>4
<1>6. CASE kesPc = "idle"
  BY <1>1, <1>6 DEF PassInHand, SearchInHand
<1>7. CASE kesPc # "idle"
  <2>1. /\ search.lo \in Nat /\ search.hi \in Int /\ search.moved \in Nat
        /\ search \in SearchRecord
    BY DEF KesTypeOK, SearchRecord
  <2>2. /\ search'.moved = search.moved + 1 /\ search'.lo = search.lo
        /\ search'.hi = search.hi /\ search'.best = search.best
        /\ search'.older = search.older /\ search'.missed = search.missed
    BY <1>1, <1>7, <2>1 DEF SearchRecord
  <2>3. AtStart' = AtStart /\ AtStart \in Int /\ AtStart \in 1..N
    <3>1. AtStart \in 1..N
      BY <1>7, NewestFacts
    <3>2. AtStart' = (N + 1) - (search.moved + 1)
      BY <1>4, <2>2 DEF AtStart
    <3>3. AtStart' = AtStart
      BY <1>2, <2>1, <3>2 DEF AtStart
    <3> QED
      BY <1>2, <3>1, <3>3
  <2>4. newest = forged[AtStart] /\ newest.cert \in Nat /\ newest.cert <= forged[N].cert
    BY <1>7, NewestFacts
  <2>5. PassInHand'
    <3>1. AtStart' \in 1..Len(forged') /\ newest' = forged'[AtStart']
      BY <1>1, <1>2, <1>4, <2>3, <2>4
    <3>2. \A i \in 1..Len(forged') : AtStart' < i => began' <= forged'[i].time
      BY <1>1, <1>3, <1>4, <1>5, <1>7, <2>3 DEF PassInHand
    <3>3. /\ began' <= now' /\ now' <= began' + PassGap
          /\ kesRow'.counter <= newest'.cert
          /\ ~parted' /\ kesRow'.counter # 0 => found'
          /\ found' => /\ kesPc' = "commit" /\ kesRow'.counter # 0
                       /\ kesState' = Tracked(kesRow', newest')
      BY <1>1, <1>7 DEF PassInHand
    <3> QED
      BY <3>1, <3>2, <3>3 DEF PassInHand
  <2>6. ASSUME ~found PROVE SearchInHand'
    <3>1. /\ search.lo <= search.hi + 1 /\ search.hi < Window
          /\ kesPc = "commit" =>
               /\ search.lo > search.hi
               /\ kesState = [counter |-> newest.cert, rotation |-> search.best,
                              confidence |-> IF search.older THEN "ok" ELSE "lowerbound"]
          /\ BestFound
          /\ forged[N].cert = newest.cert =>
               /\ search.older => OlderFound
               /\ ~search.older /\ ~search.missed => AtStart - search.hi <= OldestInWindow
      BY <1>7, <2>6 DEF SearchInHand
    <3>2. BestFound'
      <4>1. PICK p \in 1..N :
              /\ forged[p].time = search.best /\ forged[p].cert = newest.cert
              /\ AtStart - Window + 1 <= p /\ p <= N - search.lo + 1
        BY <3>1 DEF BestFound
      <4>2. p \in 1..Len(forged') /\ forged'[p] = forged[p]
        BY <1>2, <1>4
      <4>3. p <= Len(forged') - search.lo + 1
        BY <1>2, <1>4, <2>1, <4>1
      <4> QED
        BY <1>1, <2>2, <2>3, <4>1, <4>2, <4>3 DEF BestFound
    <3>3. ASSUME forged'[Len(forged')].cert = newest.cert
          PROVE  /\ forged[N].cert = newest.cert
                 /\ OlderFound => OlderFound'
                 /\ OldestInWindow' = OldestInWindow
      <4>1. N \in 1..N
        BY <1>2, <2>3
      <4>2. forged[N].cert = newest.cert
        BY <1>2, <1>3, <1>4, <2>4, <3>3, <4>1 DEF World, BlocksDated
      <4>3. OldestInWindow' = OldestInWindow
        BY <2>3 DEF OldestInWindow, Later
      <4>4. OlderFound => OlderFound'
        <5> SUFFICES ASSUME OlderFound PROVE OlderFound'
          OBVIOUS
        <5>1. PICK j \in 1..N :
                /\ forged[j].cert # newest.cert /\ AtStart - Window + 1 <= j
                /\ ~search.missed => AtStart - search.hi - 1 <= j
          BY DEF OlderFound
        <5>2. j \in 1..Len(forged') /\ forged'[j] = forged[j]
          BY <1>2, <1>4
        <5> QED
          BY <1>1, <2>2, <2>3, <5>1, <5>2 DEF OlderFound
      <4> QED
        BY <4>2, <4>3, <4>4
    <3> QED
      BY <1>1, <2>2, <2>3, <3>1, <3>2, <3>3 DEF SearchInHand
  <2>7. CASE found
    BY <1>1, <2>5, <2>7 DEF SearchInHand
  <2> QED
    BY <2>5, <2>6, <2>7
<1> QED
  BY <1>6, <1>7

\* The world's steps keep all of it.
LEMMA WorldStepKeeps == ASSUME KesInv, Forge \/ KesTick \/ Renew PROVE KesInv'
<1>1. KesTypeOK /\ World /\ Row /\ PassInHand /\ SearchInHand
  BY DEF KesInv
<1>2. World' /\ Row'
  BY <1>1, ForgeKeepsWorld, TickKeepsWorld, RenewKeepsWorld, WorldKeepsRow
<1>3. KesTypeOK'
  <2>1. CASE Forge
    <3> DEFINE b == [time |-> now, cert |-> Cert]
    <3>0. now \in Nat /\ Cert \in Nat
      BY <1>1, HistoryTypes DEF KesTypeOK
    <3>1. b \in BlockRecord /\ forged \in Seq(BlockRecord) /\ forged' = Append(forged, b)
      BY <1>1, <2>1, <3>0 DEF BlockRecord, KesTypeOK, Forge
    <3> HIDE DEF b
    <3>2. forged' \in Seq(BlockRecord)
      BY <3>1, Appended
    <3>3. search' \in SearchRecord
      <4>1. search \in SearchRecord /\ search.moved + 1 \in Nat
        BY <1>1 DEF KesTypeOK, SearchRecord
      <4>2. search' = [search EXCEPT !.moved = search.moved + 1] \/ search' = search
        BY <2>1 DEF Forge
      <4> QED
        BY <4>1, <4>2 DEF SearchRecord
    <3>4. /\ now' = now /\ certs' = certs /\ kesRow' = kesRow /\ kesState' = kesState
          /\ kesPc' = kesPc /\ began' = began /\ newest' = newest /\ found' = found
          /\ tier' = tier /\ seen' = seen /\ lastPass' = lastPass
          /\ exact' = exact /\ parted' = parted
      BY <2>1 DEF Forge, pastVars
    <3> QED
      BY <1>1, <3>2, <3>3, <3>4 DEF KesTypeOK, Cert
  <2>2. CASE KesTick
    BY <1>1, <2>2 DEF KesTick, searchVars, pastVars, KesTypeOK, Cert
  <2>3. CASE Renew
    <3>1. certs \in Seq(Nat) /\ now \in Nat /\ Cert \in Nat /\ Cert >= 1
      BY <1>1, HistoryTypes DEF KesTypeOK
    <3>2. certs' \in Seq(Nat) /\ Len(certs') = Len(certs) + 1
      BY <2>3, <3>1, Appended DEF Renew
    <3>3. Cert' >= 1
      BY <3>1, <3>2 DEF Cert
    <3> QED
      BY <1>1, <2>3, <3>2, <3>3 DEF Renew, searchVars, pastVars, KesTypeOK
  <2> QED
    BY <2>1, <2>2, <2>3
<1>4. PassInHand' /\ SearchInHand'
  <2>1. CASE Forge
    BY <1>1, <2>1, ForgeKeepsPass
  <2>2. CASE KesTick
    <3>1. /\ forged' = forged /\ kesRow' = kesRow /\ kesPc' = kesPc /\ began' = began
          /\ newest' = newest /\ found' = found /\ kesState' = kesState /\ search' = search
          /\ parted' = parted
      BY <2>2 DEF KesTick, searchVars, pastVars
    <3>2. SearchInHand'
      BY <1>1, <3>1 DEF SearchInHand, BestFound, OlderFound, AtStart, OldestInWindow, Later
    <3>3. kesPc # "idle" => began' <= now' /\ now' <= began' + PassGap
      <4>1. now' = now + 1 /\ (kesPc # "idle" => now < began + PassGap)
        BY <2>2 DEF KesTick
      <4>2. now \in Nat /\ began \in Nat /\ PassGap \in Nat
        BY <1>1, LifetimeIsTime DEF KesTypeOK
      <4> QED
        BY <1>1, <3>1, <4>1, <4>2 DEF PassInHand
    <3>4. AtStart' = AtStart /\ Tracked(kesRow, newest)' = Tracked(kesRow, newest)
      BY <3>1 DEF AtStart, Tracked
    <3>5. PassInHand'
      BY <1>1, <3>1, <3>3, <3>4 DEF PassInHand
    <3> QED
      BY <3>2, <3>5
  <2>3. CASE Renew
    <3>1. /\ now' = now /\ forged' = forged /\ kesRow' = kesRow /\ kesPc' = kesPc
          /\ began' = began /\ newest' = newest /\ found' = found
          /\ kesState' = kesState /\ search' = search /\ parted' = parted
      BY <2>3 DEF Renew, searchVars, pastVars
    <3> QED
      BY <1>1, <3>1
      DEF PassInHand, SearchInHand, BestFound, OlderFound, AtStart, OldestInWindow, Later,
          Tracked
  <2> QED
    BY <2>1, <2>2, <2>3
<1> QED
  BY <1>2, <1>3, <1>4 DEF KesInv

\* --------------------------------------------------------------- the pass

\* A pass begins with the latest block and, if it is loaded, the row.
LEMMA StartKeeps ==
    ASSUME KesInv, NEW loaded \in BOOLEAN, StartAssess(loaded) PROVE KesInv'
<1> DEFINE N == Len(forged)
<1>1. /\ forged # <<>> /\ began' = now /\ newest' = forged[N]
      /\ found' = (loaded /\ kesRow.counter # 0)
      /\ parted' = (parted \/ ~loaded)
      /\ now' = now /\ certs' = certs /\ forged' = forged /\ kesRow' = kesRow
      /\ tier' = tier /\ seen' = seen /\ lastPass' = lastPass /\ exact' = exact
  BY DEF StartAssess
<1>2. KesTypeOK /\ World /\ Row /\ PassInHand /\ SearchInHand
  BY DEF KesInv
<1>3. /\ N \in Nat /\ N >= 1 /\ N \in 1..N /\ forged[N] \in BlockRecord
      /\ forged[N].time \in Nat /\ forged[N].cert \in Nat
  <2>1. N \in Nat /\ N # 0
    BY <1>1, <1>2, HistoryTypes DEF KesTypeOK
  <2>2. N \in 1..N
    BY <2>1
  <2> QED
    BY <1>2, <2>1, <2>2, HistoryTypes
<1>4. World'
  BY <1>1, <1>2
  DEF World, CertsInPast, BlocksDated, BlocksInOrder, EachHasFirst, ForgesOften, FirstSoon,
      IsFirst, ExpiryOf, StartOf, LastForged, Cert
<1>5. Row'
  <2>1. RowDated' /\ PassesOften'
    BY <1>1, <1>2 DEF Row, RowDated, PassesOften, Cert
  <2>2. (parted' = FALSE) => (parted = FALSE)
    BY <1>1, <1>2 DEF KesTypeOK
  <2>3. RowFresh' /\ RowNear'
    BY <1>1, <1>2, <2>2 DEF Row, RowFresh, RowNear
  <2>4. TierHolds'
    BY <1>1, <1>2, <2>2 DEF Row, TierHolds, TierLevel, KesLifetime
  <2> QED
    BY <2>1, <2>3, <2>4 DEF Row
<1>6. kesRow.counter \in Nat /\ kesRow.counter <= forged[N].cert
  BY <1>2, <1>3 DEF KesTypeOK, KesRowRecord, Row, RowDated
<1>7. CASE found'
  <2>1. kesPc' = "commit" /\ kesState' = Tracked(kesRow, newest') /\ search' = NoSearch
    BY <1>7 DEF StartAssess
  <2>2. AtStart' = N /\ search'.moved = 0
    BY <1>1, <1>3, <2>1 DEF AtStart, NoSearch
  <2>3. kesState' \in KesRowRecord
    BY <1>1, <1>2, <1>3, <2>1 DEF Tracked, KesTypeOK, KesRowRecord
  <2>4. search' \in SearchRecord
    BY <2>1 DEF NoSearch, SearchRecord
  <2>5. KesTypeOK'
    BY <1>1, <1>2, <1>3, <2>1, <2>3, <2>4 DEF KesTypeOK, Cert
  <2>6. PassInHand'
    <3>1. AtStart' \in 1..Len(forged') /\ newest' = forged'[AtStart']
      BY <1>1, <1>3, <2>2
    <3>2. \A i \in 1..Len(forged') : AtStart' < i => began' <= forged'[i].time
      BY <1>1, <1>3, <2>2
    <3>3. kesRow'.counter <= newest'.cert /\ kesRow'.counter # 0
      BY <1>1, <1>6, <1>7
    <3>4. began' <= now' /\ now' <= began' + PassGap
      BY <1>1, <1>2, LifetimeIsTime DEF KesTypeOK
    <3> QED
      BY <1>1, <1>7, <2>1, <3>1, <3>2, <3>3, <3>4 DEF PassInHand, Tracked
  <2>7. SearchInHand'
    BY <1>7 DEF SearchInHand
  <2> QED
    BY <1>4, <1>5, <2>5, <2>6, <2>7 DEF KesInv
<1>8. CASE ~found'
  <2>1. /\ kesPc' = "search" /\ kesState' = NoKesRow
        /\ search' = [NoSearch EXCEPT !.hi = Window - 1, !.best = newest'.time]
    BY <1>8 DEF StartAssess
  <2>2. /\ search'.lo = 0 /\ search'.hi = Window - 1 /\ search'.best = forged[N].time
        /\ search'.older = FALSE /\ search'.moved = 0 /\ search'.missed = FALSE
        /\ search' \in SearchRecord
    <3> DEFINE t == forged[N].time
               h == Window - 1
    <3>1. t \in Nat /\ h \in Int
      BY <1>3, WindowAssumption
    <3>2. search' = [lo |-> 0, hi |-> h, best |-> t, older |-> FALSE,
                     probes |-> 0, moved |-> 0, missed |-> FALSE]
      BY <1>1, <2>1 DEF NoSearch
    <3> HIDE DEF t, h
    <3>3. search' \in SearchRecord
      BY <3>1, <3>2 DEF SearchRecord
    <3> QED
      BY <3>2, <3>3 DEF t, h
  <2>3. AtStart' = N
    BY <1>1, <1>3, <2>2 DEF AtStart
  <2>4. KesTypeOK'
    <3>1. kesState' \in KesRowRecord
      BY <2>1 DEF NoKesRow, KesRowRecord
    <3> QED
      BY <1>1, <1>2, <1>3, <1>8, <2>1, <2>2, <3>1 DEF KesTypeOK, Cert
  <2>5. PassInHand'
    <3>1. AtStart' \in 1..Len(forged') /\ newest' = forged'[AtStart']
      BY <1>1, <1>3, <2>3
    <3>2. \A i \in 1..Len(forged') : AtStart' < i => began' <= forged'[i].time
      BY <1>1, <1>3, <2>3
    <3>3. kesRow'.counter <= newest'.cert
      BY <1>1, <1>6
    <3>4. ~parted' /\ kesRow'.counter # 0 => found'
      BY <1>1
    <3>5. began' <= now' /\ now' <= began' + PassGap
      BY <1>1, <1>2, LifetimeIsTime DEF KesTypeOK
    <3> QED
      BY <1>8, <3>1, <3>2, <3>3, <3>4, <3>5 DEF PassInHand
  <2>6. BestFound'
    <3>1. /\ forged'[N].time = search'.best /\ forged'[N].cert = newest'.cert
          /\ AtStart' - Window + 1 <= N /\ N <= Len(forged') - search'.lo + 1
      BY <1>1, <1>3, <2>2, <2>3, WindowAssumption
    <3> QED
      BY <1>1, <1>3, <3>1 DEF BestFound
  <2>7. AtStart' - search'.hi <= OldestInWindow'
    BY <1>3, <2>2, <2>3, WindowAssumption DEF OldestInWindow, Later
  <2>8. search'.lo <= search'.hi + 1 /\ search'.hi < Window
    BY <2>2, WindowAssumption
  <2> QED
    BY <1>4, <1>5, <2>1, <2>2, <2>4, <2>5, <2>6, <2>7, <2>8 DEF KesInv, SearchInHand
<1> QED
  BY <1>7, <1>8

\* A round of the search narrows what is left, from the side it should.
LEMMA ProbeKeeps ==
    ASSUME KesInv, NEW answered \in BOOLEAN, Probe(answered) PROVE KesInv'
<1> DEFINE N == Len(forged)
           mid == (search.lo + search.hi) \div 2
           S(r) == r \in SearchRecord /\ r.moved = search.moved
<1>1. /\ kesPc = "search" /\ search.lo <= search.hi
      /\ now' = now /\ certs' = certs /\ forged' = forged /\ kesRow' = kesRow
      /\ kesPc' = kesPc /\ began' = began /\ newest' = newest /\ found' = found
      /\ kesState' = kesState
      /\ tier' = tier /\ seen' = seen /\ lastPass' = lastPass
      /\ exact' = exact /\ parted' = parted
  BY DEF Probe, pastVars
<1>2. KesTypeOK /\ World /\ Row /\ PassInHand /\ SearchInHand
  BY DEF KesInv
<1>3. /\ search \in SearchRecord /\ search.lo \in Nat /\ search.hi \in Int
      /\ search.moved \in Nat /\ search.probes \in Nat /\ Window \in Nat /\ N \in Nat
  BY <1>2, WindowAssumption, HistoryTypes DEF KesTypeOK, SearchRecord
<1>4. mid \in Nat /\ search.lo <= mid /\ mid <= search.hi
  <2>1. \A l \in Nat, h \in Int :
          l <= h => (l + h) \div 2 \in Nat /\ l <= (l + h) \div 2 /\ (l + h) \div 2 <= h
    OBVIOUS
  <2> QED
    BY <1>1, <1>3, <2>1
<1> DEFINE s == [search EXCEPT !.probes = @ + 1]
<1>5. search' = IF answered /\ Has(mid) THEN Narrow(s, mid, BlockAt(mid))
                ELSE [s EXCEPT !.hi = mid - 1, !.missed = @ \/ Has(mid)]
  BY DEF Probe
<1>6. /\ s \in SearchRecord /\ s.lo = search.lo /\ s.hi = search.hi /\ s.best = search.best
      /\ s.older = search.older /\ s.moved = search.moved /\ s.missed = search.missed
  BY <1>3 DEF SearchRecord
<1>7. Has(mid) <=> mid < N
  BY DEF Has
<1> HIDE DEF s, mid
<1>8. ~found /\ kesPc # "idle"
  BY <1>1, <1>2 DEF PassInHand
<1>9. /\ AtStart \in 1..N /\ AtStart <= N /\ newest = forged[AtStart] /\ newest.cert \in Nat
  BY <1>2, <1>3, <1>8, NewestFacts
<1>10. /\ search.hi < Window /\ BestFound
       /\ forged[N].cert = newest.cert =>
            /\ search.older => OlderFound
            /\ ~search.older /\ ~search.missed => AtStart - search.hi <= OldestInWindow
  BY <1>2, <1>8 DEF SearchInHand
<1>11. ASSUME Has(mid)
       PROVE  /\ N - mid \in 1..N /\ AtStart - Window + 1 <= N - mid
              /\ N - mid <= N - (mid + 1) + 1 /\ AtStart - (mid - 1) - 1 <= N - mid
  <2> DEFINE a == AtStart
             h == search.hi
  <2>1. /\ N \in Nat /\ mid \in Nat /\ Window \in Nat /\ a \in Int /\ h \in Int
        /\ mid < N /\ mid <= h /\ h < Window /\ a <= N
    BY <1>3, <1>4, <1>7, <1>9, <1>10, <1>11
  <2> HIDE DEF a, h, N
  <2>2. /\ N - mid \in 1..N /\ a - Window + 1 <= N - mid
        /\ N - mid <= N - (mid + 1) + 1 /\ a - (mid - 1) - 1 <= N - mid
    BY <2>1
  <2> QED
    BY <2>2 DEF a
<1>12. World' /\ Row'
  <2>1. World'
    BY <1>1, <1>2
    DEF World, CertsInPast, BlocksDated, BlocksInOrder, EachHasFirst, ForgesOften, FirstSoon,
        IsFirst, ExpiryOf, StartOf, LastForged, Cert
  <2>2. Row'
    BY <1>1, <1>2
    DEF Row, RowDated, PassesOften, RowFresh, RowNear, TierHolds, TierLevel, KesLifetime, Cert
  <2> QED
    BY <2>1, <2>2
<1>13. ASSUME search' \in SearchRecord, search'.moved = search.moved
       PROVE  /\ KesTypeOK' /\ PassInHand'
              /\ AtStart' = AtStart /\ OldestInWindow' = OldestInWindow
  <2>1. AtStart' = AtStart
    BY <1>1, <1>13 DEF AtStart
  <2>2. OldestInWindow' = OldestInWindow
    BY <2>1 DEF OldestInWindow, Later
  <2>3. KesTypeOK'
    BY <1>1, <1>2, <1>13 DEF KesTypeOK, Cert
  <2>4. PassInHand'
    BY <1>1, <1>2, <2>1 DEF PassInHand, Tracked
  <2> QED
    BY <2>1, <2>2, <2>3, <2>4
<1>14. CASE answered /\ Has(mid) /\ BlockAt(mid).cert = newest.cert
  <2>0. BlockAt(mid).time \in Nat
    BY <1>2, <1>3, <1>4, <1>7, <1>14, HistoryTypes DEF BlockAt
  <2>1. search' = [s EXCEPT !.best = BlockAt(mid).time, !.lo = mid + 1]
    BY <1>5, <1>14 DEF Narrow
  <2>2. /\ search' \in SearchRecord /\ search'.moved = search.moved /\ search'.lo = mid + 1
        /\ search'.hi = search.hi /\ search'.best = BlockAt(mid).time
        /\ search'.older = search.older /\ search'.missed = search.missed
    <3> DEFINE t == BlockAt(mid).time
               u == mid + 1
    <3>1. t \in Nat /\ u \in Nat
      BY <1>4, <2>0
    <3>2. search' = [s EXCEPT !.best = t, !.lo = u]
      BY <2>1
    <3> HIDE DEF t, u
    <3>3. /\ search' \in SearchRecord /\ search'.moved = s.moved /\ search'.lo = u
          /\ search'.hi = s.hi /\ search'.best = t
          /\ search'.older = s.older /\ search'.missed = s.missed
      BY <1>6, <3>1, <3>2 DEF SearchRecord
    <3> QED
      BY <1>6, <3>3 DEF t, u
  <2>3. BestFound'
    <3> DEFINE b == N - mid
    <3>1. b \in 1..N /\ AtStart - Window + 1 <= b /\ b <= N - (mid + 1) + 1
      BY <1>14, <1>11
    <3>2. forged[b].time = search'.best /\ forged[b].cert = newest.cert
      BY <1>14, <2>2 DEF BlockAt
    <3> HIDE DEF b
    <3> QED
      BY <1>1, <1>13, <2>2, <3>1, <3>2 DEF BestFound
  <2>4. OlderFound => OlderFound'
    BY <1>1, <1>13, <2>2 DEF OlderFound
  <2>5. search'.lo <= search'.hi + 1
    BY <1>3, <1>4, <2>2
  <2>6. SearchInHand'
    BY <1>1, <1>10, <1>13, <2>2, <2>3, <2>4, <2>5 DEF SearchInHand
  <2> QED
    BY <1>12, <1>13, <2>2, <2>6 DEF KesInv
<1>15. CASE answered /\ Has(mid) /\ BlockAt(mid).cert # newest.cert
  <2>1. search' = [s EXCEPT !.older = TRUE, !.hi = mid - 1]
    BY <1>5, <1>15 DEF Narrow
  <2>2. /\ search' \in SearchRecord /\ search'.moved = search.moved /\ search'.lo = search.lo
        /\ search'.hi = mid - 1 /\ search'.best = search.best
        /\ search'.older = TRUE /\ search'.missed = search.missed
    <3> DEFINE u == mid - 1
    <3>1. u \in Int
      BY <1>4
    <3>2. search' = [s EXCEPT !.older = TRUE, !.hi = u]
      BY <2>1
    <3> HIDE DEF u
    <3>3. /\ search' \in SearchRecord /\ search'.moved = s.moved /\ search'.lo = s.lo
          /\ search'.hi = u /\ search'.best = s.best
          /\ search'.older = TRUE /\ search'.missed = s.missed
      BY <1>6, <3>1, <3>2 DEF SearchRecord
    <3> QED
      BY <1>6, <3>3 DEF u
  <2>3. BestFound'
    BY <1>1, <1>10, <1>13, <2>2 DEF BestFound
  <2>4. OlderFound'
    <3> DEFINE j == N - mid
    <3>1. /\ j \in 1..N /\ AtStart - Window + 1 <= j /\ AtStart - (mid - 1) - 1 <= j
      BY <1>15, <1>11
    <3>2. forged[j].cert # newest.cert
      BY <1>15 DEF BlockAt
    <3> HIDE DEF j
    <3> QED
      BY <1>1, <1>13, <2>2, <3>1, <3>2 DEF OlderFound
  <2>5. search'.lo <= search'.hi + 1 /\ search'.hi < Window
    BY <1>3, <1>4, <1>10, <2>2
  <2>6. SearchInHand'
    BY <1>1, <1>13, <2>2, <2>3, <2>4, <2>5 DEF SearchInHand
  <2> QED
    BY <1>12, <1>13, <2>2, <2>6 DEF KesInv
<1>16. CASE ~(answered /\ Has(mid))
  <2>1. search' = [s EXCEPT !.hi = mid - 1, !.missed = s.missed \/ Has(mid)]
    BY <1>5, <1>16
  <2>2. Has(mid) \in BOOLEAN /\ s.missed \in BOOLEAN
    BY <1>6 DEF Has, SearchRecord
  <2>3. /\ search' \in SearchRecord /\ search'.moved = search.moved /\ search'.lo = search.lo
        /\ search'.hi = mid - 1 /\ search'.best = search.best
        /\ search'.older = search.older
    <3> DEFINE u == mid - 1
               m == s.missed \/ Has(mid)
    <3>1. u \in Int /\ m \in BOOLEAN
      BY <1>4, <2>2
    <3>2. search' = [s EXCEPT !.hi = u, !.missed = m]
      BY <2>1
    <3> HIDE DEF u, m
    <3>3. /\ search' \in SearchRecord /\ search'.moved = s.moved /\ search'.lo = s.lo
          /\ search'.hi = u /\ search'.best = s.best /\ search'.older = s.older
      BY <1>6, <3>1, <3>2 DEF SearchRecord
    <3> QED
      BY <1>6, <3>3 DEF u
  <2>4. ~search'.missed => ~search.missed /\ ~Has(mid)
    BY <1>6, <2>1 DEF SearchRecord
  <2>5. BestFound'
    BY <1>1, <1>10, <1>13, <2>3 DEF BestFound
  <2>6. OlderFound => OlderFound'
    <3> SUFFICES ASSUME OlderFound PROVE OlderFound'
      OBVIOUS
    <3>1. PICK j \in 1..N : forged[j].cert # newest.cert /\ AtStart - Window + 1 <= j
      BY DEF OlderFound
    <3>2. ~search'.missed => AtStart - (mid - 1) - 1 <= j
      BY <1>3, <1>4, <1>7, <1>9, <2>4, <3>1
    <3> QED
      BY <1>1, <1>13, <2>3, <3>1, <3>2 DEF OlderFound
  <2>7. ~search'.missed => AtStart - (mid - 1) <= OldestInWindow
    BY <1>3, <1>4, <1>7, <1>9, <2>4 DEF OldestInWindow, Later
  <2>8. search'.lo <= search'.hi + 1 /\ search'.hi < Window
    BY <1>3, <1>4, <1>10, <2>3
  <2>9. SearchInHand'
    BY <1>1, <1>10, <1>13, <2>3, <2>5, <2>6, <2>7, <2>8 DEF SearchInHand
  <2> QED
    BY <1>12, <1>13, <2>3, <2>9 DEF KesInv
<1> QED
  BY <1>14, <1>15, <1>16

\* The search ends with its best.
LEMMA EndSearchKeeps == ASSUME KesInv, EndSearch PROVE KesInv'
<1>1. /\ kesPc = "search" /\ search.lo > search.hi /\ kesPc' = "commit"
      /\ kesState' = [counter |-> newest.cert, rotation |-> search.best,
                      confidence |-> IF search.older THEN "ok" ELSE "lowerbound"]
      /\ now' = now /\ certs' = certs /\ forged' = forged /\ kesRow' = kesRow
      /\ began' = began /\ newest' = newest /\ found' = found /\ search' = search
      /\ tier' = tier /\ seen' = seen /\ lastPass' = lastPass
      /\ exact' = exact /\ parted' = parted
  BY DEF EndSearch, pastVars
<1>2. KesTypeOK /\ World /\ Row /\ PassInHand /\ SearchInHand
  BY DEF KesInv
<1>3. kesState' \in KesRowRecord
  BY <1>1, <1>2 DEF KesTypeOK, BlockRecord, SearchRecord, KesRowRecord
<1>4. KesTypeOK'
  BY <1>1, <1>2, <1>3 DEF KesTypeOK, Cert
<1>5. World'
  BY <1>1, <1>2
  DEF World, CertsInPast, BlocksDated, BlocksInOrder, EachHasFirst, ForgesOften, FirstSoon,
      IsFirst, ExpiryOf, StartOf, LastForged, Cert
<1>6. Row'
  BY <1>1, <1>2
  DEF Row, RowDated, PassesOften, RowFresh, RowNear, TierHolds, TierLevel, KesLifetime, Cert
<1>7. ~found
  BY <1>1, <1>2 DEF PassInHand
<1>8. PassInHand'
  BY <1>1, <1>2, <1>7 DEF PassInHand, AtStart
<1>9. SearchInHand'
  BY <1>1, <1>2, <1>7
  DEF SearchInHand, BestFound, OlderFound, AtStart, OldestInWindow, Later
<1> QED
  BY <1>4, <1>5, <1>6, <1>8, <1>9 DEF KesInv

\* A crash takes the pass, and leaves the row.
LEMMA KesCrashKeeps == ASSUME KesInv, KesCrash PROVE KesInv'
<1>1. /\ kesPc' = "idle" /\ began' = 0 /\ newest' = NoBlock /\ found' = FALSE /\ kesState' = NoKesRow
      /\ search' = NoSearch
      /\ now' = now /\ certs' = certs /\ forged' = forged /\ kesRow' = kesRow
      /\ tier' = tier /\ seen' = seen /\ lastPass' = lastPass
      /\ exact' = exact /\ parted' = parted
  BY DEF KesCrash, pastVars
<1>2. KesTypeOK /\ World /\ Row
  BY DEF KesInv
<1>3. NoKesRow \in KesRowRecord /\ NoBlock \in BlockRecord /\ NoSearch \in SearchRecord
  BY DEF NoKesRow, KesRowRecord, NoBlock, BlockRecord, NoSearch, SearchRecord
<1>4. KesTypeOK'
  BY <1>1, <1>2, <1>3 DEF KesTypeOK, Cert
<1>5. World'
  BY <1>1, <1>2
  DEF World, CertsInPast, BlocksDated, BlocksInOrder, EachHasFirst, ForgesOften, FirstSoon,
      IsFirst, ExpiryOf, StartOf, LastForged, Cert
<1>6. Row'
  BY <1>1, <1>2
  DEF Row, RowDated, PassesOften, RowFresh, RowNear, TierHolds, TierLevel, KesLifetime, Cert
<1>7. PassInHand' /\ SearchInHand'
  BY <1>1 DEF PassInHand, SearchInHand
<1> QED
  BY <1>4, <1>5, <1>6, <1>7 DEF KesInv

\* What the pass is about to save: of the counter it read, and never too early.
LEMMA StateFacts ==
    ASSUME KesInv, kesPc = "commit"
    PROVE  /\ kesState.counter = newest.cert /\ kesState.rotation \in Int
           /\ certs[newest.cert] <= kesState.rotation
<1>1. KesTypeOK /\ World /\ Row /\ PassInHand /\ SearchInHand
  BY DEF KesInv
<1>2. /\ newest.cert \in Nat /\ certs[newest.cert] <= newest.time /\ newest.time <= now
  BY <1>1, NewestFacts
<1>3. kesState.rotation \in Int
  BY <1>1 DEF KesTypeOK, KesRowRecord
<1>4. CASE found
  <2>1. kesRow.counter # 0 /\ kesState = Tracked(kesRow, newest)
    BY <1>1, <1>4 DEF PassInHand
  <2>2. CASE kesRow.counter = newest.cert
    BY <1>1, <1>3, <2>1, <2>2 DEF Tracked, Row, RowDated
  <2>3. CASE kesRow.counter # newest.cert
    BY <1>2, <1>3, <2>1, <2>3 DEF Tracked
  <2> QED
    BY <2>2, <2>3
<1>5. CASE ~found
  <2>1. kesState.counter = newest.cert /\ kesState.rotation = search.best /\ BestFound
    BY <1>1, <1>5 DEF SearchInHand
  <2>2. PICK b \in 1..Len(forged) :
          forged[b].time = search.best /\ forged[b].cert = newest.cert
    BY <2>1 DEF BestFound
  <2>3. certs[forged[b].cert] <= forged[b].time
    BY <1>1 DEF World, BlocksDated
  <2> QED
    BY <1>3, <2>1, <2>2, <2>3
<1> QED
  BY <1>4, <1>5

\* A search that nothing cut off and no block shifted, and that saw an older
\* certificate, has found the first block with the counter.
LEMMA SearchIsExact ==
    ASSUME KesInv, kesPc = "commit", ~found, ~search.missed, search.moved = 0, search.older
    PROVE  kesState.rotation <= certs[newest.cert] + ForgeGap
<1> DEFINE N == Len(forged)
<1>1. KesTypeOK /\ World /\ PassInHand /\ SearchInHand
  BY DEF KesInv
<1>2. /\ N \in Nat /\ N \in 1..N /\ AtStart = N /\ newest = forged[N]
      /\ search.lo \in Nat /\ search.hi \in Int
      /\ \A i \in 1..N : forged[i].time \in Nat /\ forged[i].cert \in Nat
  <2>1. N \in Nat /\ \A i \in 1..N : forged[i].time \in Nat /\ forged[i].cert \in Nat
    BY <1>1, HistoryTypes
  <2>2. search.lo \in Nat /\ search.hi \in Int
    BY <1>1 DEF KesTypeOK, SearchRecord
  <2>3. AtStart = N
    BY <2>1 DEF AtStart
  <2>4. AtStart \in 1..N /\ newest = forged[AtStart]
    BY <1>1, NewestFacts
  <2> QED
    BY <2>1, <2>2, <2>3, <2>4
<1>3. /\ search.lo <= search.hi + 1 /\ search.lo > search.hi /\ BestFound /\ OlderFound
      /\ kesState.rotation = search.best
  BY <1>1, <1>2 DEF SearchInHand
<1>4. PICK b \in 1..N : /\ forged[b].time = search.best /\ forged[b].cert = newest.cert
                        /\ b <= N - search.lo + 1
  BY <1>3 DEF BestFound
<1>5. PICK j \in 1..N : forged[j].cert # newest.cert /\ N - search.hi - 1 <= j
  BY <1>2, <1>3 DEF OlderFound
<1>6. j < b
  <2> SUFFICES ASSUME b <= j PROVE FALSE
    BY <1>4, <1>5
  <2>1. forged[b].cert <= forged[j].cert /\ forged[j].cert <= forged[N].cert
    BY <1>1, <1>2, CertsGrow DEF World
  <2> QED
    BY <1>2, <1>4, <1>5, <2>1
<1>7. b - 1 = j
  BY <1>2, <1>3, <1>4, <1>5, <1>6
<1>8. IsFirst(b)
  <2> SUFFICES ASSUME NEW k \in 1..(b - 1) PROVE forged[k].cert # forged[b].cert
    BY DEF IsFirst
  <2>1. k \in 1..N /\ k <= j
    BY <1>2, <1>7
  <2>2. forged[k].cert <= forged[j].cert /\ forged[j].cert <= forged[b].cert
    BY <1>1, <1>6, <2>1, CertsGrow DEF World
  <2> QED
    BY <1>2, <1>4, <1>5, <2>1, <2>2
<1>9. forged[b].time <= certs[forged[b].cert] + ForgeGap
  BY <1>1, <1>8 DEF World, FirstSoon
<1> QED
  BY <1>3, <1>4, <1>9

\* A counter that changed was forged after the last pass.
LEMMA ChangeIsRecent ==
    ASSUME KesInv, kesPc = "commit", found, ~parted, kesRow.counter # newest.cert
    PROVE  /\ kesState.rotation = newest.time
           /\ lastPass \in Nat /\ lastPass <= newest.time /\ now <= lastPass + PassGap
           /\ newest.time <= certs[newest.cert] + ForgeGap + PassGap
<1>1. KesTypeOK /\ World /\ Row /\ PassInHand
  BY DEF KesInv
<1>2. /\ AtStart \in 1..Len(forged) /\ newest = forged[AtStart]
      /\ newest.cert \in 1..Cert /\ newest.cert \in Nat /\ newest.time \in Nat
      /\ newest.time <= now
  BY <1>1, NewestFacts
<1>3. /\ kesRow.counter # 0 /\ kesState = Tracked(kesRow, newest)
      /\ kesRow.counter <= newest.cert
  BY <1>1 DEF PassInHand
<1>4. kesRow.counter \in Nat /\ now \in Nat /\ certs[newest.cert] \in Nat /\ Len(forged) \in Nat
  BY <1>1, <1>2, HistoryTypes DEF KesTypeOK, KesRowRecord
<1>5. /\ lastPass # Never /\ lastPass \in Nat /\ now <= lastPass + PassGap
      /\ \A i \in 1..Len(forged) : kesRow.counter < forged[i].cert => lastPass <= forged[i].time
  BY <1>1, <1>3 DEF Row, RowFresh, PassesOften, KesTypeOK
<1>6. kesRow.counter < newest.cert
  BY <1>2, <1>3, <1>4
<1> DEFINE n == AtStart
<1> HIDE DEF n
<1>7. n \in 1..Len(forged) /\ newest = forged[n]
  BY <1>2 DEF n
<1>8. PICK f \in 1..n : IsFirst(f) /\ forged[f].cert = forged[n].cert
  BY <1>1, <1>7 DEF World, EachHasFirst
<1>9. f \in 1..Len(forged)
  BY <1>4, <1>7
<1>10. forged[f].time \in Nat /\ lastPass <= forged[f].time /\ lastPass <= newest.time
  BY <1>1, <1>5, <1>6, <1>7, <1>8, <1>9, HistoryTypes
<1>11. forged[f].time <= certs[newest.cert] + ForgeGap
  BY <1>1, <1>7, <1>8, <1>9 DEF World, FirstSoon
<1>12. newest.time <= certs[newest.cert] + ForgeGap + PassGap
  <2> DEFINE t == forged[f].time
             c == certs[newest.cert]
             m == newest.time
  <2>1. t \in Nat /\ c \in Nat /\ m \in Nat /\ now \in Nat /\ lastPass \in Nat
    BY <1>2, <1>4, <1>5, <1>10
  <2>2. m <= now /\ now <= lastPass + PassGap /\ lastPass <= t /\ t <= c + ForgeGap
    BY <1>2, <1>5, <1>10, <1>11
  <2> HIDE DEF t, c, m
  <2>3. m <= c + ForgeGap + PassGap
    BY <2>1, <2>2, LifetimeIsTime
  <2> QED
    BY <2>3 DEF m, c
<1> QED
  BY <1>3, <1>5, <1>10, <1>12 DEF Tracked

\* The pass ends: what it saves is dated, and as near to the renewal as it says.
LEMMA CommitKeeps ==
    ASSUME KesInv, NEW saved \in BOOLEAN, Commit(saved) PROVE KesInv'
<1> DEFINE accepted == saved /\ (found \/ kesRow.counter = 0)
<1>1. /\ kesPc = "commit" /\ kesPc' = "idle"
      /\ kesRow' = IF accepted THEN kesState ELSE kesRow
      /\ tier' = TierLevel(kesState.rotation + KesLifetime - now)
      /\ seen' = newest.cert
      /\ parted' = (parted \/ ~accepted)
      /\ lastPass' = IF accepted THEN began ELSE lastPass
      /\ exact' = IF ~accepted \/ kesState = kesRow THEN exact
                  ELSE found \/ ~(search.missed \/ search.moved > 0)
      /\ began' = 0 /\ newest' = NoBlock /\ found' = FALSE
      /\ kesState' = NoKesRow /\ search' = NoSearch
      /\ now' = now /\ certs' = certs /\ forged' = forged
  BY DEF Commit
<1>2. KesTypeOK /\ World /\ Row /\ PassInHand /\ SearchInHand
  BY DEF KesInv
<1>3. NoKesRow \in KesRowRecord /\ NoBlock \in BlockRecord /\ NoSearch \in SearchRecord
  BY DEF NoKesRow, KesRowRecord, NoBlock, BlockRecord, NoSearch, SearchRecord
<1>4. /\ kesState.counter = newest.cert /\ kesState.rotation \in Int
      /\ certs[newest.cert] <= kesState.rotation
  BY <1>1, StateFacts
<1>5. /\ Len(forged) \in Nat /\ AtStart \in 1..Len(forged)
      /\ newest.cert \in 1..Cert /\ newest.cert \in Nat /\ newest.cert <= Cert
      /\ newest.cert <= forged[Len(forged)].cert
      /\ \A i \in 1..Len(forged) : newest.cert < forged[i].cert => began <= forged[i].time
  BY <1>1, <1>2, NewestFacts, HistoryTypes
<1>6. /\ now \in Nat /\ lastPass \in Nat \cup {Never} /\ parted \in BOOLEAN
      /\ began \in Nat /\ began <= now /\ now <= began + PassGap
  BY <1>1, <1>2 DEF KesTypeOK, PassInHand
<1> HIDE DEF accepted
<1>7. KesTypeOK'
  <2>1. tier' \in Nat
    <3>1. kesState.rotation + KesLifetime - now \in Int
      BY <1>4, <1>6, LifetimeIsTime
    <3>2. TierLevel(kesState.rotation + KesLifetime - now) \in Nat
      BY <3>1, TierCounts
    <3> QED
      BY <1>1, <3>2
  <2>2. kesRow' \in KesRowRecord /\ lastPass' \in Nat \cup {Never}
    BY <1>1, <1>2, <1>6 DEF KesTypeOK
  <2>3. exact' \in BOOLEAN /\ parted' \in BOOLEAN
    <3>1. exact \in BOOLEAN
      BY <1>2 DEF KesTypeOK
    <3>2. (found \/ ~(search.missed \/ search.moved > 0)) \in BOOLEAN
      OBVIOUS
    <3>3. (parted \/ ~accepted) \in BOOLEAN
      OBVIOUS
    <3>4. exact' = exact \/ exact' = (found \/ ~(search.missed \/ search.moved > 0))
      BY <1>1
    <3>5. exact' \in BOOLEAN
      BY <3>1, <3>2, <3>4
    <3> QED
      BY <1>1, <3>3, <3>5
  <2>4. /\ now' \in Nat /\ certs' \in Seq(Nat) /\ Cert' >= 1 /\ forged' \in Seq(BlockRecord)
    BY <1>1, <1>2 DEF KesTypeOK, Cert
  <2>5. /\ kesState' \in KesRowRecord /\ newest' \in BlockRecord /\ search' \in SearchRecord
        /\ kesPc' \in {"idle", "search", "commit"} /\ found' \in BOOLEAN /\ seen' \in Nat
        /\ began' \in Nat
    BY <1>1, <1>3, <1>5
  <2> QED
    BY <2>1, <2>2, <2>3, <2>4, <2>5 DEF KesTypeOK
<1>8. World'
  BY <1>1, <1>2
  DEF World, CertsInPast, BlocksDated, BlocksInOrder, EachHasFirst, ForgesOften, FirstSoon,
      IsFirst, ExpiryOf, StartOf, LastForged, Cert
<1>9. PassInHand' /\ SearchInHand'
  BY <1>1 DEF PassInHand, SearchInHand
<1>10. CASE ~accepted
  <2>1. kesRow' = kesRow /\ lastPass' = lastPass /\ parted'
    BY <1>1, <1>10
  <2>2. RowDated' /\ PassesOften'
    BY <1>1, <1>2, <2>1 DEF Row, RowDated, PassesOften, Cert
  <2>3. RowFresh' /\ RowNear' /\ TierHolds'
    BY <2>1 DEF RowFresh, RowNear, TierHolds
  <2> QED
    BY <1>7, <1>8, <1>9, <2>2, <2>3 DEF KesInv, Row
<1>11. CASE accepted
  <2>1. kesRow' = kesState /\ lastPass' = began /\ (parted' => parted) /\ began # Never
    BY <1>1, <1>6, <1>11 DEF Never
  <2>2. RowDated'
    <3>1. forged' # <<>>
      BY <1>1, <1>5
    <3> QED
      BY <1>1, <1>4, <1>5, <2>1, <3>1 DEF RowDated, Cert
  <2>3. PassesOften'
    BY <1>1, <1>6, <2>1, LifetimeIsTime DEF PassesOften
  <2>4. RowFresh'
    <3>1. \A i \in 1..Len(forged) : newest.cert < forged[i].cert => began <= forged[i].time
      BY <1>5
    <3> QED
      BY <1>1, <1>4, <2>1, <3>1 DEF RowFresh
  <2>5. TierHolds'
    <3>1. tier' = TierLevel(kesState.rotation + KesLifetime - now)
      BY <1>1
    <3>2. TierLevel(kesRow.rotation + KesLifetime - now)'
            = TierLevel(kesState.rotation + KesLifetime - now)
      BY <1>1, <2>1 DEF TierLevel, KesLifetime
    <3>3. tier' \in Nat
      BY <1>7 DEF KesTypeOK
    <3> QED
      BY <1>1, <1>4, <2>1, <3>1, <3>2, <3>3 DEF TierHolds
  <2>6. RowNear'
    <3> SUFFICES ASSUME exact', ~parted', kesState.confidence = "ok"
                 PROVE  kesState.rotation <= certs[newest.cert] + ForgeGap + PassGap
      BY <1>1, <1>4, <2>1 DEF RowNear
    <3>1. ~parted /\ certs[newest.cert] \in Nat
      BY <1>1, <1>2, <1>5, HistoryTypes
    <3>2. CASE kesState = kesRow
      <4>1. exact /\ kesRow.counter = newest.cert /\ kesRow.counter # 0
        BY <1>1, <1>4, <1>5, <3>2
      <4> QED
        BY <1>2, <3>1, <3>2, <4>1 DEF Row, RowNear
    <3>3. CASE kesState # kesRow /\ found
      <4>1. kesRow.counter # newest.cert
        BY <1>1, <1>2, <3>3 DEF PassInHand, Tracked
      <4> QED
        BY <1>1, <3>1, <3>3, <4>1, ChangeIsRecent
    <3>4. CASE kesState # kesRow /\ ~found
      <4>1. ~search.missed /\ ~(search.moved > 0)
        BY <1>1, <1>11, <3>4
      <4>2. search.moved = 0
        BY <1>2, <4>1 DEF KesTypeOK, SearchRecord
      <4>3. search.older
        BY <1>1, <1>2, <3>4 DEF SearchInHand
      <4>4. kesState.rotation <= certs[newest.cert] + ForgeGap
        BY <1>1, <3>4, <4>1, <4>2, <4>3, SearchIsExact
      <4> QED
        BY <1>4, <3>1, <4>4, LifetimeIsTime
    <3> QED
      BY <3>2, <3>3, <3>4
  <2> QED
    BY <1>7, <1>8, <1>9, <2>2, <2>3, <2>4, <2>5, <2>6 DEF KesInv, Row
<1> QED
  BY <1>10, <1>11

\* No step breaks the invariant.
LEMMA StepKesInv == KesInv /\ [KesNext]_kesVars => KesInv'
<1> SUFFICES ASSUME KesInv, [KesNext]_kesVars PROVE KesInv'
  OBVIOUS
<1>1. CASE \E loaded \in BOOLEAN : StartAssess(loaded)
  BY <1>1, StartKeeps
<1>2. CASE \E answered \in BOOLEAN : Probe(answered)
  BY <1>2, ProbeKeeps
<1>3. CASE EndSearch
  BY <1>3, EndSearchKeeps
<1>4. CASE \E saved \in BOOLEAN : Commit(saved)
  BY <1>4, CommitKeeps
<1>5. CASE KesCrash
  BY <1>5, KesCrashKeeps
<1>6. CASE Forge \/ KesTick \/ Renew
  BY <1>6, WorldStepKeeps
<1>7. CASE UNCHANGED kesVars
  <2>1. KesTypeOK' /\ World' /\ Row'
    BY <1>7
    DEF kesVars, searchVars, pastVars, KesInv, KesTypeOK, World, CertsInPast, BlocksDated,
        BlocksInOrder, EachHasFirst, ForgesOften, FirstSoon, IsFirst, ExpiryOf, StartOf,
        LastForged, Cert, Row, RowDated, PassesOften, RowFresh, RowNear, TierHolds, TierLevel,
        KesLifetime
  <2>2. PassInHand' /\ SearchInHand'
    BY <1>7
    DEF kesVars, searchVars, pastVars, KesInv, PassInHand, SearchInHand, BestFound, OlderFound,
        AtStart, OldestInWindow, Later, Tracked
  <2> QED
    BY <2>1, <2>2 DEF KesInv
<1> QED
  BY <1>1, <1>2, <1>3, <1>4, <1>5, <1>6, <1>7 DEF KesNext

\* The invariant of the KES assessment.
LEMMA KesInvariant == KesSpec => []KesInv
  BY InitKesInv, StepKesInv, PTL DEF KesSpec

\* Where a pass that searched ends is the place of the block it dates from, and
\* the first block with the counter is one no earlier block shares it with.
LEMMA PlacesFound ==
    ASSUME KesInv, NEW i \in 1..Len(forged)
    PROVE  /\ PlaceOf(forged[i].time) = i
           /\ FirstOf(forged[i].cert) \in 1..i
           /\ forged[FirstOf(forged[i].cert)].cert = forged[i].cert
           /\ \A j \in 1..(FirstOf(forged[i].cert) - 1) : forged[j].cert # forged[i].cert
<1>1. KesTypeOK /\ World
  BY DEF KesInv
<1>2. /\ Len(forged) \in Nat
      /\ \A j \in 1..Len(forged) : forged[j].time \in Nat /\ forged[j].cert \in Nat
  BY <1>1, HistoryTypes
<1> DEFINE c == forged[i].cert
           t == forged[i].time
           AtTime(j) == forged[j].time = t
           AtFirst(f) == forged[f].cert = c /\ \A j \in 1..(f - 1) : forged[j].cert # c
<1>3. PlaceOf(t) = i
  <2>1. \A j \in 1..Len(forged) : AtTime(j) => j = i
    BY <1>1, <1>2 DEF World, BlocksInOrder
  <2>2. AtTime(i) /\ PlaceOf(t) = CHOOSE j \in 1..Len(forged) : AtTime(j)
    BY DEF PlaceOf
  <2> HIDE DEF AtTime
  <2>3. PlaceOf(t) \in 1..Len(forged) /\ AtTime(PlaceOf(t))
    BY <2>2
  <2> QED
    BY <2>1, <2>3
<1>4. FirstOf(c) \in 1..Len(forged) /\ AtFirst(FirstOf(c))
  <2>1. PICK f \in 1..i : IsFirst(f) /\ forged[f].cert = c
    BY <1>1 DEF World, EachHasFirst
  <2>2. f \in 1..Len(forged) /\ AtFirst(f)
    BY <1>2, <2>1 DEF IsFirst
  <2>3. FirstOf(c) = CHOOSE k \in 1..Len(forged) : AtFirst(k)
    BY DEF FirstOf
  <2> HIDE DEF AtFirst
  <2> QED
    BY <2>2, <2>3
<1>5. FirstOf(c) \in 1..i
  <2> DEFINE f == FirstOf(c)
  <2>1. f \in 1..Len(forged) /\ AtFirst(f)
    BY <1>4
  <2> HIDE DEF f
  <2>2. i < f => i \in 1..(f - 1)
    BY <1>2, <2>1
  <2>3. ~(i < f)
    BY <2>1, <2>2
  <2>4. f \in 1..i
    BY <1>2, <2>1, <2>3
  <2> QED
    BY <2>4 DEF f
<1> QED
  BY <1>3, <1>4, <1>5

\* Where the search ends, in the terms of its invariant.
LEMMA SearchEnds ==
    ASSUME KesInv, kesPc = "commit", ~found, forged[Len(forged)].cert = newest.cert,
           NEW first, first = FirstOf(newest.cert),
           NEW oldest, oldest = OldestInWindow,
           NEW place, place = PlaceOf(kesState.rotation)
    PROVE  /\ first \in Nat /\ oldest \in Int /\ place \in Nat /\ search.moved \in Nat
           /\ forged[place].cert = newest.cert /\ first <= place /\ oldest <= place
           /\ kesState.confidence = "ok" <=> search.older
           /\ search.older => oldest < first
           /\ search.older /\ ~search.missed => place <= first + search.moved
           /\ ~search.older /\ ~search.missed => place <= oldest + search.moved
<1> DEFINE N == Len(forged)
<1>1. KesTypeOK /\ World /\ PassInHand /\ SearchInHand
  BY DEF KesInv
<1>2. /\ N \in Nat /\ AtStart \in 1..N /\ N \in 1..N /\ Window \in Nat
      /\ \A i \in 1..N : forged[i].time \in Nat /\ forged[i].cert \in Nat
  <2>1. AtStart \in 1..N /\ N \in Nat
    BY <1>1, NewestFacts, HistoryTypes
  <2> QED
    BY <1>1, <2>1, HistoryTypes, WindowAssumption
<1>3. search.lo \in Nat /\ search.hi \in Int /\ search.moved \in Nat /\ search.older \in BOOLEAN
  BY <1>1 DEF KesTypeOK, SearchRecord
<1>4. AtStart = N - search.moved
  BY DEF AtStart
<1>5. /\ search.lo <= search.hi + 1 /\ search.lo > search.hi /\ BestFound
      /\ kesState.rotation = search.best
      /\ kesState.confidence = IF search.older THEN "ok" ELSE "lowerbound"
      /\ search.older => OlderFound
      /\ ~search.older /\ ~search.missed => AtStart - search.hi <= OldestInWindow
  BY <1>1 DEF SearchInHand
<1>6. PICK b \in 1..N : /\ forged[b].time = search.best /\ forged[b].cert = newest.cert
                        /\ AtStart - Window + 1 <= b /\ b <= N - search.lo + 1
  BY <1>5 DEF BestFound
<1>7. place = b
  BY <1>5, <1>6, PlacesFound
<1>8. /\ first \in 1..b /\ first \in 1..N /\ forged[first].cert = newest.cert
      /\ \A j \in 1..(first - 1) : forged[j].cert # newest.cert
  <2>1. /\ first \in 1..b /\ forged[first].cert = newest.cert
        /\ \A j \in 1..(first - 1) : forged[j].cert # newest.cert
    BY <1>6, PlacesFound
  <2> QED
    BY <1>2, <2>1
<1>9. oldest \in Int /\ oldest <= b /\ 1 <= oldest
  BY <1>2, <1>6 DEF OldestInWindow, Later
<1>10. ASSUME NEW j \in 1..N, forged[j].cert # newest.cert PROVE j < first
  <2> SUFFICES ASSUME first <= j PROVE FALSE
    BY <1>2, <1>8
  <2>1. forged[first].cert <= forged[j].cert /\ forged[j].cert <= forged[N].cert
    BY <1>1, <1>2, <1>8, CertsGrow DEF World
  <2>2. forged[j].cert \in Nat /\ forged[N].cert \in Nat /\ forged[first].cert \in Nat
    BY <1>2, <1>8
  <2> QED
    BY <1>8, <1>10, <2>1, <2>2
<1>11. b <= AtStart + search.moved - search.hi
  <2> DEFINE l == search.lo
             h == search.hi
             m == search.moved
             a == AtStart
  <2>1. l \in Int /\ h \in Int /\ m \in Int /\ a \in Int /\ N \in Int /\ b \in Int
    BY <1>2, <1>3
  <2>2. l <= h + 1 /\ l > h /\ a = N - m /\ b <= N - l + 1
    BY <1>4, <1>5, <1>6
  <2> HIDE DEF l, h, m, a, N
  <2>3. b <= a + m - h
    BY <2>1, <2>2
  <2> QED
    BY <2>3 DEF l, h, m, a
<1>12. ASSUME search.older
       PROVE  oldest < first /\ (~search.missed => b <= first + search.moved)
  <2>1. PICK j \in 1..N : /\ forged[j].cert # newest.cert /\ AtStart - Window + 1 <= j
                          /\ ~search.missed => AtStart - search.hi - 1 <= j
    BY <1>5, <1>12 DEF OlderFound
  <2>2. j < first
    BY <1>10, <2>1
  <2>3. oldest <= j
    BY <1>2, <2>1 DEF OldestInWindow, Later
  <2>4. oldest < first
    BY <1>2, <1>8, <1>9, <2>2, <2>3
  <2>5. ASSUME ~search.missed PROVE b <= first + search.moved
    <3>1. AtStart - search.hi - 1 <= j
      BY <2>1, <2>5
    <3>2. b <= AtStart + search.moved - search.hi
      BY <1>11
    <3>3. AtStart \in Int /\ search.hi \in Int /\ search.moved \in Int /\ j \in Int
      BY <1>2, <1>3
    <3> QED
      BY <1>8, <2>2, <3>1, <3>2, <3>3
  <2> QED
    BY <2>4, <2>5
<1>13. ASSUME ~search.older, ~search.missed PROVE b <= oldest + search.moved
  <2>1. AtStart - search.hi <= oldest
    BY <1>5, <1>13
  <2>2. AtStart \in Int /\ search.hi \in Int /\ search.moved \in Int
    BY <1>2, <1>3
  <2> QED
    BY <1>9, <1>11, <2>1, <2>2
<1>14. kesState.confidence = "ok" <=> search.older
  BY <1>5
<1> QED
  BY <1>2, <1>3, <1>6, <1>7, <1>8, <1>9, <1>12, <1>13, <1>14

\* findRotation, for any window and history: whatever fails and is forged
\* meanwhile, it ends at a block with the counter, never before the first of
\* them in the window, and past it by no more than the blocks forged meanwhile
\* and the lookups missed; it is sure only of a true boundary.
THEOREM SearchFindsBoundary == KesSpec => []BoundaryFound
<1>1. KesInv => BoundaryFound
  <2> SUFFICES ASSUME KesInv, kesPc = "commit", ~found, forged[Len(forged)].cert = newest.cert
               PROVE  LET first  == FirstOf(newest.cert)
                          oldest == Later(1, Len(forged) - search.moved - Window + 1)
                          target == Later(first, oldest)
                          place  == PlaceOf(kesState.rotation)
                          sure   == kesState.confidence = "ok" IN
                      /\ forged[place].cert = newest.cert /\ place >= target
                      /\ ~search.missed => place <= target + search.moved
                      /\ sure => oldest < first
                      /\ ~search.missed /\ search.moved = 0 /\ oldest < first => sure
    BY DEF BoundaryFound
  <2> DEFINE first  == FirstOf(newest.cert)
             oldest == Later(1, Len(forged) - search.moved - Window + 1)
             target == Later(first, oldest)
             place  == PlaceOf(kesState.rotation)
             sure   == kesState.confidence = "ok"
  <2>1. oldest = OldestInWindow
    BY DEF OldestInWindow, AtStart
  <2> HIDE DEF first, oldest, place, sure
  <2>2. /\ first \in Nat /\ oldest \in Int /\ place \in Nat /\ search.moved \in Nat
        /\ forged[place].cert = newest.cert /\ first <= place /\ oldest <= place
        /\ sure <=> search.older
        /\ search.older => oldest < first
        /\ search.older /\ ~search.missed => place <= first + search.moved
        /\ ~search.older /\ ~search.missed => place <= oldest + search.moved
    <3>1. first = FirstOf(newest.cert) /\ place = PlaceOf(kesState.rotation)
          /\ (sure <=> kesState.confidence = "ok")
      BY DEF first, place, sure
    <3> QED
      BY <2>1, <3>1, SearchEnds
  <2>3. place >= target
    BY <2>2 DEF Later
  <2>4. ~search.missed => place <= target + search.moved
    BY <2>2 DEF Later
  <2>5. sure => oldest < first
    BY <2>2
  <2>6. ~search.missed /\ search.moved = 0 /\ oldest < first => sure
    BY <2>2
  <2> HIDE DEF target
  <2>7. /\ forged[place].cert = newest.cert /\ place >= target
        /\ ~search.missed => place <= target + search.moved
        /\ sure => oldest < first
        /\ ~search.missed /\ search.moved = 0 /\ oldest < first => sure
    BY <2>2, <2>3, <2>4, <2>5, <2>6
  <2> QED
    BY <2>7 DEF first, oldest, target, place, sure
<1> QED
  BY <1>1, KesInvariant, PTL

\* README.md's "about one KES period off", for certificates of more than one
\* period (kes.go takes a period off only those): whatever fails, the expiry is
\* never estimated more than a period early; and the estimate of a counter whose
\* change was seen is late by less than the time to forge it and to notice it.
THEOREM EstimatesAreNear ==
    ASSUME MaxKesEvolutions > 1 PROVE KesSpec => []EstimateNearExpiry
<1>1. KesInv => EstimateNearExpiry
  <2> SUFFICES ASSUME KesInv, kesRow.counter # 0 PROVE EstimateNearExpiry
    BY DEF EstimateNearExpiry
  <2> DEFINE c == kesRow.counter
             r == kesRow.rotation
             k == certs[c]
             m == k % KesPeriod
             whole == MaxKesEvolutions * KesPeriod
  <2>1. KesTypeOK /\ Row
    BY DEF KesInv
  <2>2. c \in 1..Cert /\ k <= r /\ r \in Int
    BY <2>1, HistoryTypes DEF Row, RowDated, KesTypeOK, KesRowRecord
  <2>3. k \in Nat
    BY <2>1, <2>2, HistoryTypes
  <2>4. KesPeriod \in Nat /\ KesPeriod > 0
    BY PeriodAssumption
  <2>5. m \in Nat /\ m < KesPeriod
    <3>1. \A x, p \in Nat : p > 0 => x % p \in Nat /\ x % p < p
      OBVIOUS
    <3> HIDE DEF k
    <3> QED
      BY <2>3, <2>4, <3>1
  <2>6. KesLifetime = whole - KesPeriod /\ whole \in Nat
    <3>1. \A x, p \in Nat : (x - 1) * p = x * p - p /\ x * p \in Nat
      OBVIOUS
    <3>2. MaxKesEvolutions \in Nat
      BY PeriodAssumption
    <3> QED
      BY <2>4, <3>1, <3>2 DEF KesLifetime
  <2>7. ExpiryOf(c) = k - m + whole
    BY DEF ExpiryOf, StartOf
  <2>8. exact /\ ~parted /\ kesRow.confidence = "ok" => r <= k + ForgeGap + PassGap
    BY <2>1 DEF Row, RowNear
  <2> HIDE DEF r, k, m, whole
  <2>9. r + KesLifetime - ExpiryOf(c) = r - k + m - KesPeriod
    BY <2>2, <2>3, <2>4, <2>5, <2>6, <2>7
  <2>10. r + KesLifetime - ExpiryOf(c) >= -KesPeriod
    BY <2>2, <2>3, <2>4, <2>5, <2>9
  <2>11. exact /\ ~parted /\ kesRow.confidence = "ok"
           => r + KesLifetime - ExpiryOf(c) < ForgeGap + PassGap
    BY <2>2, <2>3, <2>4, <2>5, <2>8, <2>9, LifetimeIsTime
  <2> QED
    BY <2>10, <2>11 DEF EstimateNearExpiry, r
<1> QED
  BY <1>1, KesInvariant, PTL

\* While the row is loaded and saved, a pass lowers the tier only when it finds
\* another counter, and then to the tier of a new certificate, whatever thresholds
\* are set: none, unless a threshold is reached from the first day on.
THEOREM TierFallsWithRenewal == KesSpec => TierFollowsRenewal
<1>1. ASSUME KesInv, NEW saved \in BOOLEAN, Commit(saved), ~parted', seen # 0
      PROVE  /\ tier' < tier => seen' # seen
             /\ seen' # seen => /\ TierLevel(KesLifetime) <= tier'
                               /\ tier' <= TierLevel(KesLifetime - PassGap)
  <2>1. KesTypeOK /\ World /\ Row /\ PassInHand
    BY <1>1 DEF KesInv
  <2>2. /\ kesPc = "commit" /\ ~parted /\ seen' = newest.cert
        /\ tier' = TierLevel(kesState.rotation + KesLifetime - now)
    BY <1>1 DEF Commit
  <2>3. /\ kesRow.counter = seen
        /\ tier <= TierLevel(kesRow.rotation + KesLifetime - now)
    BY <1>1, <2>1, <2>2 DEF Row, TierHolds
  <2>4. /\ now \in Nat /\ tier \in Nat
        /\ kesRow.rotation \in Int /\ kesState.rotation \in Int
    BY <2>1 DEF KesTypeOK, KesRowRecord
  <2>5. found /\ kesState = Tracked(kesRow, newest)
    BY <1>1, <2>1, <2>2, <2>3 DEF PassInHand
  <2> DEFINE left == kesState.rotation + KesLifetime - now
  <2>6. left \in Int /\ TierLevel(left) \in Nat /\ tier' = TierLevel(left)
    <3>1. left \in Int
      BY <2>4, LifetimeIsTime
    <3> HIDE DEF left
    <3>2. TierLevel(left) \in Nat
      BY <3>1, TierCounts
    <3> QED
      BY <2>2, <3>1, <3>2 DEF left
  <2>7. CASE seen' = seen
    <3>1. kesState = kesRow
      BY <2>2, <2>3, <2>5, <2>7 DEF Tracked
    <3>2. tier <= TierLevel(left)
      BY <2>3, <3>1
    <3> HIDE DEF left
    <3> QED
      BY <2>4, <2>6, <2>7, <3>2
  <2>8. CASE seen' # seen
    <3>1. kesRow.counter # newest.cert
      BY <2>2, <2>3, <2>8
    <3>2. /\ kesState.rotation = newest.time
          /\ lastPass \in Nat /\ lastPass <= newest.time /\ now <= lastPass + PassGap
      BY <1>1, <2>2, <2>5, <3>1, ChangeIsRecent
    <3>3. newest.time \in Nat /\ newest.time <= now
      BY <2>1, <2>2, NewestFacts
    <3>4. KesLifetime - PassGap <= left /\ left <= KesLifetime /\ KesLifetime - PassGap \in Int
      BY <2>4, <3>2, <3>3, LifetimeIsTime
    <3> HIDE DEF left
    <3>5. TierLevel(KesLifetime) <= TierLevel(left)
      BY <2>6, <3>4, LifetimeIsTime, TierCounts
    <3>6. TierLevel(left) <= TierLevel(KesLifetime - PassGap)
      BY <2>6, <3>4, TierCounts
    <3> QED
      BY <2>6, <2>8, <3>5, <3>6
  <2> QED
    BY <2>7, <2>8
<1>2. KesInv /\ [KesNext]_kesVars =>
        [\A saved \in BOOLEAN :
           Commit(saved) /\ ~parted' /\ seen # 0 =>
              /\ tier' < tier => seen' # seen
              /\ seen' # seen => /\ TierLevel(KesLifetime) <= tier'
                                /\ tier' <= TierLevel(KesLifetime - PassGap)]_kesVars
  BY <1>1
<1> QED
  BY <1>2, KesInvariant, PTL DEF KesSpec, TierFollowsRenewal

\* ------------------------------------------------------- the length of a search

\* What the search has left is less than the power of two that its remaining
\* lookups can halve, for every k whose power exceeds the window.
LookupsLeft ==
    \A k \in 1..Window :
        2^k > Window =>
            /\ search.probes <= k
            /\ search.hi - search.lo + 1 < 2^(k - search.probes)

\* The powers of two double: the subsets of 1..k+1 are those of 1..k, and each of
\* them with k+1.
LEMMA PowersDouble ==
    ASSUME NEW k \in Nat
    PROVE  2^k \in Nat /\ 2^(k + 1) = 2 * 2^k
<1> DEFINE Low  == SUBSET (1..k)
           High == { T \cup {k + 1} : T \in SUBSET (1..k) }
           With == [T \in Low |-> T \cup {k + 1}]
<1>1. /\ IsFiniteSet(1..k) /\ Cardinality(1..k) = k
      /\ IsFiniteSet(1..(k + 1)) /\ Cardinality(1..(k + 1)) = k + 1
  BY FS_Interval
<1>2. /\ IsFiniteSet(Low) /\ Cardinality(Low) = 2^k
      /\ Cardinality(SUBSET (1..(k + 1))) = 2^(k + 1)
  BY <1>1, FS_SUBSET
<1>3. With \in Bijection(Low, High)
  <2>1. With \in [Low -> High]
    OBVIOUS
  <2>2. ASSUME NEW S \in Low, NEW T \in Low, With[S] = With[T] PROVE S = T
    <3>1. k + 1 \notin S /\ k + 1 \notin T
      OBVIOUS
    <3>2. S \cup {k + 1} = T \cup {k + 1}
      BY <2>2
    <3> QED
      BY <3>1, <3>2
  <2>3. \A U \in High : \E T \in Low : With[T] = U
    OBVIOUS
  <2> QED
    <3> HIDE DEF Low, High, With
    <3>1. With \in Injection(Low, High)
      BY <2>1, <2>2 DEF Injection, IsInjective
    <3>2. With \in Surjection(Low, High)
      BY <2>1, <2>3 DEF Surjection
    <3> QED
      BY <3>1, <3>2 DEF Bijection
<1>4. IsFiniteSet(High) /\ Cardinality(High) = Cardinality(Low)
  BY <1>2, <1>3, FS_Bijection DEF ExistsBijection
<1>5. Low \cap High = {}
  <2>1. ASSUME NEW S \in Low PROVE S \notin High
    <3>1. k + 1 \notin S
      OBVIOUS
    <3> QED
      BY <3>1
  <2> QED
    BY <2>1
<1>6. SUBSET (1..(k + 1)) = Low \cup High
  <2>1. ASSUME NEW U \in SUBSET (1..(k + 1)) PROVE U \in Low \cup High
    <3>1. CASE k + 1 \in U
      <4>1. U \ {k + 1} \in Low
        OBVIOUS
      <4>2. U = (U \ {k + 1}) \cup {k + 1}
        BY <3>1
      <4> QED
        BY <4>1, <4>2
    <3>2. CASE k + 1 \notin U
      <4>1. U \in Low
        BY <3>2
      <4> QED
        BY <4>1
    <3> QED
      BY <3>1, <3>2
  <2>2. ASSUME NEW U \in Low \cup High PROVE U \in SUBSET (1..(k + 1))
    <3>1. 1..k \subseteq 1..(k + 1) /\ k + 1 \in 1..(k + 1)
      OBVIOUS
    <3> QED
      BY <3>1
  <2> QED
    BY <2>1, <2>2
<1>7. Cardinality(Low) \in Nat
  BY <1>2, FS_CardinalityType
<1> HIDE DEF Low, High, With
<1>8. Cardinality(Low \cup High) = Cardinality(Low) + Cardinality(High)
  <2>1. Cardinality(Low \cup High) = Cardinality(Low) + Cardinality(High) - Cardinality({})
    BY <1>2, <1>4, <1>5, FS_Union
  <2> QED
    BY <1>4, <1>7, <2>1, FS_EmptySet
<1> DEFINE pow  == 2^k
           next == 2^(k + 1)
<1>9. pow = Cardinality(Low) /\ next = Cardinality(Low \cup High)
  BY <1>2, <1>6
<1> HIDE DEF pow, next
<1>10. pow \in Nat /\ next = 2 * pow
  BY <1>4, <1>7, <1>8, <1>9
<1> QED
  BY <1>10 DEF pow, next

\* The empty set has one subset.
LEMMA PowerOfNone == 2^0 = 1
<1>1. Cardinality(SUBSET {}) = 2^Cardinality({}) /\ Cardinality({}) = 0
  BY FS_EmptySet, FS_SUBSET
<1>2. SUBSET {} = {{}}
  OBVIOUS
<1>3. Cardinality({{}}) = 1
  BY FS_Singleton
<1> QED
  BY <1>1, <1>2, <1>3

\* Each lookup halves what is left; nothing else of a pass or of the world
\* touches the ends of the search.
LEMMA StepLookupsLeft ==
    ASSUME KesInv, LookupsLeft, [KesNext]_kesVars
    PROVE  LookupsLeft'
<1> SUFFICES ASSUME NEW k \in 1..Window, 2^k > Window
             PROVE  /\ search'.probes <= k
                    /\ search'.hi - search'.lo + 1 < 2^(k - search'.probes)
  BY DEF LookupsLeft
<1>1. Window \in Nat \ {0} /\ k \in Nat /\ 2^k \in Nat
  BY WindowAssumption, PowersDouble
<1>2. /\ search.probes <= k
      /\ search.hi - search.lo + 1 < 2^(k - search.probes)
  BY DEF LookupsLeft
<1>3. search.probes \in Nat /\ search.lo \in Nat /\ search.hi \in Int
  BY DEF KesInv, KesTypeOK, SearchRecord
<1>4. ASSUME search' = NoSearch
      PROVE  /\ search'.probes <= k
             /\ search'.hi - search'.lo + 1 < 2^(k - search'.probes)
  <2>1. search'.probes = 0 /\ search'.lo = 0 /\ search'.hi = -1
    BY <1>4 DEF NoSearch
  <2> QED
    BY <1>1, <2>1
<1>5. ASSUME /\ search'.probes = search.probes
             /\ search'.lo = search.lo /\ search'.hi = search.hi
      PROVE  /\ search'.probes <= k
             /\ search'.hi - search'.lo + 1 < 2^(k - search'.probes)
  BY <1>2, <1>5
<1>6. ASSUME NEW loaded \in BOOLEAN, StartAssess(loaded)
      PROVE  /\ search'.probes <= k
             /\ search'.hi - search'.lo + 1 < 2^(k - search'.probes)
  <2>1. CASE search' = [NoSearch EXCEPT !.hi = Window - 1, !.best = newest'.time]
    <3>1. search'.probes = 0 /\ search'.lo = 0 /\ search'.hi = Window - 1
      BY <2>1 DEF NoSearch
    <3> QED
      BY <1>1, <3>1
  <2> QED
    BY <1>4, <1>6, <2>1 DEF StartAssess
<1>7. ASSUME NEW answered \in BOOLEAN, Probe(answered)
      PROVE  /\ search'.probes <= k
             /\ search'.hi - search'.lo + 1 < 2^(k - search'.probes)
  <2> DEFINE mid == (search.lo + search.hi) \div 2
  <2>1. search.lo <= search.hi /\ mid \in Int
        /\ 2 * mid <= search.lo + search.hi /\ search.lo + search.hi <= 2 * mid + 1
    BY <1>3, <1>7 DEF Probe
  <2>2. /\ search'.probes = search.probes + 1
        /\ \/ search'.lo = mid + 1 /\ search'.hi = search.hi
           \/ search'.lo = search.lo /\ search'.hi = mid - 1
    <3>1. /\ search \in SearchRecord
          /\ search' = IF answered /\ Has(mid)
                         THEN Narrow([search EXCEPT !.probes = @ + 1], mid, BlockAt(mid))
                         ELSE [[search EXCEPT !.probes = @ + 1]
                                 EXCEPT !.hi = mid - 1, !.missed = @ \/ Has(mid)]
      BY <1>7 DEF Probe, KesInv, KesTypeOK
    <3> QED
      BY <3>1 DEF Narrow, SearchRecord
  <2> HIDE DEF mid
  <2> DEFINE rest == k - search.probes
  <2>3. rest \in Nat /\ 2^rest \in Nat
    BY <1>1, <1>2, <1>3, PowersDouble
  <2>4. rest # 0
    <3>1. ASSUME rest = 0 PROVE FALSE
      <4>1. 2^rest = 1
        BY <3>1, PowerOfNone
      <4> QED
        BY <1>2, <1>3, <2>1, <4>1
    <3> QED
      BY <3>1
  <2>5. rest - 1 \in Nat /\ (rest - 1) + 1 = rest
    BY <2>3, <2>4
  <2>6. 2^(rest - 1) \in Nat /\ 2^rest = 2 * 2^(rest - 1)
    <3>1. 2^((rest - 1) + 1) = 2 * 2^(rest - 1)
      BY <2>5, PowersDouble
    <3> QED
      BY <2>5, <3>1, PowersDouble
  <2>7. k - search'.probes = rest - 1
    BY <1>1, <1>3, <2>2
  <2>8. 2 * (search'.hi - search'.lo + 1) <= search.hi - search.lo + 1
    BY <1>3, <2>1, <2>2
  <2>9. search.hi - search.lo + 1 < 2^rest
    BY <1>2
  <2>10. search'.hi \in Int /\ search'.lo \in Int
    BY <1>3, <2>1, <2>2
  <2>11. search'.hi - search'.lo + 1 < 2^(rest - 1)
    <3> HIDE DEF rest
    <3> QED
      BY <1>3, <2>6, <2>8, <2>9, <2>10
  <2>12. search'.probes <= k
    BY <1>1, <1>3, <2>2, <2>3, <2>4
  <2> QED
    BY <2>7, <2>11, <2>12
<1>8. ASSUME NEW saved \in BOOLEAN, Commit(saved) PROVE search' = NoSearch
  BY <1>8 DEF Commit
<1>9. ASSUME KesCrash PROVE search' = NoSearch
  BY <1>9 DEF KesCrash
<1>10. ASSUME EndSearch \/ KesTick \/ Renew \/ UNCHANGED kesVars PROVE search' = search
  BY <1>10 DEF EndSearch, KesTick, Renew, kesVars, searchVars
<1>11. ASSUME Forge
       PROVE  /\ search'.probes = search.probes
              /\ search'.lo = search.lo /\ search'.hi = search.hi
  <2>1. search \in SearchRecord
    BY DEF KesInv, KesTypeOK
  <2> QED
    BY <1>11, <2>1 DEF Forge, SearchRecord
<1> QED
  BY <1>4, <1>5, <1>6, <1>7, <1>8, <1>9, <1>10, <1>11 DEF KesNext

\* A pass looks up no more blocks than it takes to halve the window down to
\* nothing, whatever lookups fail and whatever is forged meanwhile.
THEOREM SearchesAreShort == KesSpec => []SearchIsShort
<1>1. KesInit => LookupsLeft
  <2> SUFFICES ASSUME KesInit, NEW k \in 1..Window, 2^k > Window
               PROVE  /\ search.probes <= k
                      /\ search.hi - search.lo + 1 < 2^(k - search.probes)
    BY DEF LookupsLeft
  <2>1. Window \in Nat \ {0} /\ k \in Nat /\ 2^k \in Nat
    BY WindowAssumption, PowersDouble
  <2>2. search.probes = 0 /\ search.lo = 0 /\ search.hi = -1
    BY DEF KesInit, NoSearch
  <2> QED
    BY <2>1, <2>2
<1>2. KesInv /\ LookupsLeft /\ [KesNext]_kesVars => LookupsLeft'
  BY StepLookupsLeft
<1>3. LookupsLeft => SearchIsShort
  BY DEF LookupsLeft, SearchIsShort
<1> QED
  BY <1>1, <1>2, <1>3, KesInvariant, PTL DEF KesSpec
=============================================================================
