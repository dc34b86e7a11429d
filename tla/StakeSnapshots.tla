--------------------------- MODULE StakeSnapshots ---------------------------
(***************************************************************************)
(* The active-stake snapshot of one pool (ensureStakeSnapshots): at each   *)
(* reconciler tick, an epoch without a stored snapshot has its delegators  *)
(* read page by page from the indexer and stored in one transaction, with  *)
(* the accounts of the pool's registration flagged.  The dashboard takes   *)
(* the owner's share of the rewards from the stored rows.                  *)
(*                                                                         *)
(* The indexer publishes an epoch's distribution as a whole, some time     *)
(* into the epoch, and never changes it.                                   *)
(***************************************************************************)
EXTENDS Integers, FiniteSets, Functions

CONSTANTS
    StakeEpochs,    \* bound: the instance runs over epochs 1..StakeEpochs
    MaxDelegators,  \* the most delegators the pool has
    Lovelace,       \* what each delegator stakes
    PagingCount,    \* entries in a full page of the distribution
    MaxFailures     \* bound on failed calls and crashes in one behaviour

ASSUME StakeAssumption == /\ StakeEpochs \in Nat \ {0} /\ MaxDelegators \in Nat
                          /\ Lovelace \in [1..MaxDelegators -> Nat \ {0}]
                          /\ PagingCount \in Nat \ {0} /\ MaxFailures \in Nat

VARIABLES
    nodeEpoch,      \* the epoch of the node
    delegators,     \* delegators[e]: the epoch's delegators are 1..delegators[e]
    published,      \* the epochs whose distribution the indexer shows
    owners,         \* the accounts of the pool's latest registration
    stakes,         \* table epoch_stakes: stakes[e], a set of rows
    snapPc,         \* where ensureStakeSnapshots is
    snapEpoch,      \* the tick's epoch
    flags,          \* the owners as the pool lookup returned them
    pageNo,         \* pages read so far
    rows,           \* the rows of those pages
    failures,       \* failed calls and crashes so far
    registered      \* every registration since the epoch began, for each epoch

stakeVars == <<nodeEpoch, delegators, published, owners, stakes, snapPc, snapEpoch,
               flags, pageNo, rows, failures, registered>>
chainSide == <<nodeEpoch, delegators, published, owners, registered>>

EpochsOfStake == 1..StakeEpochs
Accounts == 1..MaxDelegators

StakeRow(a, registration) ==
    [account |-> a, lovelace |-> Lovelace[a], poolOwner |-> a \in registration]

\* The snapshot of the epoch, with one registration's accounts flagged.
Whole(e, registration) == { StakeRow(a, registration) : a \in 1..delegators[e] }

\* Faulty variant: any snapshot stands for the epoch's.
HasSomeStakes(e) == \E f \in EpochsOfStake : stakes[f] # {}

HasEpochStakes(e) == stakes[e] # {}

\* EpochStakeDistributionByPool: an unpublished epoch has no entries.
Entries(e, page) ==
    IF e \notin published THEN {}
    ELSE { a \in 1..delegators[e] : (page - 1) * PagingCount < a /\ a <= page * PagingCount }

Forget ==
    /\ snapPc' = "idle" /\ snapEpoch' = 1 /\ flags' = {} /\ pageNo' = 0 /\ rows' = {}

\* reconcileTick reads the tip; its other calls run before the snapshot.
ReadEpoch ==
    /\ snapPc = "idle"
    /\ snapPc' = "ensure" /\ snapEpoch' = nodeEpoch
    /\ UNCHANGED <<chainSide, stakes, flags, pageNo, rows, failures>>

AlreadyStored ==
    /\ snapPc = "ensure" /\ HasEpochStakes(snapEpoch)
    /\ Forget
    /\ UNCHANGED <<chainSide, stakes, failures>>

\* The pool lookup: reward account and owners of the registration.
LookUpPool ==
    /\ snapPc = "ensure" /\ ~HasEpochStakes(snapEpoch)
    /\ flags' = owners /\ snapPc' = "page"
    /\ UNCHANGED <<chainSide, stakes, snapEpoch, pageNo, rows, failures>>

\* Faulty variant: paging stops one entry early.
ShortPageEarly(entries) == Cardinality(entries) <= PagingCount

ShortPage(entries) == Cardinality(entries) < PagingCount

\* One page; a page that is not full is the last.
ReadPage ==
    LET entries == Entries(snapEpoch, pageNo + 1) IN
    /\ snapPc = "page"
    /\ rows' = rows \cup { StakeRow(a, flags) : a \in entries }
    /\ pageNo' = pageNo + 1
    /\ snapPc' = IF ShortPage(entries) THEN "save" ELSE "page"
    /\ UNCHANGED <<chainSide, stakes, snapEpoch, flags, failures>>

\* Faulty variant: the pages read before the failure are stored.
CallFailsKeeping ==
    /\ snapPc \in {"ensure", "page"} /\ failures < MaxFailures
    /\ failures' = failures + 1
    /\ stakes' = IF rows = {} THEN stakes ELSE [stakes EXCEPT ![snapEpoch] = rows]
    /\ Forget
    /\ UNCHANGED chainSide

\* A call fails, or an amount does not parse: nothing is stored this tick.
CallFails ==
    /\ snapPc \in {"ensure", "page"} /\ failures < MaxFailures
    /\ failures' = failures + 1
    /\ Forget
    /\ UNCHANGED <<chainSide, stakes>>

\* In one transaction: the old rows are deleted, the new ones inserted.
ReplaceEpochStakes(e, replacing) == stakes' = [stakes EXCEPT ![e] = replacing]

\* Stored, unless there is no row to store; the tick goes on.
StoreStakes ==
    /\ snapPc = "save"
    /\ IF rows = {} THEN UNCHANGED stakes ELSE ReplaceEpochStakes(snapEpoch, rows)
    /\ Forget
    /\ UNCHANGED <<chainSide, failures>>

SnapCrash ==
    /\ snapPc # "idle" /\ failures < MaxFailures
    /\ failures' = failures + 1
    /\ Forget
    /\ UNCHANGED <<chainSide, stakes>>

NextEpoch ==
    /\ nodeEpoch < StakeEpochs
    /\ nodeEpoch' = nodeEpoch + 1
    /\ registered' = [registered EXCEPT ![nodeEpoch + 1] = {owners}]
    /\ UNCHANGED <<delegators, published, owners, stakes, snapPc, snapEpoch, flags,
                   pageNo, rows, failures>>

Publish ==
    /\ nodeEpoch \notin published
    /\ published' = published \cup {nodeEpoch}
    /\ UNCHANGED <<nodeEpoch, delegators, owners, stakes, snapPc, snapEpoch, flags,
                   pageNo, rows, failures, registered>>

\* The pool registers another owner (once: the first stays registered).
Reregister ==
    /\ owners = {1} /\ owners' = {1, 2}
    /\ registered' = [e \in EpochsOfStake |->
                        IF e <= nodeEpoch THEN registered[e] \cup {owners'} ELSE {}]
    /\ UNCHANGED <<nodeEpoch, delegators, published, stakes, snapPc, snapEpoch, flags,
                   pageNo, rows, failures>>

StakeInit ==
    /\ nodeEpoch = 1 /\ published = {} /\ owners = {1}
    /\ delegators \in [EpochsOfStake -> 0..MaxDelegators]
    /\ stakes = [e \in EpochsOfStake |-> {}]
    /\ snapPc = "idle" /\ snapEpoch = 1 /\ flags = {} /\ pageNo = 0 /\ rows = {}
    /\ failures = 0
    /\ registered = [e \in EpochsOfStake |-> IF e = 1 THEN {owners} ELSE {}]

Snapshotting == ReadEpoch \/ AlreadyStored \/ LookUpPool \/ ReadPage \/ StoreStakes

StakeNext ==
    \/ Snapshotting \/ CallFails \/ SnapCrash
    \/ NextEpoch \/ Publish \/ Reregister

StakeSpec == StakeInit /\ [][StakeNext]_stakeVars

\* ----------------------------------------------------------- OwnedStakeShare

SumOver(amounts) == FoldFunction(+, 0, amounts)

\* What the rows have of an account: the table's key allows it one row.
Staked(snapshot, a) ==
    IF \E r \in snapshot : r.account = a
      THEN (CHOOSE r \in snapshot : r.account = a).lovelace ELSE 0

TotalOf(snapshot) == SumOver([a \in Accounts |-> Staked(snapshot, a)])

\* Faulty variant: an account both flagged and listed counts twice.
OwnedStakeShareTwice(snapshot, ownStake) ==
    [owned |-> TotalOf({ r \in snapshot : r.poolOwner })
                 + TotalOf({ r \in snapshot : r.account \in ownStake }),
     total |-> TotalOf(snapshot)]

\* The owner's share as numerator and denominator: flagged accounts and the
\* operator's own_stake list, an account in both counted once.
OwnedStakeShare(snapshot, ownStake) ==
    [owned |-> TotalOf({ r \in snapshot : r.poolOwner \/ r.account \in ownStake }),
     total |-> TotalOf(snapshot)]

\* ----------------------------------------------------------------- properties

StakeOf(accounts) == SumOver([a \in Accounts |-> IF a \in accounts THEN Lovelace[a] ELSE 0])

\* What is stored of an epoch is its whole distribution under one registration,
\* whatever failed, crashed, rolled over or was re-registered between the
\* calls: it is never corrected later.
SnapshotWhole ==
    \A e \in EpochsOfStake : stakes[e] # {} =>
        \E registration \in registered[e] : stakes[e] = Whole(e, registration)

\* The owner's share of the rewards is the share of that whole: an account the
\* operator lists counts once, flagged or not, in the epoch or not.
ShareOfWhole ==
    \A e \in EpochsOfStake, ownStake \in SUBSET Accounts : stakes[e] # {} =>
        \E registration \in registered[e] :
            OwnedStakeShare(stakes[e], ownStake) =
                [owned |-> StakeOf((registration \cup ownStake) \cap 1..delegators[e]),
                 total |-> StakeOf(1..delegators[e])]

\* An epoch that lasts gets its snapshot once the indexer has published it,
\* although earlier epochs and failed ticks came before.
SnapshotTaken ==
    (StakeEpochs \in published /\ delegators[StakeEpochs] > 0)
        ~> stakes[StakeEpochs] # {}
=============================================================================
