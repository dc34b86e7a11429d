---------------------------- MODULE SlotLedger -----------------------------
(***************************************************************************)
(* What the leadership log promises of its slot table, with no loops, rows *)
(* or copies: a pool's slots of an epoch enter the ledger together, as the *)
(* whole schedule; each settles at most once, on its own; and it settles   *)
(* truthfully, as produced when the chain holds the pool's block and as    *)
(* missed only when it does not and the slot is deeper than the margin.    *)
(***************************************************************************)
EXTENDS Integers

CONSTANTS Pools, NSlots, Epochs, EpochOf, Leader, Empty, Other, SettleMargin

VARIABLES chain, tip, ledger

Slots == 1..NSlots
lvars == <<chain, tip, ledger>>

Init ==
    /\ chain = [s \in Slots |-> Empty]
    /\ tip = 0
    /\ ledger = [p \in Pools |-> [s \in Slots |-> "none"]]

\* The chain grows; a slot that is behind the tip does not change any more.
Grow ==
    /\ tip' \in (tip + 1)..NSlots
    /\ chain' \in [Slots -> Pools \cup {Empty, Other}]
    /\ \A s \in Slots : s <= tip => chain'[s] = chain[s]
    /\ UNCHANGED ledger

\* The whole schedule of one pool and epoch enters, once.
Enter(p, e) ==
    LET led == { s \in Leader[p] : EpochOf[s] = e } IN
    /\ \A s \in led : ledger[p][s] = "none"
    /\ ledger' = [ledger EXCEPT ![p] =
                    [s \in Slots |-> IF s \in led THEN "pending" ELSE ledger[p][s]]]
    /\ UNCHANGED <<chain, tip>>

Produce(p, s) ==
    /\ ledger[p][s] = "pending" /\ chain[s] = p
    /\ ledger' = [ledger EXCEPT ![p][s] = "produced"]
    /\ UNCHANGED <<chain, tip>>

Miss(p, s) ==
    /\ ledger[p][s] = "pending" /\ chain[s] # p
    /\ s + SettleMargin < tip
    /\ ledger' = [ledger EXCEPT ![p][s] = "missed"]
    /\ UNCHANGED <<chain, tip>>

Next ==
    \/ Grow
    \/ \E p \in Pools, e \in Epochs : Enter(p, e)
    \/ \E p \in Pools, s \in Slots : Produce(p, s) \/ Miss(p, s)

Spec == Init /\ [][Next]_lvars
=============================================================================
