----------------------------- MODULE NodeHealth -----------------------------
(***************************************************************************)
(* Health, the daemon's picture of its node: each of the two loops reads   *)
(* the tip at the start of a tick and writes it some time later, under a   *)
(* mutex, so that the loops may overtake each other in between.            *)
(***************************************************************************)
EXTENDS Integers

CONSTANTS
    LastSlot,       \* bound: the last slot of the instance
    EpochSlots      \* slots in an epoch

ASSUME HealthAssumption == LastSlot \in Nat /\ EpochSlots \in Nat \ {0}

HealthLoops == {"scheduler", "reconciler"}
Between == -1       \* the loop holds no tip: it is at other work, or waits

\* What a loop writes of a tip.
HealthOf(slot) == [epoch |-> slot \div EpochSlots, slot |-> slot]
NoHealth == [epoch |-> 0, slot |-> 0]

VARIABLES
    nodeTip,    \* the slot of the node's tip
    tipHeld,    \* tipHeld[w]: the tip a loop has read and not yet written
    health      \* CurrentEpoch and TipSlot of the global Health

healthVars == <<nodeTip, tipHeld, health>>

\* cli.Tip answers (a tick whose query fails ends there and changes nothing).
ReadTip(w) ==
    /\ tipHeld[w] = Between
    /\ tipHeld' = [tipHeld EXCEPT ![w] = nodeTip]
    /\ UNCHANGED <<nodeTip, health>>

\* Faulty variant: Health is written when the epoch has changed only.
SetHealthAtRollover(w) ==
    /\ tipHeld[w] # Between
    /\ health' = IF HealthOf(tipHeld[w]).epoch # health.epoch THEN HealthOf(tipHeld[w]) ELSE health
    /\ tipHeld' = [tipHeld EXCEPT ![w] = Between]
    /\ UNCHANGED nodeTip

\* setHealth.  After it the tick goes on, in the other modules.
SetHealth(w) ==
    /\ tipHeld[w] # Between
    /\ health' = HealthOf(tipHeld[w])
    /\ tipHeld' = [tipHeld EXCEPT ![w] = Between]
    /\ UNCHANGED nodeTip

\* The node adopts a block, several slots on perhaps.
NodeMoves(slot) ==
    /\ slot > nodeTip
    /\ nodeTip' = slot
    /\ UNCHANGED <<tipHeld, health>>

\* A start of the daemon: the node is anywhere, and Health is empty.
HealthInit ==
    /\ nodeTip \in 0..LastSlot
    /\ tipHeld = [w \in HealthLoops |-> Between] /\ health = NoHealth

Ticks(w) == ReadTip(w) \/ SetHealth(w)

HealthNext ==
    \/ \E w \in HealthLoops : Ticks(w)
    \/ \E slot \in 0..LastSlot : NodeMoves(slot)

HealthSpec == HealthInit /\ [][HealthNext]_healthVars

\* ----------------------------------------------------------------- properties

\* The loops may write tips of different age, and so set Health back, but not
\* for good: when the node stops (at LastSlot at the latest), Health ends up
\* showing where it did.
HealthCatchesUp == <>[](health = HealthOf(nodeTip))
=============================================================================
