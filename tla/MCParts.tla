------------------------------ MODULE MCParts -------------------------------
(***************************************************************************)
(* The parts of the two programs beside the leadership log, each on its    *)
(* own.  Of spo-monitor, the alert loop and the four that decide what it   *)
(* tells, when and in which messages; of spo-dashboard, the fee parameters *)
(* and the overview; of both, the configuration.  They share no variable,  *)
(* so a behaviour moves one part only, the one chosen at its start, and    *)
(* the others stay as they are.                                            *)
(***************************************************************************)
EXTENDS MCAlertLoop, KesTracking, BlockAssessment, QuietHours, MessageSplit,
        OwnerEstimate, ConfigReload, Overview

VARIABLE part

\* Three KES tiers: one tick before the estimated expiry, the expiry itself, and the
\* whole lifetime, which every certificate is within from the day it is issued.
ThreeTiers == <<1, 0, 4>>

TwoFees == { [margin |-> 10, fixed |-> 2], [margin |-> 0, fixed |-> 3] }

\* Slots 1 and 2 are epoch 0, the rest epoch 1; the pool leads every slot.
TwoSlotEpochs == [s \in 0..BoardSlots |-> IF s <= 2 THEN 0 ELSE 1]
LeadsAll == 1..BoardSlots

monitorVars   == <<vars, kesVars, blockVars, quietVars, splitVars>>
dashboardVars == <<feeVars, boardVars>>

\* The initial states of a part: all of them if it moves, one if it does not.  The
\* fees always start from the same registration, and re-registrations bring the other.
Starts(name, init, one) == init /\ (part # name => one)

PartsInit ==
    /\ part \in {"loop", "kes", "block", "quiet", "split", "fees", "config", "overview"}
    /\ Starts("loop", Init, kind = "block")
    /\ KesInit
    /\ Starts("block", BlockInit, stake = 0 /\ dOf = [e \in BlockEpochs |-> 0])
    /\ Starts("quiet", QuietInit, start = 0 /\ end = 0 /\ interval = 1 /\ minute = 0)
    /\ SplitInit
    /\ FeeInit /\ latest.margin = 0
    /\ Starts("config", ConfigInit, \A f \in Files : file[f] = Broken)
    /\ BoardInit

\* Everything but the part that moves.
Still(others) == UNCHANGED <<part, others>>

PartsNext ==
    \/ part = "loop"     /\ Next
       /\ Still(<<kesVars, blockVars, quietVars, splitVars, dashboardVars, configVars>>)
    \/ part = "kes"      /\ KesNext
       /\ Still(<<vars, blockVars, quietVars, splitVars, dashboardVars, configVars>>)
    \/ part = "block"    /\ BlockNext
       /\ Still(<<vars, kesVars, quietVars, splitVars, dashboardVars, configVars>>)
    \/ part = "quiet"    /\ QuietNext
       /\ Still(<<vars, kesVars, blockVars, splitVars, dashboardVars, configVars>>)
    \/ part = "split"    /\ SplitNext
       /\ Still(<<vars, kesVars, blockVars, quietVars, dashboardVars, configVars>>)
    \/ part = "fees"     /\ FeeNext    /\ Still(<<monitorVars, boardVars, configVars>>)
    \/ part = "overview" /\ BoardNext  /\ Still(<<monitorVars, feeVars, configVars>>)
    \/ part = "config"   /\ ConfigNext /\ Still(<<monitorVars, dashboardVars>>)

PartsSpec ==
    PartsInit /\ [][PartsNext]_<<part, monitorVars, dashboardVars, configVars>>
=============================================================================
