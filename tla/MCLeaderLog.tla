---------------------------- MODULE MCLeaderLog ----------------------------
(***************************************************************************)
(* Instances of LeaderLog for TLC: two epochs of two or three slots.       *)
(***************************************************************************)
EXTENDS LeaderLog

CONSTANTS p1, l1, l2

\* Epoch 0 has slots 1 and 2, epoch 1 the rest.
TwoEpochs == [s \in 0..NSlots |-> IF s <= 2 THEN 0 ELSE 1]

OneEpoch == [s \in 0..NSlots |-> 0]

EachItself == [l \in Listings |-> l]

\* Two operators list the same pool.
BothListP1 == [l \in Listings |-> p1]

LeadsOneEach == [p \in Pools |-> {1, 3}]
LeadsFirst   == [p \in Pools |-> {1}]
=============================================================================
