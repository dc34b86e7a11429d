---------------------------- MODULE MCAlertLoop ----------------------------
(***************************************************************************)
(* Instances of AlertLoop for TLC.                                         *)
(***************************************************************************)
EXTENDS AlertLoop

CONSTANTS a, b

\* Pool a is listed by two operators, with pool b in between.
ListedTwice == <<a, b, a>>
ListedOnce  == <<a>>
ListedBoth  == <<a, b>>
=============================================================================
