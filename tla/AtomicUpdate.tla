---------------------------- MODULE AtomicUpdate ----------------------------
(***************************************************************************)
(* What the over-the-air update promises, with flash memories, records and *)
(* power cuts left out: the board always has one installed image, the one  *)
(* a reset ends up running.  Production installs an image of its choice;   *)
(* from then on the installed image only changes to one of a newer         *)
(* version, in one step.                                                   *)
(***************************************************************************)
EXTENDS Integers

CONSTANTS Images, Version

VARIABLES installed,  \* the image a reset ends up running
          pending     \* production has written it, it is not set up yet

Init == installed \in Images /\ pending = TRUE

Produce == installed' \in Images /\ pending' = TRUE

SetUp == pending /\ pending' = FALSE /\ installed' = installed

Update ==
  /\ ~pending
  /\ installed' \in {i \in Images : Version[i] > Version[installed]}
  /\ pending' = pending

Next == Produce \/ SetUp \/ Update

Spec == Init /\ [][Next]_<<installed, pending>>
=============================================================================
