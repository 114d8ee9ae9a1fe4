---------------------------- MODULE MCNodeBoot ----------------------------
(***************************************************************************)
(* One host of each role, through every way its script can fail and two    *)
(* reboots: the second reboot is the first that finds a host which already  *)
(* came back, or did not, from one.                                         *)
(***************************************************************************)
EXTENDS NodeBoot

Reboots == 2
=============================================================================
