------------------------------ MODULE MCRecoco ------------------------------
(* The instance of Recoco for TLC: the task of a connection, a timer, and  *)
(* the task that reads from the switches, with a time-out.                 *)
EXTENDS Recoco

CONSTANTS connection, timer, switches
=============================================================================
