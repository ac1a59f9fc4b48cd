------------------------------ MODULE MCFraming ------------------------------
(* The instance of Framing for TLC.                                        *)
EXTENDS Framing

\* One connection with traffic both ways, one that only connects.
DownBound == [c \in Conns |-> IF c = 1 THEN 2 ELSE 0]
UpBound == [c \in Conns |-> IF c = 1 THEN 3 ELSE 1]
=============================================================================
