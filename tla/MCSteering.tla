----------------------------- MODULE MCSteering -----------------------------
(* The instances of Steering for TLC.                                      *)
EXTENDS Steering

CONSTANTS m1, m2, m3, s1, s2, s3

TwoElements == <<"Logger", "Drop">>

\* Three switches in a row, a machine at each.
At == [m \in Machines |-> CASE m = m1 -> s1 [] m = m2 -> s2 [] m = m3 -> s3]
\* The third switch connects later, and its machine is not seen before; it may
\* leave, and turn up again at the second.
AtFirst == [m \in Machines |-> IF m = m3 THEN None ELSE At[m]]
Roams == [m \in Machines |-> IF m = m3 THEN {s2, s3, None} ELSE {}]
\* The third switch is in a partition of its own.
Parts == [s \in Switches |-> IF s = s3 THEN 1 ELSE 0]
Place(s) == CASE s = s1 -> 1 [] s = s2 -> 2 [] s = s3 -> 3
Hops == [l \in Switches \X Switches |->
           IF Place(l[1]) < Place(l[2]) THEN Place(l[2]) - Place(l[1]) ELSE Place(l[1]) - Place(l[2])]
\* One source, two ways; for the other run one link that may be congested.
TwoFlows == {[src |-> "a", from |-> s1, to |-> s3], [src |-> "a", from |-> s3, to |-> s2]}
FirstLink == {<<s1, s2>>}
=============================================================================
