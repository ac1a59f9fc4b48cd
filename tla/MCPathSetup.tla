---------------------------- MODULE MCPathSetup ----------------------------
(* Networks for the runs of PathSetup.                                     *)
EXTENDS PathSetup

CONSTANTS s1, s2, s3, s4, h1, h2, fw

Cable(a, p, b, q) ==
  {[sw1 |-> a, port1 |-> p, sw2 |-> b, port2 |-> q],
   [sw1 |-> b, port1 |-> q, sw2 |-> a, port2 |-> p]}

\* Two switches, one cable.
PairOrder == <<s1, s2>>
PairLinks == Cable(s1, 1, s2, 1)
\* A ring of four switches, two of them with two cables between them.
RingOrder == <<s3, s1, s4, s2>>
RingLinks == Cable(s1, 1, s2, 1) \cup Cable(s1, 2, s2, 2) \cup Cable(s2, 3, s3, 1)
               \cup Cable(s3, 2, s4, 1) \cup Cable(s4, 2, s1, 3)

Sends(a, b, l, c) == [src |-> a, dst |-> b, loc |-> l, chain |-> c]
\* h1 is at s1; fw, the machine of an element, is at s2, and so is h2, which may
\* move to s1.  Packets of h1 to h2 go through the element, but not the other
\* way; fw, and h2 at its new place, make themselves known with multicasts.
Firewalled ==
  {Sends(h1, h2, <<s1, 2>>, <<[host |-> fw, unidirectional |-> TRUE]>>),
   Sends(h2, h1, <<s2, 2>>, <<>>), Sends(h2, None, <<s1, 3>>, <<>>),
   Sends(fw, None, <<s2, 3>>, <<>>)}
=============================================================================
