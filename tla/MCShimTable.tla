----------------------------- MODULE MCShimTable -----------------------------
(* Flow spaces of the applications and packets for the runs of ShimTable.  *)
EXTENDS ShimTable

CONSTANTS p53, p80, udp, here, there

AnyFlow == [nw_src |-> None, nw_dst |-> None, nw_proto |-> None,
            tp_src |-> None, tp_dst |-> None]

\* TwoLoggers.py, its reverse, DirectionLogger.py, EqualApp.py, the Drop of
\* BlockDomains.py.
AppFlows ==
  {[AnyFlow EXCEPT !.tp_dst = p53], [AnyFlow EXCEPT !.tp_src = p53],
   [AnyFlow EXCEPT !.tp_dst = p53, !.nw_proto = udp],
   [AnyFlow EXCEPT !.nw_proto = udp],
   [AnyFlow EXCEPT !.nw_src = AsInt(there)]}

Pkt(proto, src, dst, sport, dport) ==
  [ip |-> TRUE, nw_src |-> src, nw_dst |-> dst, nw_proto |-> proto,
   tp_src |-> sport, tp_dst |-> dport]

\* Queries and answers over UDP, one over another protocol, both directions
\* of other traffic, and a frame that is not IP.
Traffic ==
  {Pkt(udp, here, there, p80, p53), Pkt(udp, there, here, p53, p80),
   Pkt(p80, there, here, p80, p53), Pkt(udp, here, there, p80, p80),
   Pkt(p80, here, here, p53, p53),
   [Pkt(udp, here, here, p53, p53) EXCEPT !.ip = FALSE]}
=============================================================================
