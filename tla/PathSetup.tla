------------------------------ MODULE PathSetup ------------------------------
(***************************************************************************)
(* Path set-up (l2_multi_slick.py, with get_path of ShortestPathRouting):  *)
(* the controller learns where hosts are and which switches are adjacent,  *)
(* computes shortest paths on demand, installs a rule in every switch of a *)
(* path and lets the packet go once every switch has answered a barrier.   *)
(* Rules and barriers travel over one FIFO connection per switch.  Link    *)
(* and connection events come from POX's discovery, whose state the        *)
(* handlers read.  One task runs at a time and no handler yields, so a     *)
(* handler is one action.                                                  *)
(***************************************************************************)
EXTENDS Integers, Sequences, FiniteSets

CONSTANTS
  Switches,     \* the switches of the network
  Order,        \* the order of switches.values()
  MaxPort,      \* bound on port numbers
  Links,        \* the cables, as directed links, both directions of each
  Hosts,        \* hosts, machines of elements included
  Packets,      \* the packets that may come in without a rule, each at the port of
                \* its host or of a cable, with the elements steering chooses
  MaxPaths,     \* bound on paths set up
  WaitingLimit, \* 1000 in WaitingPath.__init__
  MaxLosses,    \* bound on link time-outs and lost connections
  None

Ports == 1..MaxPort
Locs == Switches \X Ports
Link == [sw1 : Switches, port1 : Ports, sw2 : Switches, port2 : Ports]
\* An element of a chain: its machine, and is_unidirection_required.
Middlebox == [host : Hosts, unidirectional : BOOLEAN]
\* dst is None for a multicast packet.
Packet == [src : Hosts, dst : Hosts \cup {None}, loc : Locs,
           chain : Seq(Middlebox)]
Hop == [sw : Switches, in : Ports, out : Ports]
WaitingPath == [path : Seq(Hop), reached : Nat, packet : BOOLEAN,
                xids : SUBSET Switches]

flip(l) == [sw1 |-> l.sw2, port1 |-> l.port2, sw2 |-> l.sw1, port2 |-> l.port1]

ASSUME PathConstants ==
  /\ MaxPort \in Nat /\ MaxPaths \in Nat /\ WaitingLimit \in Nat
  /\ MaxLosses \in Nat
  /\ Order \in Seq(Switches) /\ \A s \in Switches : \E i \in DOMAIN Order : Order[i] = s
  /\ Links \subseteq Link /\ \A l \in Links : l.sw1 # l.sw2 /\ flip(l) \in Links
  /\ \A k, l \in Links : k.sw1 = l.sw1 /\ k.port1 = l.port1 => k = l
  /\ Packets \subseteq Packet
  /\ None \notin Switches \cup Locs \cup Hosts

VARIABLES
  connection,    \* switch -> "never" connected, "up" or "down"
  links,         \* openflow_discovery.adjacency
  adjacency,     \* switch -> switch -> port (0: None)
  path_map,      \* switch -> switch -> distance and intermediate
  cached,        \* len(path_map) > 0
  mac_map,       \* host -> where it was seen (None: not yet)
  paths,         \* the WaitingPath objects, in the order of their creation
  waiting_paths, \* its keys: a switch and the path its barrier is for
  sent,          \* switch -> rules, each with its barrier, under way to it;
                 \* 0 deletes all rules
  rules,         \* switch -> its flow table
  replies,       \* switch -> barrier replies under way to the controller
  \* history
  confirmed,     \* the barriers that switches have answered
  released,      \* paths whose packet has been sent out
  failed,        \* paths counted as "failed to install"
  losses         \* link time-outs and lost connections so far

topology == <<connection, links, adjacency, losses>>
routes == <<path_map, cached>>
waiting == <<paths, waiting_paths, released, failed>>
wire == <<sent, rules, replies, confirmed>>
vars == <<topology, routes, mac_map, waiting, wire>>

NoPath == [dist |-> -1, via |-> None]
NoPaths == [i \in Switches |-> [j \in Switches |-> NoPath]]

Init ==
  /\ connection = [s \in Switches |-> "never"]
  /\ links = {} /\ losses = 0
  /\ adjacency = [i \in Switches |-> [j \in Switches |-> 0]]
  /\ path_map = NoPaths /\ cached = FALSE
  /\ mac_map = [h \in Hosts |-> None]
  /\ paths = <<>> /\ waiting_paths = {} /\ released = {} /\ failed = {}
  /\ sent = [s \in Switches |-> <<>>]
  /\ rules = [s \in Switches |-> {}]
  /\ replies = [s \in Switches |-> <<>>]
  /\ confirmed = {}

-----------------------------------------------------------------------------
(* Paths.                                                                  *)

\* Mutant: a way that is not longer replaces the known one.
BetterOrEqual(ik, kj, ij) == ik # -1 /\ kj # -1 /\ (ij = -1 \/ ik + kj <= ij)

\* i -> k -> j exists and is better than the way from i to j, if any.
Better(ik, kj, ij) ==
  ik # -1 /\ kj # -1 /\ (ij = -1 \/ ik + kj < ij)

\* The two inner loops of _calc_paths for one k; they change neither row nor
\* column k, so the order of i and j is immaterial.
Through(pm, k) ==
  [i \in Switches |-> [j \in Switches |->
     LET ik == pm[i][k].dist
         kj == pm[k][j].dist
         ij == pm[i][j]
     IN IF Better(ik, kj, ij.dist) THEN [dist |-> ik + kj, via |-> k] ELSE ij]]

\* _calc_paths.  A switch that never connected is in no location and not in
\* the code's table.
CalcPaths(adj) ==
  LET direct == [i \in Switches |-> [j \in Switches |->
                   IF i = j THEN [dist |-> 0, via |-> None]
                   ELSE IF adj[i][j] # 0 THEN [dist |-> 1, via |-> None]
                   ELSE NoPath]]
      stage[n \in 0..Len(Order)] ==
        IF n = 0 THEN direct ELSE Through(stage[n - 1], Order[n])
  IN stage[Len(Order)]

\* The recursive step of _get_raw_path, for all pairs of switches.
Spliced(pm, raw) ==
  [i \in Switches |-> [j \in Switches |->
     IF i = j \/ pm[i][j].via = None THEN <<>>
     ELSE raw[i][pm[i][j].via] \o <<pm[i][j].via>> \o raw[pm[i][j].via][j]]]

\* _get_raw_path: the switches between two that have a path; the recursion is
\* never deeper than there are switches.
RawPaths(pm) ==
  LET raw[n \in 0..Len(Order)] ==
        IF n = 0 THEN [i \in Switches |-> [j \in Switches |-> <<>>]]
        ELSE Spliced(pm, raw[n - 1])
  IN raw[Len(Order)]

\* Mutant: the test for None is missing.
GetPathAlways(pm, from, to) ==
  LET p == IF from[1] = to[1] THEN <<from[1]>>
           ELSE <<from[1]>> \o RawPaths(pm)[from[1]][to[1]] \o <<to[1]>>
      n == Len(p)
  IN [i \in 1..n |->
        [sw |-> p[i],
         in |-> IF i = 1 THEN from[2] ELSE adjacency[p[i]][p[i - 1]],
         out |-> IF i = n THEN to[2] ELSE adjacency[p[i]][p[i + 1]]]]

\* _get_path: the hops with their ports; <<>> for None.
GetPath(pm, from, to) ==
  LET p == IF from[1] = to[1] THEN <<from[1]>>
           ELSE <<from[1]>> \o RawPaths(pm)[from[1]][to[1]] \o <<to[1]>>
      n == Len(p)
  IN IF from[1] # to[1] /\ pm[from[1]][to[1]].dist = -1 THEN <<>>
     ELSE [i \in 1..n |->
             [sw |-> p[i],
              in |-> IF i = 1 THEN from[2] ELSE adjacency[p[i]][p[i - 1]],
              out |-> IF i = n THEN to[2] ELSE adjacency[p[i]][p[i + 1]]]]

\* ShortestPathRouting.get_path: a pathlet from each location to the next.
Pathlets(pm, locs) ==
  [i \in 1..(Len(locs) - 1) |-> GetPath(pm, locs[i], locs[i + 1])]

Reversed(seq) == [i \in 1..Len(seq) |-> seq[Len(seq) + 1 - i]]

\* get_reverse_mb_locs: the locations of the chain in reverse, from which the
\* pop of each unidirectional element's index takes one; <<None>> when the
\* list has become too short for the index.
ReverseLocs(locs, chain) ==
  LET descs == Reversed(chain)
      popped[i \in 0..Len(chain)] ==
        IF i = 0 THEN Reversed(locs)
        ELSE LET l == popped[i - 1] IN
             IF l = <<None>> \/ ~descs[i].unidirectional THEN l
             ELSE IF i > Len(l) THEN <<None>>
             ELSE SubSeq(l, 1, i - 1) \o SubSeq(l, i + 1, Len(l))
  IN popped[Len(chain)]

-----------------------------------------------------------------------------
(* Waiting paths.                                                          *)

WaitedFor(w) == {s \in Switches : <<s, w>> \in waiting_paths}

\* Mutant: the entries are not popped.
DropNone(D) == waiting_paths

\* The entries of waiting_paths once those of the paths in D are popped.
DropPath(D) == {e \in waiting_paths : e[2] \notin D}

\* The waiting paths that are older than PATH_SETUP_TIME: all up to the k-th.
Expired(k) == {w \in 1..Len(paths) : w <= k /\ WaitedFor(w) # {}}

\* expire_waiting_paths, by the timer.
ExpireWaitingPaths(k) ==
  /\ Expired(k) # {}
  /\ waiting_paths' = DropPath(Expired(k))
  /\ failed' = failed \cup Expired(k)
  /\ UNCHANGED <<topology, routes, mac_map, paths, released, wire>>

\* Mutant: the packet goes out with the first answer.
AnyAnswer(w, s) == TRUE

\* notify: no barrier of the path is left once s has answered.
LastAnswer(w, s) == paths[w].xids \ {s} = {}

\* _handle_BarrierIn, notify.
BarrierIn(s) ==
  LET w == Head(replies[s]) IN
  /\ replies[s] # <<>>
  /\ replies' = [replies EXCEPT ![s] = Tail(@)]
  /\ IF <<s, w>> \in waiting_paths
       THEN /\ waiting_paths' = waiting_paths \ {<<s, w>>}
            /\ paths' = [paths EXCEPT ![w].xids = @ \ {s}]
            /\ released' = IF LastAnswer(w, s) /\ paths[w].packet
                             THEN released \cup {w} ELSE released
       ELSE UNCHANGED <<waiting_paths, paths, released>>
  /\ UNCHANGED <<topology, routes, mac_map, failed, sent, rules, confirmed>>

-----------------------------------------------------------------------------
(* PacketIn.                                                               *)

Connected(p) == {i \in DOMAIN p : connection[p[i].sw] = "up"}

\* The smallest element of a set of numbers, n when it is empty.
Least(S, n) == IF S = {} THEN n ELSE CHOOSE x \in S : \A y \in S : x <= y

\* _install_path sends the rules of a pathlet, switch by switch, and raises
\* at one without a connection.
Installed(p, packet) ==
  LET n == Least(DOMAIN p \ Connected(p), Len(p) + 1) - 1
  IN [path |-> p, reached |-> n, packet |-> packet,
      xids |-> {p[i].sw : i \in 1..n}]

\* install_path_improved, for the pathlets to and back: it stops at the first
\* that is None (destination unreachable) or that raises.
Jobs(forward, back) ==
  LET all == forward \o back
      new == [i \in DOMAIN all |-> Installed(all[i], i <= Len(forward))]
      whole == {i \in DOMAIN new : new[i].reached > 0
                                   /\ new[i].reached = Len(new[i].path)}
      stop == Least(DOMAIN new \ whole, Len(new) + 1)
      last == IF stop <= Len(new) /\ new[stop].reached > 0 THEN stop ELSE stop - 1
  IN SubSeq(new, 1, last)

\* The entries that the new paths i of I add to waiting_paths (add_xid).
Entries(new, I) ==
  UNION {{<<s, Len(paths) + i>> : s \in new[i].xids} : i \in I}

\* The rules, each with its barrier, that the new paths send to s, one path
\* after the other.
RulesFor(s, new) ==
  LET upto[i \in 0..Len(new)] ==
        IF i = 0 THEN <<>>
        ELSE IF s \in new[i].xids THEN Append(upto[i - 1], Len(paths) + i)
        ELSE upto[i - 1]
  IN upto[Len(new)]

\* WaitingPath.__init__ expires the old paths when there are too many, here
\* for the last of the new ones.
TooMany(new) ==
  Cardinality(waiting_paths \cup Entries(new, 1..(Len(new) - 1))) > WaitingLimit

\* A known source address is seen on another port, which leads to no switch.
Moved(src, loc) ==
  /\ mac_map[src] \notin {None, loc}
  /\ \A s \in Switches : adjacency[loc[1]][s] # loc[2]

Learned(src, loc) ==
  IF mac_map[src] = None \/ Moved(src, loc)
    THEN [mac_map EXCEPT ![src] = loc]
    ELSE mac_map

\* len(path_map) = 0 makes _get_raw_path compute the paths.
PathMapAfter(asked) ==
  IF asked /\ ~cached THEN CalcPaths(adjacency) ELSE path_map

\* _handle_PacketIn: of a packet from src to dst that comes in at loc, which
\* steering sends through chain.
PacketIn(src, dst, loc, chain) ==
  LET known == mac_map[src] # None /\ dst # None /\ mac_map[dst] # None
      locs == [i \in DOMAIN chain |-> mac_map[chain[i].host]]
      dest == IF dst = None THEN None ELSE Learned(src, loc)[dst]
      there == <<loc>> \o locs \o <<dest>>
      reverse == ReverseLocs(locs, chain)
      back == IF reverse = <<None>> THEN <<>> ELSE <<dest>> \o reverse \o <<loc>>
      asked == known \/ \E i \in 2..Len(there) : there[i][1] # there[i - 1][1]
      \* the location of an element is unknown, or a log message asks a lost
      \* connection for its dpid
      raises == \/ \E i \in DOMAIN chain : locs[i] = None
                \/ Moved(src, loc) /\ connection[mac_map[src][1]] # "up"
  IN
  /\ connection[loc[1]] = "up" /\ Len(paths) < MaxPaths
  /\ UNCHANGED <<topology, rules, replies, confirmed, released>>
  /\ \/ /\ raises
        /\ path_map' = PathMapAfter(known) /\ cached' = (cached \/ known)
        /\ UNCHANGED <<mac_map, paths, waiting_paths, failed, sent>>
     \/ /\ ~raises
        /\ mac_map' = Learned(src, loc)
        /\ \/ /\ dest = None                                      \* flood
              /\ UNCHANGED <<routes, paths, waiting_paths, failed, sent>>
           \/ /\ dest # None
              /\ path_map' = PathMapAfter(asked) /\ cached' = (cached \/ asked)
              /\ LET new == Jobs(Pathlets(path_map', there),
                                 Pathlets(path_map', back))
                 IN /\ Len(paths) + Len(new) <= MaxPaths
                    /\ paths' = paths \o new
                    /\ sent' = [s \in Switches |-> sent[s] \o RulesFor(s, new)]
                    /\ \E k \in IF TooMany(new) THEN 0..Len(paths) ELSE {0} :
                         /\ waiting_paths' = DropPath(Expired(k))
                                               \cup Entries(new, DOMAIN new)
                         /\ failed' = failed \cup Expired(k)

-----------------------------------------------------------------------------
(* Links and connections.                                                  *)

\* The rules that s has and will have once it has handled its messages.
LiveRules(s) ==
  LET clears == {i \in DOMAIN sent[s] : sent[s][i] = 0}
  IN (IF clears = {} THEN rules[s] ELSE {}) \cup
     {sent[s][i] : i \in {i \in DOMAIN sent[s] : \A j \in clears : j < i}}

\* Mutant: only the switch that sent the lost LLDP packets is cleared.
ClearedSender(up, L) ==
  [s \in Switches |->
     IF s \in up /\ LiveRules(s) # {} /\ \E l \in L : s = l.sw1
       THEN Append(sent[s], 0) ELSE sent[s]]

\* LinkEvent tells every connected switch to delete all rules.  (A message
\* that finds nothing to delete is left out.)
Cleared(up, L) ==
  [s \in Switches |->
     IF s \in up /\ LiveRules(s) # {} THEN Append(sent[s], 0) ELSE sent[s]]

UpSwitches == {s \in Switches : connection[s] = "up"}

\* The links between the two switches of p that discovery has both ways.
TwoWay(p) == {l \in links : {l.sw1, l.sw2} = p /\ flip(l) \in links}

\* The port at a of the first link to b in discovery's table, which it has
\* both ways; prefer says which comes first where there is a choice.
PortTo(a, b, prefer) ==
  IF TwoWay({a, b}) = {} THEN 0
  ELSE LET l == IF {a, b} \in DOMAIN prefer THEN prefer[{a, b}]
                ELSE CHOOSE l \in TwoWay({a, b}) : TRUE
       IN IF l.sw1 = a THEN l.port1 ELSE l.port2

\* Mutant: the other way to connect the ends is recorded in one direction.
ReconnectedOneWay(L, prefer) ==
  [a \in Switches |-> [b \in Switches |->
     IF \E l \in L : l.sw1 = a /\ l.sw2 = b THEN PortTo(a, b, prefer)
     ELSE IF \E l \in L : {l.sw1, l.sw2} = {a, b} THEN 0
     ELSE adjacency[a][b]]]

\* The LinkEvents of the links L that discovery removes: their ends are
\* adjacent over another link, if there is one.
Reconnected(L, prefer) ==
  [a \in Switches |-> [b \in Switches |->
     IF \E l \in L : {l.sw1, l.sw2} = {a, b} THEN PortTo(a, b, prefer)
     ELSE adjacency[a][b]]]

\* Mutant: the paths stay.
KeepPathMap == UNCHANGED routes

\* A LinkEvent empties path_map.
ClearPathMap == path_map' = NoPaths /\ cached' = FALSE

\* _delete_links of discovery raises the events before it forgets the links;
\* _handle_LinkEvent reads what discovery still has.
DeleteLinks(L) ==
  LET several == {p \in {{l.sw1, l.sw2} : l \in L} : Cardinality(TwoWay(p)) > 2} IN
  /\ links' = links \ L
  /\ IF L = {} THEN UNCHANGED <<adjacency, routes>>
     ELSE /\ ClearPathMap
          /\ \E prefer \in [several -> links] :
               /\ \A p \in several : prefer[p] \in TwoWay(p)
               /\ adjacency' = Reconnected(L, prefer)

LinkTimeout(L) ==
  /\ L # {}
  /\ losses' = losses + 1
  /\ DeleteLinks(L)
  /\ sent' = Cleared(UpSwitches, L)
  /\ UNCHANGED <<connection, mac_map, waiting, rules, replies, confirmed>>

\* Discovery has received an LLDP packet over l.
LinkUp(l) ==
  /\ l \notin links
  /\ connection[l.sw1] = "up" /\ connection[l.sw2] = "up"
  /\ links' = links \cup {l}
  /\ ClearPathMap
  /\ sent' = Cleared(UpSwitches, {l})
  /\ adjacency' = IF adjacency[l.sw1][l.sw2] = 0 /\ flip(l) \in links
                    THEN [adjacency EXCEPT ![l.sw1][l.sw2] = l.port1,
                                           ![l.sw2][l.sw1] = l.port2]
                    ELSE adjacency
  /\ mac_map' = [h \in Hosts |->
                   IF mac_map[h] \in {<<l.sw1, l.port1>>, <<l.sw2, l.port2>>}
                     THEN None ELSE mac_map[h]]
  /\ UNCHANGED <<connection, losses, waiting, rules, replies, confirmed>>

\* A switch connects; POX makes it delete its rules (clear_flows_on_connect).
ConnectionUp(s) ==
  /\ connection[s] # "up"
  /\ connection' = [connection EXCEPT ![s] = "up"]
  /\ sent' = [sent EXCEPT ![s] = IF rules[s] = {} THEN <<>> ELSE <<0>>]
  /\ UNCHANGED <<links, adjacency, losses, routes, mac_map, waiting, rules,
                 replies, confirmed>>

\* A connection is lost, and with it what is under way on it.  Discovery
\* deletes the links of the switch before Switch.disconnect runs.
ConnectionDown(s) ==
  LET L == {l \in links : s \in {l.sw1, l.sw2}} IN
  /\ connection[s] = "up" /\ losses < MaxLosses
  /\ losses' = losses + 1
  /\ connection' = [connection EXCEPT ![s] = "down"]
  /\ DeleteLinks(L)
  /\ sent' = [IF L = {} THEN sent ELSE Cleared(UpSwitches \ {s}, L)
                EXCEPT ![s] = <<>>]
  /\ replies' = [replies EXCEPT ![s] = <<>>]
  /\ UNCHANGED <<mac_map, waiting, rules, confirmed>>

\* _get_hop_count reads path_map, a defaultdict, which makes entries.
HopCountsRead == cached' = TRUE /\ UNCHANGED path_map

\* _update_overlay_graph, when an element is installed.  apply_elem installs nothing before there
\* has been traffic (here any path, in the code one with a switch between its
\* ends), and _edge_switch asserts that all switches are connected.
UpdateOverlayGraph ==
  /\ paths # <<>> /\ \A s \in Switches : connection[s] # "down"
  /\ HopCountsRead
  /\ UNCHANGED <<topology, mac_map, waiting, wire>>

\* A switch handles its next message.
SwitchStep(s) ==
  LET w == Head(sent[s]) IN
  /\ sent[s] # <<>>
  /\ sent' = [sent EXCEPT ![s] = Tail(@)]
  /\ IF w = 0
       THEN /\ rules' = [rules EXCEPT ![s] = {}]
            /\ UNCHANGED <<replies, confirmed>>
       ELSE /\ rules' = [rules EXCEPT ![s] = @ \cup {w}]
            /\ replies' = [replies EXCEPT ![s] = Append(@, w)]
            /\ confirmed' = confirmed \cup {<<s, w>>}
  /\ UNCHANGED <<topology, routes, mac_map, waiting>>

Next ==
  \/ \E p \in Packets : PacketIn(p.src, p.dst, p.loc, p.chain)
  \/ \E k \in 1..MaxPaths : ExpireWaitingPaths(k)
  \/ losses < MaxLosses /\ \E L \in SUBSET links : LinkTimeout(L)
  \/ \E l \in Links : LinkUp(l)
  \/ \E s \in Switches :
       BarrierIn(s) \/ ConnectionUp(s) \/ ConnectionDown(s) \/ SwitchStep(s)
  \/ UpdateOverlayGraph

Spec == Init /\ [][Next]_vars

-----------------------------------------------------------------------------
(* Properties.                                                             *)

(* The type invariant: in particular every hop of a path has real ports,   *)
(* although adjacency and path_map answer every question about switches.   *)
TypeOK ==
  /\ connection \in [Switches -> {"never", "up", "down"}]
  /\ links \subseteq Links /\ losses \in 0..MaxLosses
  /\ adjacency \in [Switches -> [Switches -> 0..MaxPort]]
  /\ path_map \in [Switches -> [Switches ->
       [dist : -1..Cardinality(Switches), via : Switches \cup {None}]]]
  /\ cached \in BOOLEAN
  /\ mac_map \in [Hosts -> Locs \cup {None}]
  /\ paths \in Seq(WaitingPath)
  /\ waiting_paths \subseteq Switches \X (1..MaxPaths)
  /\ sent \in [Switches -> Seq(0..MaxPaths)]
  /\ rules \in [Switches -> SUBSET (1..MaxPaths)]
  /\ replies \in [Switches -> Seq(1..MaxPaths)]
  /\ confirmed \subseteq Switches \X (1..MaxPaths)
  /\ released \subseteq 1..MaxPaths /\ failed \subseteq 1..MaxPaths

(* Two switches are adjacent in both directions or in none, over the two   *)
(* ends of one cable: with several cables between them, and with events    *)
(* for each direction of each, the ports never come from different ones.   *)
AdjacencySound ==
  \A a, b \in Switches :
    adjacency[a][b] # 0 \/ adjacency[b][a] # 0 =>
      [sw1 |-> a, port1 |-> adjacency[a][b],
       sw2 |-> b, port2 |-> adjacency[b][a]] \in Links

(* No path of an older topology is used: path_map is empty of paths or was *)
(* computed from the adjacency of now.                                     *)
PathsCurrent == path_map # NoPaths => path_map = CalcPaths(adjacency)

(* "Essentially Floyd-Warshall": the distances of _calc_paths are those of *)
(* shortest paths, for they solve the equations that only these solve (0   *)
(* to itself, else one more than the nearest neighbour's, if any neighbour *)
(* has one), and _get_raw_path finds a way of that many links.             *)
PathsShortest ==
  LET pm == CalcPaths(adjacency)
      raw == RawPaths(pm)
  IN
  \A a, b \in Switches :
    LET d == pm[a][b].dist
        near == {c \in Switches : adjacency[a][c] # 0 /\ pm[c][b].dist # -1}
        p == <<a>> \o raw[a][b] \o <<b>>
    IN /\ a = b => d = 0
       /\ a # b /\ near = {} => d = -1
       /\ a # b /\ near # {} => /\ d = 1 + Least({pm[c][b].dist : c \in near}, 0)
                                /\ Len(p) = d + 1
                                /\ \A i \in 1..d : adjacency[p[i]][p[i + 1]] # 0

(* "Invalidate all flows and path info": once the messages under way have  *)
(* been handled, a connected switch has no rule of a path over an          *)
(* adjacency that is no more, whatever links went and came and whichever   *)
(* connections were lost and made again in the meantime.                   *)
NoStaleRule ==
  \A s \in UpSwitches : \A w \in LiveRules(s) :
    LET p == paths[w].path IN
    \A i \in 1..(Len(p) - 1) :
      /\ adjacency[p[i].sw][p[i + 1].sw] = p[i].out
      /\ adjacency[p[i + 1].sw][p[i].sw] = p[i + 1].in

(* "First wait for barrier replies and then send the packet out": every    *)
(* switch of the path has had its rule, if the set-up reached all of them. *)
ReleasedConfirmed ==
  \A w \in released : paths[w].reached = Len(paths[w].path) =>
    \A i \in DOMAIN paths[w].path : <<paths[w].path[i].sw, w>> \in confirmed

(* A path that was counted as failed to install releases no packet later:  *)
(* barrier replies that come after the time-out find nothing.              *)
NoLateRelease == released \cap failed = {}
=============================================================================
