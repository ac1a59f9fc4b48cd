------------------------------ MODULE Steering ------------------------------
(***************************************************************************)
(* Which instances of the elements of its flow space a flow passes, and    *)
(* which of them its way back passes: POXInterface.get_steering with the   *)
(* module LoadAwareShortestPathSteering, and the reversal in               *)
(* install_path_improved.  One flow space with one chain of elements; the  *)
(* flows differ in their source and in the switches they come from and go  *)
(* to.  Instances are added and removed, hosts move and switches connect   *)
(* meanwhile.  The overlay joins the switches that were known when an      *)
(* instance was last added; all switches here have hosts or machines, so   *)
(* the overlay takes them for edge switches.                               *)
(***************************************************************************)
EXTENDS Naturals, Sequences, SequencesExt, FiniteSets

CONSTANTS Chain,                \* names of the elements, in order
          Machines, Switches,
          HopCount,             \* between two switches
          Partition,            \* of the network a switch is in
          Early,                \* switches that are connected from the start
          Home, Seen,           \* where a machine is at first, where it may be seen
          Flows,                \* nw_src and the switches a flow comes from and goes to
          Congestible,          \* links of the overlay that may be congested
          Affine, OneWay,       \* names that ask for affinity, that are unidirectional
          MaxDesc,              \* bound: element descriptors
          None                  \* no instance, switch or mapping

ASSUME SteeringAssumption ==
  /\ Chain \in Seq(STRING) /\ MaxDesc \in Nat
  /\ None \notin Switches /\ None \notin Seq(1 .. MaxDesc)
  /\ HopCount \in [Switches \X Switches -> Nat] /\ Partition \in [Switches -> Nat]
  /\ Flows \subseteq [src : STRING, from : Switches, to : Switches]
  /\ Congestible \subseteq Switches \X Switches
  /\ Early \subseteq Switches
  /\ Home \in [Machines -> Early \cup {None}] /\ Seen \in [Machines -> SUBSET (Switches \cup {None})]

Descs == 1 .. MaxDesc
Sources == {f.src : f \in Flows}
Names == ToSet(Chain)
Instance == [name : Names, mac : Machines]

\* The entries of s that are wanted, in their order.
Only(s, wanted) ==
  LET upto[i \in 0 .. Len(s)] ==
        IF i = 0 THEN << >>
        ELSE IF s[i] \in wanted THEN Append(upto[i - 1], s[i]) ELSE upto[i - 1]
  IN  upto[Len(s)]

OldestFirst(eds) == Only([ed \in Descs |-> ed], eds)

\* What any of the sets of replicas has.
AllOf(sets) == UNION {ToSet(sets[i]) : i \in DOMAIN sets}

VARIABLES
  names,        \* the part of Chain that flow_to_elems lists
  inst,         \* ed -> ElementInstance (flow_to_elems, elem_to_mac), or None
  nextDesc,
  up,           \* OverlayNetwork.switches
  overlay,      \* overlay_graph_nx: any two of these are joined, both ways
  hosts,        \* OverlayNetwork.hosts: machine -> switch, or None
  elemToSwitch, \* NetworkModel.elem_to_switch
  affinity,     \* FlowAffinity: source -> descriptors
  flow          \* what became of the packet handled in this step, if one was

vars == <<names, inst, nextDesc, up, overlay, hosts, elemToSwitch, affinity, flow>>

NoFlow    == [result |-> "none"]
Lost      == [result |-> "lost"]
Unlearned == [result |-> "unlearned"]

Init == /\ names = << >> /\ inst = [ed \in Descs |-> None] /\ nextDesc = 1
        /\ up = Early /\ overlay = {}
        /\ hosts = Home
        /\ elemToSwitch = [ed \in Descs |-> None]
        /\ affinity = [s \in Sources |-> << >>]
        /\ flow = NoFlow

-----------------------------------------------------------------------------
(* Look-ups.                                                               *)

Installed(is) == {ed \in Descs : is[ed] # None}

\* get_machine_mac and get_connected_switch; None where they raise.
SwitchOf(is, ed) == IF is[ed] = None THEN None ELSE hosts[is[ed].mac]

\* FlowToElementsMapping.get: for every name its instances, oldest first.
Replicas(is) ==
  [i \in DOMAIN names |->
     OldestFirst({ed \in Installed(is) : is[ed].name = names[i]})]

\* remove() inside a for loop over the same list: the entry after one that is
\* removed is not looked at.
RemoveEach(s, unwanted) ==
  LET left[i \in 0 .. Len(s)] ==
        IF i = 0 THEN s
        ELSE IF i <= Len(left[i - 1]) /\ left[i - 1][i] \in unwanted
             THEN RemoveAt(left[i - 1], i) ELSE left[i - 1]
  IN  left[Len(s)]

\* POXInterface.get_updated_replicas
LeaveAffined(replicas, ed) ==
  IF Contains(replicas, ed) THEN RemoveEach(replicas, Descs \ {ed}) ELSE replicas
LeaveAllAffined(replicas, eds) ==
  LET left[i \in 0 .. Len(eds)] ==
        IF i = 0 THEN replicas ELSE LeaveAffined(left[i - 1], eds[i])
  IN  left[Len(eds)]
UpdatedReplicas(sets, eds) == [i \in DOMAIN sets |-> LeaveAllAffined(sets[i], eds)]

\* _remove_loaded_element_instances
Unloaded(sets, loaded) == [i \in DOMAIN sets |-> RemoveEach(sets[i], loaded)]

\* add_elem_to_switch_mapping, which raises at the first unknown host
Mapped(sets) ==
  LET known(i, j) == SwitchOf(inst, sets[i][j]) # None
      reached(i, j) == /\ \A l \in 1 .. j : known(i, l)
                       /\ \A k \in 1 .. i - 1 : \A l \in DOMAIN sets[k] : known(k, l)
  IN  [ed \in Descs |->
         IF \E i \in DOMAIN sets : \E j \in DOMAIN sets[i] : sets[i][j] = ed /\ reached(i, j)
         THEN SwitchOf(inst, ed) ELSE elemToSwitch[ed]]

-----------------------------------------------------------------------------
(* The choice.                                                             *)

\* _get_all_paths: one instance of each replica set.
Chains(sets) ==
  {c \in [DOMAIN sets -> AllOf(sets)] : \A i \in DOMAIN sets : Contains(sets[i], c[i])}

\* _convert_ed_to_switches
SwitchPath(is, c, src, dst) == <<src>> \o [i \in DOMAIN c |-> SwitchOf(is, c[i])] \o <<dst>>

Links(path) == {<<path[i], path[i + 1]>> : i \in 1 .. Len(path) - 1}
Length(path) ==
  LET upto[i \in 0 .. Len(path) - 1] ==
        IF i = 0 THEN 0 ELSE upto[i - 1] + HopCount[<<path[i], path[i + 1]>>]
  IN  upto[Len(path) - 1]

\* The switches of the packet and of the replicas it was given.
Asked(sets, from, to) == {from, to} \cup {SwitchOf(inst, ed) : ed \in AllOf(sets)}

\* Mutant: the whole overlay graph.
WholeGraph(sets, from, to) == overlay

\* get_subgraph: those of them that the overlay has.
Subgraph(sets, from, to) == overlay \cap Asked(sets, from, to)

\* An edge that was made before the links were found has no hop count, and a
\* packet that meets it raises.  It meets one if the first edge of a path is there.
MeetsEdge(paths, nodes, congested) ==
  /\ names # << >>
  /\ \E p \in paths : {p[1], p[2]} \subseteq nodes /\ <<p[1], p[2]>> \notin congested

\* _get_shortest_path: a shortest one inside the subgraph and without congested
\* links, else none of the elements.
ShortestPaths(paths, nodes, congested, src, dst) ==
  LET free == {p \in paths : ToSet(p) \subseteq nodes /\ Links(p) \cap congested = {}}
  IN  IF free = {} THEN {<<src, dst>>}
      ELSE {p \in free : \A q \in free : Length(p) <= Length(q)}

\* get_elem_descriptor: the first of the instances ever mapped to the switch.
ElemDescriptor(map, s) ==
  LET eds == {ed \in Descs : map[ed] = s}
  IN  IF eds = {} THEN None ELSE CHOOSE ed \in eds : \A d \in eds : ed <= d

\* The end of _get_element_instances
ElementInstances(map, path) ==
  [i \in 1 .. Len(path) - 2 |-> ElemDescriptor(map, path[i + 1])]

\* Mutant: a place for every instance, affined or not.
NewAffinitiesPadded(is, eds) ==
  [i \in DOMAIN eds |-> IF is[eds[i]].name \in Affine THEN eds[i] ELSE None]

\* update_flow_affinities: in the order of the instances.
NewAffinities(is, eds) ==
  OldestFirst({ed \in ToSet(eds) : is[ed].name \in Affine})

\* is_unidirection_required
OneWayOf(is, eds) == {ed \in ToSet(eds) : is[ed].name \in OneWay}

\* Mutant: the locations are reversed, the descriptors are not.
ReverseElementsForward(is, eds) ==
  LET rev == Reverse(eds)
      left[i \in 0 .. Len(rev)] ==
        IF i = 0 THEN rev
        ELSE IF left[i - 1] = None \/ eds[i] \notin OneWayOf(is, eds) THEN left[i - 1]
        ELSE IF i > Len(left[i - 1]) THEN None ELSE RemoveAt(left[i - 1], i)
  IN  left[Len(rev)]

\* The way back (install_path_improved, get_reverse_mb_locs): pop(index) while
\* the indices shift; an IndexError leaves the flow without one.
ReverseElements(is, eds) ==
  LET rev == Reverse(eds)
      left[i \in 0 .. Len(rev)] ==
        IF i = 0 THEN rev
        ELSE IF left[i - 1] = None \/ rev[i] \notin OneWayOf(is, eds) THEN left[i - 1]
        ELSE IF i > Len(left[i - 1]) THEN None ELSE RemoveAt(left[i - 1], i)
  IN  left[Len(rev)]

-----------------------------------------------------------------------------
(* A packet of a new flow.                                                 *)

\* What a packet may change on its way: the instances, elem_to_switch, and
\* with an instance the overlay.
Network(is, next, map) == [inst |-> is, next |-> next, map |-> map, overlay |-> overlay]

\* The instances of an element, oldest first (get_elem_descs).
Named(is, n) == OldestFirst({ed \in Installed(is) : is[ed].name = n})

\* _update_overlay_graph, at each ElementInstanceEvent: the switches known by
\* now.
Joined == up

\* _create_element_instance, which may answer with an error.
Created(net, n) ==
  {net} \cup {[net EXCEPT !.inst[net.next] = [name |-> n, mac |-> m], !.next = @ + 1,
                          !.overlay = Joined] :
              m \in {k \in Machines : net.next <= MaxDesc /\ hosts[k] # None}}

\* steer_traffic, away from the oldest instance: remove_elem_to_switch_mapping.
Redirected(net, n) ==
  {[net EXCEPT !.map[ed] = None] :
     ed \in {d \in Descs : Len(Named(net.inst, n)) > 1 /\ d = Head(Named(net.inst, n))}}

\* What handle_loaded_elements may do for one of the loaded instances.
Relieved(net, is) ==
  UNION {Created(net, is[ed].name) \cup Redirected(net, is[ed].name) : ed \in Installed(is)}

\* What place_n_steer may have done when it returns: for each of the instances,
\* in any order, nothing, an instance more of its name, or a redirection.
AfterPlacement(net) ==
  LET after[i \in 0 .. Cardinality(Installed(net.inst))] ==
        IF i = 0 THEN {net} ELSE UNION {Relieved(x, net.inst) : x \in after[i - 1]}
  IN  after[Cardinality(Installed(net.inst))]

\* update_replicas calls it for every set that has lost its replicas to the
\* load, up to one that had none.
AfterLoad(net, sets, loaded) ==
  LET after[i \in 0 .. Len(sets)] ==
        IF i = 0 THEN {net}
        ELSE IF /\ Unloaded(sets, loaded)[i] = << >>
                /\ \A j \in 1 .. i : sets[j] # << >>
             THEN UNION {AfterPlacement(x) : x \in after[i - 1]} ELSE after[i - 1]
  IN  after[Len(sets)]

\* resolve_partitions: an instance more for each that is in another partition
\* than the packet's source, for later packets.
Abroad(net, eds, from) ==
  Only(eds, {ed \in ToSet(eds) : Partition[SwitchOf(net.inst, ed)] # Partition[from]})
AfterPartitions(net, eds, from) ==
  LET abroad == Abroad(net, eds, from)
      after[i \in 0 .. Len(abroad)] ==
        IF i = 0 THEN {net}
        ELSE UNION {Created(x, net.inst[abroad[i]].name) : x \in after[i - 1]}
  IN  after[Len(abroad)]

\* Is there an instance for every element, and the switch of each known?
Complete(is)  == \A i \in DOMAIN names : \E ed \in Installed(is) : is[ed].name = names[i]
HostsKnown(is) == \A ed \in Installed(is) : SwitchOf(is, ed) # None

\* Every replica is mapped to its switch, and no two instances to the same.
Apart(is, map) ==
  /\ \A ed \in Installed(is) : map[ed] = SwitchOf(is, ed)
  /\ \A d, e \in Descs : map[d] = map[e] /\ map[d] # None => d = e

Becomes(net) == /\ inst' = net.inst /\ nextDesc' = net.next
                /\ elemToSwitch' = net.map /\ overlay' = net.overlay

\* An exception on the way loses the packet; what was done stays done.
Raises(net) == Becomes(net) /\ flow' = Lost /\ UNCHANGED affinity

\* Do the other replicas of the affined instances keep away from the ends of
\* the flow and from each other, so that the subgraph leaves them out?
Away(net, affined, from, to) ==
  \A ed \in affined : net.inst[ed] # None =>
    LET rest == ToSet(Named(net.inst, net.inst[ed].name)) \ {ed}
    IN  Cardinality(rest) <= 1 /\ \A d \in rest : SwitchOf(net.inst, d) \notin {from, to}

\* LoadAwareShortestPathSteering.get_steering from update_replicas on, which
\* takes all replicas again, and the rest of POXInterface.get_steering.
Steered(src, from, to, net, sets, congested) ==
  LET is    == net.inst
      nodes == Subgraph(sets, from, to)
      paths == {SwitchPath(is, c, from, to) : c \in Chains(Replicas(is))}
  IN  \/ MeetsEdge(paths, nodes, congested) /\ Raises(net)
      \/ \E path \in ShortestPaths(paths, nodes, congested, from, to) :
           LET eds == ElementInstances(net.map, path)
           IN  IF \E i \in DOMAIN eds : IF eds[i] = None THEN TRUE ELSE SwitchOf(is, eds[i]) = None
               THEN Raises(net)
               ELSE \E after \in AfterPartitions(net, eds, from) :
                       \/ Abroad(net, eds, from) # << >> /\ Raises(after)
                       \/ /\ Becomes(after)
                          /\ affinity' = [affinity EXCEPT ![src] = IF @ = << >> THEN NewAffinities(is, eds) ELSE @]
                          /\ flow' = [result |-> "steered", eds |-> eds, sets |-> Replicas(is),
                                      back |-> ReverseElements(is, eds), oneWay |-> OneWayOf(is, eds),
                                      affined |-> ToSet(affinity[src]),
                                      away |-> Away(net, ToSet(affinity[src]), from, to),
                                      joined |-> Asked(sets, from, to) \subseteq overlay,
                                      apart |-> Apart(is, net.map) /\ congested = {}]

\* The packet may come from or go to a host that l2_multi_slick has not learned:
\* no element is asked for, and l2_multi_slick may install its path as it is.
\* Of the load only matters whether it leaves replica sets empty.
PacketIn(src, from, to) ==
  LET sets == UpdatedReplicas(Replicas(inst), affinity[src])
      net  == Network(inst, nextDesc, Mapped(sets))
  IN  /\ {from, to} \subseteq up \cup {None}
      /\ \/ /\ None \in {from, to}
            /\ flow' = Unlearned
            /\ UNCHANGED <<inst, nextDesc, overlay, elemToSwitch, affinity>>
         \/ /\ None \notin {from, to}
            /\ \E ed \in AllOf(sets) : SwitchOf(inst, ed) = None
            /\ Raises(net)
         \/ /\ None \notin {from, to}
            /\ \A ed \in AllOf(sets) : SwitchOf(inst, ed) # None
            /\ \E loaded \in {{}, Installed(inst)} :
                 \E placed \in AfterLoad(net, sets, loaded) :
                   \/ /\ \/ ~Complete(inst) \/ ~HostsKnown(placed.inst)
                         \/ \E i \in DOMAIN sets : Unloaded(sets, loaded)[i] = << >>
                      /\ Raises(placed)
                   \/ /\ Complete(inst) /\ HostsKnown(placed.inst)
                      /\ \E congested \in SUBSET Congestible :
                           Steered(src, from, to, placed, sets, congested)
      /\ UNCHANGED <<names, up, hosts>>

-----------------------------------------------------------------------------
(* Meanwhile.                                                              *)

\* apply_elem: the elements of the chain in their order, and replicas later.
Install(n, m) ==
  /\ nextDesc <= MaxDesc /\ hosts[m] # None
  /\ \/ Contains(names, n) /\ UNCHANGED names
     \/ /\ Len(names) < Len(Chain) /\ n = Chain[Len(names) + 1]
        /\ names' = Append(names, n)
  /\ inst' = [inst EXCEPT ![nextDesc] = [name |-> n, mac |-> m]]
  /\ nextDesc' = nextDesc + 1 /\ overlay' = Joined
  /\ flow' = NoFlow
  /\ UNCHANGED <<up, hosts, elemToSwitch, affinity>>

\* remove_elem; neither elem_to_switch nor the affinities know.
RemoveElem(ed) ==
  /\ inst[ed] # None
  /\ inst' = [inst EXCEPT ![ed] = None]
  /\ flow' = NoFlow
  /\ UNCHANGED <<names, nextDesc, up, overlay, hosts, elemToSwitch, affinity>>

\* steer_traffic, called by the timer; until the next packet.
SteerTraffic(n) ==
  /\ \E net \in Redirected(Network(inst, nextDesc, elemToSwitch), n) : Becomes(net)
  /\ flow' = NoFlow
  /\ UNCHANGED <<names, up, hosts, affinity>>

\* host_tracker: a machine is gone, or seen again.  A known one that moves stays
\* where it was in hosts.
HostEvent(m, s) ==
  /\ s \in Seen[m] \cap (up \cup {None}) /\ (s = None) # (hosts[m] = None)
  /\ hosts' = [hosts EXCEPT ![m] = s]
  /\ flow' = NoFlow
  /\ UNCHANGED <<names, inst, nextDesc, up, overlay, elemToSwitch, affinity>>

\* ConnectionUp, heard by l2_multi_slick and by the overlay.
ConnectionUp(s) ==
  /\ s \notin up
  /\ up' = up \cup {s}
  /\ flow' = NoFlow
  /\ UNCHANGED <<names, inst, nextDesc, overlay, hosts, elemToSwitch, affinity>>

\* Any host may be one that is not learned yet, or not any more.
Next == \/ \E f \in Flows : \E from \in {f.from, None}, to \in {f.to, None} : PacketIn(f.src, from, to)
        \/ \E n \in Names : SteerTraffic(n) \/ \E m \in Machines : Install(n, m)
        \/ \E ed \in Descs : RemoveElem(ed)
        \/ \E m \in Machines, s \in Switches \cup {None} : HostEvent(m, s)
        \/ \E s \in Switches : ConnectionUp(s)

Spec == Init /\ [][Next]_vars

-----------------------------------------------------------------------------
(* Properties.                                                             *)

TypeOK ==
  /\ names \in Seq(Names) /\ inst \in [Descs -> Instance \cup {None}]
  /\ nextDesc \in 1 .. MaxDesc + 1
  /\ up \subseteq Switches /\ overlay \subseteq up
  /\ hosts \in [Machines -> Switches \cup {None}]
  /\ elemToSwitch \in [Descs -> Switches \cup {None}]
  /\ affinity \in [Sources -> Seq(Descs)]
  /\ flow.result \in {"none", "lost", "unlearned", "steered"}
  /\ flow.result = "steered" => flow.eds \in Seq(Descs)

\* The docstring of get_steering: "a list of the same size as replica_sets,
\* but with only a single element chosen from each of the sets; must maintain
\* the same order".
OneFromEachSet ==
  flow.result = "steered" =>
    /\ Len(flow.eds) = Len(flow.sets)
    /\ \A i \in DOMAIN flow.eds : Contains(flow.sets[i], flow.eds[i])

\* It is so when the overlay joins the switches the flow asks for (none of them
\* has connected since the last instance was added), no link is congested and
\* every instance has a switch of its own, in elem_to_switch too, whatever has
\* been removed, redirected or affined, and wherever hosts have been, before.  A
\* flow then keeps to the instances its source is affined to ("If flow is affined
\* then remove other element instances"), if the others are away from its ends.
\* A flow between hosts that are not both learned is not asked about.
SteeredWhenApart ==
  flow.result = "steered" /\ flow.joined /\ flow.apart =>
    /\ OneFromEachSet
    /\ flow.away => \A i \in DOMAIN flow.sets :
         flow.affined \cap ToSet(flow.sets[i]) # {} => flow.eds[i] \in flow.affined

\* The way back passes the elements that are not unidirectional, in reverse,
\* as long as at most one is.
WayBack ==
  /\ flow.result = "steered"
  /\ Cardinality({i \in DOMAIN flow.eds : flow.eds[i] \in flow.oneWay}) <= 1
  => flow.back = Only(Reverse(flow.eds), Descs \ flow.oneWay)
=============================================================================
