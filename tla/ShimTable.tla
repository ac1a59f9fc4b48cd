------------------------------ MODULE ShimTable ------------------------------
(* The data plane of one shim: ShimTable (flow space -> descriptors), the   *)
(* element objects of ClientService, and Shim.demux, which runs a packet    *)
(* through the elements of its flow space.                                  *)
(*                                                                          *)
(* Of the fields of a flow, tp_src and tp_dst stand for the pairs that      *)
(* get_reverse_flow swaps and both sides write alike, nw_src and nw_dst for *)
(* addresses, which are integers or strings, and nw_proto for the fields    *)
(* that have no direction (dl_type, dl_vlan, dl_vlan_pcp too).  A flow that *)
(* names a MAC address cannot be installed: see InstallFails.               *)
EXTENDS Naturals, Sequences

CONSTANTS
  None,       \* in a flow space, a field that is not looked at
  Values,     \* ports and protocols
  Addrs,      \* IP addresses
  MbIp,       \* mb_ip, the address of this machine
  FlowSpaces, \* the flows of install messages
  Packets,    \* what the interface delivers, as extract_flow reads it
  MaxDesc,    \* bound: descriptors installed
  MaxStarts   \* bound: starts of the shim

Desc == 1..MaxDesc

\* An address as an integer (ipstr_to_int), as a dotted string (inet_ntoa)
\* and as four bytes (inet_aton).
AsInt(a) == [form |-> "int", ip |-> a]
AsStr(a) == [form |-> "str", ip |-> a]
AsBytes(a) == [form |-> "bytes", ip |-> a]

Address == [form : {"int", "str"}, ip : Addrs]

\* FlowTuple
Flow == [nw_src : Address \cup {None}, nw_dst : Address \cup {None},
         nw_proto : Values \cup {None}, tp_src : Values \cup {None},
         tp_dst : Values \cup {None}]

\* extract_flow: a frame that is not IP (ip = FALSE) has too few attributes
\* for convert_flow.
Packet == [ip : BOOLEAN, nw_src : Addrs, nw_dst : Addrs, nw_proto : Values,
           tp_src : Values, tp_dst : Values]

ASSUME FlowsAssumption ==
  /\ FlowSpaces \subseteq Flow /\ Packets \subseteq Packet /\ None \notin Flow
  /\ MaxDesc \in Nat /\ MaxStarts \in Nat /\ MbIp \in Addrs

VARIABLES
  flow_to_function_mapping, \* the OrderedDict: its items in order of insertion
  fd_to_object_map,         \* the elements the shim has
  trigger_due,              \* trigger_interval has passed since trigger_time
  starts,                   \* starts of the shim so far
  latest,                   \* the last descriptor received
  asked,                    \* history: the flow of each install message
  last                      \* history: the last packet, the elements that ran
                            \* on it and whether it was sent on

vars == <<flow_to_function_mapping, fd_to_object_map, trigger_due, starts,
          latest, asked, last>>

Entry == [flow : Flow, eds : Seq(Desc)]
Untouched == [pkt |-> None, ran |-> <<>>, forwarded |-> FALSE]

\* ClientService, ShimTable and ShimResources of a new process.
Init ==
  /\ flow_to_function_mapping = <<>>
  /\ fd_to_object_map = {}
  /\ trigger_due = TRUE
  /\ starts = 1
  /\ latest = 0
  /\ asked = [ed \in Desc |-> None]
  /\ last = Untouched

-----------------------------------------------------------------------------
(* Installing.                                                             *)

get_reverse_flow(f) ==
  [f EXCEPT !.nw_src = f.nw_dst, !.nw_dst = f.nw_src,
            !.tp_src = f.tp_dst, !.tp_dst = f.tp_src]

\* Mutant: in_port is stored.
AddInPort(table, f, ed) == Append(table, [flow |-> f, eds |-> <<0>>])

\* Mutant: the element is put in front of the chain.
AddInFront(table, f, ed) ==
  IF \E i \in DOMAIN table : table[i].flow = f
    THEN [i \in DOMAIN table |->
            IF table[i].flow = f
              THEN [table[i] EXCEPT !.eds = <<ed>> \o @] ELSE table[i]]
    ELSE Append(table, [flow |-> f, eds |-> <<ed>>])

\* A key that the dictionary has keeps its place in the order.
add_flow(table, f, ed) ==
  IF \E i \in DOMAIN table : table[i].flow = f
    THEN [i \in DOMAIN table |->
            IF table[i].flow = f
              THEN [table[i] EXCEPT !.eds = Append(@, ed)] ELSE table[i]]
    ELSE Append(table, [flow |-> f, eds |-> <<ed>>])

\* An exception leaves the callback of the capture loop and ends the process;
\* the shim that is started again has nothing.
Exit ==
  /\ starts < MaxStarts
  /\ starts' = starts + 1
  /\ flow_to_function_mapping' = <<>>
  /\ fd_to_object_map' = {}
  /\ trigger_due' = TRUE
  /\ asked' = [ed \in Desc |-> None]
  /\ last' = Untouched

\* exposed_install_function of the next descriptor: the messages of the
\* controller arrive in the order of its counter.
InstallFunction(f) ==
  LET ed == latest + 1 IN
  /\ ed \in Desc
  /\ latest' = ed
  /\ flow_to_function_mapping' =
       add_flow(add_flow(flow_to_function_mapping, f, ed), get_reverse_flow(f), ed)
  /\ fd_to_object_map' = fd_to_object_map \cup {ed}
  /\ asked' = [asked EXCEPT ![ed] = f]
  /\ UNCHANGED <<trigger_due, starts, last>>

\* The class is unknown, init() raises, or add_flow raises for a MAC address:
\* then _cleanup_failed_install deletes an object that is not there yet.
InstallFails ==
  /\ latest + 1 \in Desc
  /\ latest' = latest + 1
  /\ Exit

\* signal_handler, or another end of the process (a process_pkt that raises).
Shutdown == Exit /\ UNCHANGED latest

\* exposed_stop_function ("stop", which this controller never sends): the
\* object goes, its descriptor stays in the table.  Any other one raises.
StopFunction(ed) ==
  /\ ed <= latest
  /\ UNCHANGED latest
  /\ \/ /\ ed \notin fd_to_object_map
        /\ Exit
     \/ /\ ed \in fd_to_object_map
        /\ fd_to_object_map' = fd_to_object_map \ {ed}
        /\ UNCHANGED <<flow_to_function_mapping, trigger_due, starts, asked, last>>

-----------------------------------------------------------------------------
(* Packets.                                                                *)

\* Mutant: the source port is not compared.
MatchesNoSource(item, p) ==
  /\ \E field \in DOMAIN item : item[field] # None
  /\ item.nw_src \in {None, AsInt(p.nw_src)}
  /\ item.nw_dst \in {None, AsStr(p.nw_dst)}
  /\ item.nw_proto \in {None, p.nw_proto}
  /\ item.tp_dst \in {None, p.tp_dst}

\* The tests of lookup_flow: item_match is True if some field is looked at
\* and all those that are agree.  Only the source address is converted.
Matches(item, p) ==
  /\ \E field \in DOMAIN item : item[field] # None
  /\ item.nw_src \in {None, AsInt(p.nw_src)}
  /\ item.nw_dst \in {None, AsStr(p.nw_dst)}
  /\ item.nw_proto \in {None, p.nw_proto}
  /\ item.tp_src \in {None, p.tp_src}
  /\ item.tp_dst \in {None, p.tp_dst}

\* result_list
Results(p) ==
  {i \in DOMAIN flow_to_function_mapping :
     p.ip /\ Matches(flow_to_function_mapping[i].flow, p)}

\* Mutant: result_list[0]
lookup_first(p) ==
  IF Results(p) = {} THEN <<>>
  ELSE flow_to_function_mapping[
         CHOOSE i \in Results(p) : \A j \in Results(p) : i <= j].eds

\* result_list[-1]; <<>> is None.
lookup_flow(p) ==
  IF Results(p) = {} THEN <<>>
  ELSE flow_to_function_mapping[
         CHOOSE i \in Results(p) : \A j \in Results(p) : j <= i].eds

\* Mutant: elements that are gone are skipped.
HandlesLeft(p) ==
  SelectSeq(lookup_flow(p), LAMBDA ed : ed \in fd_to_object_map)

\* get_function_handles_from_flow: one element that is gone makes it None.
Handles(p) ==
  LET fds == lookup_flow(p) IN
  IF \E i \in DOMAIN fds : fds[i] \notin fd_to_object_map THEN <<>> ELSE fds

\* flow[NW_DST] == socket.inet_aton(self.mb_ip)
IsConfigure(p) == p.ip /\ AsStr(p.nw_dst) = AsBytes(MbIp)

\* calc_triggers, which asks for at least max_flows = 1 flows.
TriggerDueAfter ==
  IF Len(flow_to_function_mapping) >= 1 THEN FALSE ELSE trigger_due

\* demux: process_pkt of one handle after the other until one drops the
\* packet (returns nothing); fwd_pkt if the last one did not.
Demux(p) ==
  /\ \/ /\ IsConfigure(p) \/ Handles(p) = <<>>
        /\ last' = Untouched
        /\ UNCHANGED trigger_due
     \/ /\ ~IsConfigure(p)
        /\ \E n \in 1..Len(Handles(p)), passes \in BOOLEAN :
             /\ n < Len(Handles(p)) => ~passes
             /\ last' = [pkt |-> p, ran |-> SubSeq(Handles(p), 1, n),
                         forwarded |-> passes]
        /\ trigger_due' = TriggerDueAfter
  /\ UNCHANGED <<flow_to_function_mapping, fd_to_object_map, starts, latest, asked>>

IntervalPasses ==
  /\ ~trigger_due
  /\ trigger_due' = TRUE
  /\ UNCHANGED <<flow_to_function_mapping, fd_to_object_map, starts, latest,
                 asked, last>>

Next ==
  \/ \E f \in FlowSpaces : InstallFunction(f)
  \/ InstallFails \/ Shutdown
  \/ \E ed \in Desc : StopFunction(ed)
  \/ \E p \in Packets : Demux(p)
  \/ IntervalPasses

Spec == Init /\ [][Next]_vars
-----------------------------------------------------------------------------
(* Properties.                                                             *)

Last == [pkt : Packet \cup {None}, ran : Seq(Desc), forwarded : BOOLEAN]

(* The type invariant: the table holds flow spaces and real descriptors,   *)
(* whatever has been installed, stopped or failed.                         *)
TypeOK ==
  /\ flow_to_function_mapping \in Seq(Entry)
  /\ fd_to_object_map \subseteq Desc
  /\ trigger_due \in BOOLEAN
  /\ starts \in Nat /\ latest \in 0..MaxDesc
  /\ asked \in [Desc -> Flow \cup {None}]
  /\ last \in Last

\* The packets an application means by a flow space, addresses compared as
\* addresses.
Means(v, a) == v = None \/ v.ip = a
Covers(f, p) ==
  /\ Means(f.nw_src, p.nw_src) /\ Means(f.nw_dst, p.nw_dst)
  /\ f.nw_proto \in {None, p.nw_proto}
  /\ f.tp_src \in {None, p.tp_src} /\ f.tp_dst \in {None, p.tp_dst}
CoversEitherWay(f, p) == Covers(f, p) \/ Covers(get_reverse_flow(f), p)

(* "shim should handle packet to the right element instance"               *)
(* (TriggerAllUnitTest.py): an element only runs on packets of the flow    *)
(* space it was installed for or of the reverse one, although flow spaces  *)
(* that are the reverse of each other share the entries of the table.      *)
OnlyItsTraffic ==
  \A i \in DOMAIN last.ran :
    /\ asked[last.ran[i]] # None
    /\ CoversEitherWay(asked[last.ran[i]], last.pkt)

(* The elements of a flow space run in the order they were installed in,   *)
(* which is that of the service chain; and each of them once, unless its   *)
(* flow space is its own reverse (EqualApp.py), when both add_flow calls   *)
(* of exposed_install_function append to the same list.                    *)
ChainOrder ==
  \A i, j \in DOMAIN last.ran : i < j =>
    \/ last.ran[i] < last.ran[j]
    \/ /\ last.ran[i] = last.ran[j]
       /\ get_reverse_flow(asked[last.ran[i]]) = asked[last.ran[i]]

\* Flow spaces that lookup_flow can find in both directions: some field is
\* looked at, and none is an address.
Findable(f) ==
  /\ f.nw_src = None /\ f.nw_dst = None
  /\ \E field \in DOMAIN f : f[field] # None

(* A packet of a flow space, in either direction, finds the elements that  *)
(* were installed for it, or those of another entry of the table, whose    *)
(* first element came later than the first one of this flow space.         *)
FoundOrOvertaken ==
  \A ed \in Desc, p \in Packets :
    LET fds == lookup_flow(p) IN
    (asked[ed] # None /\ p.ip) =>
      (Findable(asked[ed]) /\ CoversEitherWay(asked[ed], p) =>
         \/ \E i \in DOMAIN fds : fds[i] = ed
         \/ \E d \in Desc :
              /\ fds # <<>> /\ Head(fds) > d
              /\ asked[d] \in {asked[ed], get_reverse_flow(asked[ed])})

(* A service chain applies as a whole: a packet that is sent on has been   *)
(* through every element that was ever installed for the flow space of any *)
(* element it has been through; with one of them stopped it is not sent    *)
(* on, instead of going around that element.                               *)
ChainWhole ==
  [][last' # last /\ last'.forwarded =>
       \A i \in DOMAIN last'.ran, d \in Desc :
         asked[d] = asked[last'.ran[i]] =>
           \E j \in DOMAIN last'.ran : last'.ran[j] = d]_vars
=============================================================================
