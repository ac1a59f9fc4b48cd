---------------------------- MODULE SlickControl ----------------------------
(***************************************************************************)
(* The control plane of Slick: the controller (slick_controller.py, with   *)
(* the maps of networkmaps.py and NetworkModel.py, the message processor   *)
(* msmessageproc.py and the scaling loop place_n_steer.py) and the shims   *)
(* (shim.py, mb_api.py) it drives over one TCP connection each.            *)
(*                                                                         *)
(* The controller is single threaded: POX's recoco scheduler runs one task *)
(* at a time, to its next yield, and none of the handlers below yields.    *)
(* The record ctl is the stack of the running task; while it is not idle   *)
(* no other task of the controller takes a step, but the shims, which are  *)
(* other processes, do.  An exception that leaves a task de-schedules it   *)
(* for ever (recoco.py, cycle); dead is the set of tasks this happened to. *)
(***************************************************************************)
EXTENDS Integers, Sequences, FiniteSets

CONSTANTS
  Machines,       \* machines that run a shim, named by the MAC it registers
  StrKey,         \* any registered MAC string of host_tracker (not a shim's)
  Flows,          \* flow spaces, pairwise disjoint
  Names,          \* element names
  NApps,          \* number of applications in app_handles
  Requests,       \* Requests[a]: the apply_elem calls of a's init(), in order
  TriggerRequest, \* TriggerRequest[a]: the calls a's handle_trigger may make
  Configuring,    \* applications whose configure_user_params configures
  Removers,       \* applications that call remove_elem
  ByCentrality,   \* is the placement IncrementalKPlacement?
  Capacity,       \* MAX_ELEMENTS_PER_MACHINE
  Overloadable,   \* machines sFlow may report as overloaded
  Leaving,        \* machines host_tracker may time out
  HostsMove,      \* may host_tracker report that a host has moved?
  SshFails,       \* may the ssh connection of a download raise?
  DataPlaneFirst, \* do machines send data-plane packets before registering?
  MaxDesc,        \* bound on element descriptors
  MaxSock,        \* bound on TCP connections, that is, on shim starts
  MaxQueue        \* bound on the messages in a channel

Apps == 1..NApps
Desc == 1..MaxDesc
Socks == 1..MaxSock
Timer == 0        \* the recoco task of timer_callback
Network == -1     \* the recoco task of network_state_callback
Tasks == Network..MaxSock  \* the others are TCPConnection tasks

\* A call of apply_elem.  params_ok: are parameters and controller_params as
\* long as element_names?  No application passes an empty element_names.
Request == [flow : Flows, names : Seq(Names) \ {<<>>}, params_ok : BOOLEAN]
Instance == [name : Names, app : Apps, mac : Machines, flow : Flows]
NoInstance == [app |-> 0]
DownMsg == [type : {"install", "configure", "remove"}, ed : Desc]
UpMsg == [type : {"register", "trigger"}, mac : Machines, ed : 0..MaxDesc]
\* An element of the chain apply_elem still has to install.
Pending == [name : Names, app : Apps, mac : Machines \cup {StrKey},
            flow : Flows, ed : Desc]

ASSUME ConstantsAssumption ==
  /\ NApps \in Nat
  /\ Requests \in [Apps -> Seq(Request)]
  /\ TriggerRequest \in [Apps -> SUBSET Request]
  /\ Configuring \subseteq Apps /\ Removers \subseteq Apps
  /\ Overloadable \subseteq Machines /\ Leaving \subseteq Machines
  /\ ByCentrality \in BOOLEAN /\ HostsMove \in BOOLEAN
  /\ SshFails \in BOOLEAN /\ DataPlaneFirst \in BOOLEAN
  /\ MaxDesc \in Nat /\ MaxSock \in Nat /\ MaxQueue \in Nat
  /\ Capacity \in Nat \ {0}
  /\ StrKey \notin Machines

VARIABLES
  \* msmessageproc, networkmaps: registration
  tcp_conn_handlers, \* machine -> its last registered socket (0: none)
  mac_to_ip,         \* MACs ever registered, by a shim or (StrKey) by host_tracker
  hosts,             \* overlay_net.hosts: whose switch is known (StrKey: any
                     \* host that runs no shim)
  \* networkmaps, NetworkModel: elements
  latest,              \* _latest_element_descriptor
  mac_to_elems,        \* elem_to_mac
  application_handles, \* elem_to_app: descriptor -> application (0: none)
  ed_to_instance,      \* network_model._ed_to_instance
  flow_instances,      \* flow_to_element_instance_mapping
  flow_names,          \* flow_to_element_mapping: flow -> names, in order
  flow_to_id,          \* flow spaces that have an identifier
  traffic,             \* flow spaces with an entry in flow_matrices
  app_ed,              \* application -> ed1[0] of its init(); 0: not installed
  \* NetworkModel, place_n_steer: load and redirection
  loaded_descs,    \* _elem_name_to_loaded_descs
  elem_migration,  \* old descriptor -> new descriptor (0: none)
  migrating_flows, \* flow -> old descriptor (0: none)
  \* recoco tasks
  ctl, dead,
  \* shims and channels
  nsock,     \* connections accepted so far
  closed,    \* those that are no longer in TCPTransport._connections
  shim_sock, \* machine -> socket of its running shim (0: not running)
  objects,   \* machine -> fd_to_object_map of its shim
  down,      \* machine -> messages under way to its running shim
  up,        \* socket -> messages the controller has not read yet
  \* history
  sent_on    \* descriptor -> socket its install message went to (0: none)

registration == <<tcp_conn_handlers, mac_to_ip, hosts>>
elements == <<latest, mac_to_elems, application_handles, ed_to_instance,
              flow_instances, flow_names, sent_on>>
policy == <<flow_to_id, traffic, app_ed>>
load == <<loaded_descs, elem_migration, migrating_flows>>
tasks == <<ctl, dead>>
processes == <<nsock, shim_sock, objects>>
shims == <<nsock, shim_sock, objects, closed>>
vars == <<registration, elements, policy, load, tasks, shims, down, up>>

Idle == [pc |-> "idle", task |-> Timer, app |-> 0, req |-> 0, failed |-> {},
         first |-> 0, todo |-> {}, chain |-> <<>>]

Init ==
  /\ tcp_conn_handlers = [m \in Machines |-> 0]
  /\ mac_to_ip = {} /\ hosts = {}
  /\ latest = 1
  /\ mac_to_elems = [m \in Machines |-> {}]
  /\ application_handles = [ed \in Desc |-> 0]
  /\ ed_to_instance = [ed \in Desc |-> NoInstance]
  /\ flow_instances = [f \in Flows |-> {}]
  /\ flow_names = [f \in Flows |-> <<>>]
  /\ flow_to_id = {} /\ traffic = {}
  /\ app_ed = [a \in Apps |-> 0]
  /\ loaded_descs = {}
  /\ elem_migration = [ed \in Desc |-> 0]
  /\ migrating_flows = [f \in Flows |-> 0]
  /\ ctl = Idle /\ dead = {}
  /\ nsock = 0 /\ closed = {}
  /\ shim_sock = [m \in Machines |-> 0]
  /\ objects = [m \in Machines |-> {}]
  /\ down = [m \in Machines |-> <<>>]
  /\ up = [s \in Socks |-> <<>>]
  /\ sent_on = [ed \in Desc |-> 0]

-----------------------------------------------------------------------------
(* Messages from the controller.                                           *)

\* An exception leaves the running task t.
Raise(t) == ctl' = Idle /\ dead' = dead \cup {t}

\* send_mb_msg writes to the connection with the registered socket name; a
\* connection that is gone, or whose shim has exited, receives nothing.
Connected(m) == shim_sock[m] # 0 /\ tcp_conn_handlers[m] = shim_sock[m]

\* Mutant: the test of the socket name is missing.
SentToAll(m, msg) ==
  [n \in Machines |-> IF Connected(n) THEN Append(down[n], msg) ELSE down[n]]

Sent(m, msg) ==
  IF Connected(m) THEN [down EXCEPT ![m] = Append(@, msg)] ELSE down

\* The shim has exited, and the task of the connection has not read its end.
HalfOpen(m) ==
  tcp_conn_handlers[m] \in Socks \ closed /\ tcp_conn_handlers[m] # shim_sock[m]

\* A send() on such a connection is accepted (Sent: the message is lost) or
\* fails.  When it fails send_raw has the connection forgotten, that is,
\* removed from the set send_mb_msg iterates over: RuntimeError.
SendRaises(m, t) ==
  /\ HalfOpen(m)
  /\ closed' = closed \cup {tcp_conn_handlers[m]}
  /\ Raise(t)
  /\ UNCHANGED down

\* The bound on channels: a task waits while the channel it writes to is full.
Room(m) == Len(down[m]) < MaxQueue

\* Mutant: the location network_model has, which outlives a registration.
PlacedOn(ed) ==
  {m \in Machines : ed_to_instance[ed] # NoInstance /\ ed_to_instance[ed].mac = m}

\* elem_to_mac.get
MachinesOf(ed) == {m \in Machines : ed \in mac_to_elems[m]}

-----------------------------------------------------------------------------
(* apply_elem: the checks, the placement and the descriptors.  c is the    *)
(* stack of the caller, to which Returned gives the result.                *)

\* Mutant: only the last apply_elem of init() counts.
ReturnedLast(c, success) ==
  IF c.task = Timer
    THEN [c EXCEPT !.pc = "init", !.req = @ + 1,
                   !.failed = IF success THEN {} ELSE {c.req}, !.chain = <<>>]
  ELSE IF c.task = Network
    THEN [c EXCEPT !.pc = "loaded", !.chain = <<>>]
  ELSE Idle

\* apply_elem returns to c: descriptors (success) or an error code.
Returned(c, success) ==
  IF c.task = Timer
    THEN [c EXCEPT !.pc = "init", !.req = @ + 1,
                   !.failed = IF success THEN @ ELSE @ \cup {c.req},
                   !.chain = <<>>]
  ELSE IF c.task = Network
    THEN [c EXCEPT !.pc = "loaded", !.chain = <<>>]
  ELSE Idle

\* get_compatible_machines returns every registered MAC, shim or not.
RegisteredMachines == mac_to_ip

\* Mutant: one element too many.
PlacementAllowedOffByOne(mac) ==
  mac = StrKey \/ Cardinality(mac_to_elems[mac]) <= Capacity

\* No element is ever recorded under a host_tracker MAC.
element_placement_allowed(mac) ==
  mac = StrKey \/ Cardinality(mac_to_elems[mac]) < Capacity

\* Mutant: wait until enough machines are present.
CandidatesOfMany ==
  IF Cardinality(RegisteredMachines) < 2 THEN {} ELSE RegisteredMachines

\* get_placement of RandomPlacement and RoundRobinPlacement takes any of the
\* registered machines; that of IncrementalKPlacement (ByCentrality) only the
\* allowed ones and, when there are several, has to find the switch of each.
Candidates ==
  IF ByCentrality
    THEN {mac \in RegisteredMachines : element_placement_allowed(mac)}
    ELSE RegisteredMachines

\* get_connected_switch does not raise KeyError.
SwitchKnown(mac) == mac \in hosts

\* A machine for every name, each chosen without regard to the others.
Placements(names) == [1..Len(names) -> Candidates]

Ranked == ByCentrality /\ Cardinality(Candidates) > 1
PlacementFails == Candidates = {} \/ Ranked
PlacementRaises == Ranked /\ \E mac \in Candidates : ~SwitchKnown(mac)

\* get_unique_flowspace_desc
Identified(flow) == flow_to_id \cup {flow}

\* add_mb_client: ssh.connect raises, and has no address to connect to for a
\* MAC of host_tracker.  (put_file swallows the errors of the copy.)
ConnectRaises(mac) == SshFails \/ mac = StrKey

\* download_files
DownloadRaises(macs) == \E i \in DOMAIN macs : ConnectRaises(macs[i])

is_there_traffic == traffic # {}

\* Mutant: the counter is read before it is incremented twice.
ChainOfOffByOne(a, r, macs) ==
  [i \in 1..Len(r.names) |->
     [name |-> r.names[i], app |-> a, mac |-> macs[i], flow |-> r.flow,
      ed |-> latest + i + 1]]

\* Mutant: the descriptors that remove_elem has freed are used again.
ChainOfFreed(a, r, macs) ==
  [i \in 1..Len(r.names) |->
     [name |-> r.names[i], app |-> a, mac |-> macs[i], flow |-> r.flow,
      ed |-> IF \E d \in 2..latest : application_handles[d] = 0
               THEN CHOOSE d \in 2..latest : application_handles[d] = 0
               ELSE latest + i]]

\* The elements of the request with the machines and descriptors they get.
ChainOf(a, r, macs) ==
  [i \in 1..Len(r.names) |->
     [name |-> r.names[i], app |-> a, mac |-> macs[i], flow |-> r.flow,
      ed |-> latest + i]]

ApplyElem(a, r, c) ==
  /\ UNCHANGED <<registration, traffic, app_ed, load, shims, down, mac_to_elems,
                 application_handles, ed_to_instance, flow_instances,
                 flow_names, sent_on>>
  /\ \/ /\ RegisteredMachines = {} /\ hosts # {}               \* [-4]
        /\ ctl' = Returned(c, FALSE)
        /\ UNCHANGED <<latest, flow_to_id, dead>>
     \/ /\ RegisteredMachines # {} \/ hosts = {}
        /\ flow_to_id' = Identified(r.flow)
        /\ \/ /\ ~is_there_traffic \/ PlacementFails \* [-5], [-1]
              /\ ctl' = Returned(c, FALSE)
              /\ UNCHANGED <<latest, dead>>
           \/ /\ is_there_traffic /\ PlacementRaises         \* KeyError
              /\ Raise(c.task)
              /\ UNCHANGED latest
           \/ /\ is_there_traffic /\ ~PlacementRaises
              /\ \E macs \in Placements(r.names) :
                   \/ /\ DownloadRaises(macs)
                      /\ Raise(c.task)
                      /\ UNCHANGED latest
                   \/ /\ latest + Len(r.names) <= MaxDesc
                      /\ latest' = latest + Len(r.names)
                      /\ IF r.params_ok
                           THEN /\ ctl' = [c EXCEPT !.pc = "install",
                                             !.chain = ChainOf(a, r, macs)]
                                /\ UNCHANGED dead
                           ELSE Raise(c.task)                  \* assert

(* apply_elem: one turn of the loop that installs the chain.               *)

\* Mutant: add_element does not look for the name.
ListedAgain(names, name) == Append(names, name)

\* add_element: a replica adds no name.
Listed(names, name) ==
  IF \E i \in 1..Len(names) : names[i] = name THEN names ELSE Append(names, name)

\* Mutant: the owner is not recorded.
NotOwned(e) == application_handles

\* elem_to_app.update
Owned(e) == [application_handles EXCEPT ![e.ed] = e.app]

\* add_element_instance
InstanceListed(e) == [flow_instances EXCEPT ![e.flow] = @ \cup {e.ed}]

\* add_placement
Instantiated(e) ==
  [ed_to_instance EXCEPT ![e.ed] =
     [name |-> e.name, app |-> e.app, mac |-> e.mac, flow |-> e.flow]]

\* elem_to_mac, flow_to_elems, elem_to_app and network_model record e.
Record(e) ==
  /\ mac_to_elems' = [mac_to_elems EXCEPT ![e.mac] = @ \cup {e.ed}]
  /\ flow_names' = [flow_names EXCEPT ![e.flow] = Listed(@, e.name)]
  /\ flow_instances' = InstanceListed(e)
  /\ application_handles' = Owned(e)
  /\ ed_to_instance' = Instantiated(e)

\* ElementInstanceEvent: its listener in the overlay network looks for the
\* switch of the machine.
InstanceEventRaises(mac) == ~SwitchKnown(mac)

InstallNext ==
  LET e == Head(ctl.chain)
      rest == Tail(ctl.chain)
  IN
  /\ ctl.pc = "install"
  /\ UNCHANGED <<registration, policy, load, processes, up, latest>>
  /\ \/ /\ \A m \in Machines : tcp_conn_handlers[m] = 0   \* send_msg: False
        /\ ctl' = Returned(ctl, FALSE)
        /\ UNCHANGED <<closed, dead, down, sent_on, mac_to_elems, flow_names,
                       flow_instances, application_handles, ed_to_instance>>
     \/ /\ e.mac # StrKey /\ SendRaises(e.mac, ctl.task)
        /\ UNCHANGED <<sent_on, mac_to_elems, flow_names, flow_instances,
                       application_handles, ed_to_instance>>
     \/ /\ \E m \in Machines : tcp_conn_handlers[m] # 0
        /\ IF e.mac = StrKey
             THEN /\ Raise(ctl.task)                      \* KeyError
                  /\ UNCHANGED <<down, sent_on>>
             ELSE /\ Room(e.mac)
                  /\ down' = Sent(e.mac, [type |-> "install", ed |-> e.ed])
                  /\ sent_on' = [sent_on EXCEPT ![e.ed] =
                                                  tcp_conn_handlers[e.mac]]
                  /\ IF InstanceEventRaises(e.mac)
                       THEN Raise(ctl.task)
                       ELSE /\ ctl' = IF rest = <<>>
                                        THEN Returned(ctl, TRUE)
                                        ELSE [ctl EXCEPT !.chain = rest]
                            /\ UNCHANGED dead
        /\ IF e.mac # StrKey /\ ~InstanceEventRaises(e.mac)
             THEN Record(e)
             ELSE UNCHANGED <<mac_to_elems, flow_names, flow_instances,
                              application_handles, ed_to_instance>>
        /\ UNCHANGED closed

-----------------------------------------------------------------------------
(* timer_callback: init() of the applications that are not installed, then *)
(* configure_user_params for every element.                                *)

Start(task) == ctl.pc = "idle" /\ task \notin dead

TimerTick ==
  /\ Start(Timer)
  /\ ctl' = [Idle EXCEPT !.pc = "init", !.app = 1, !.req = 1]
  /\ UNCHANGED <<registration, elements, policy, load, dead, shims, down, up>>

NextApp(c) == [c EXCEPT !.app = @ + 1, !.req = 1, !.failed = {}, !.first = 0]

\* The loop over app_handles: the next application, or the next step of the
\* init() of this one.
TimerInit ==
  LET a == ctl.app IN
  /\ ctl.pc = "init"
  /\ UNCHANGED up
  /\ \/ /\ a \notin Apps
        /\ ctl' = [ctl EXCEPT !.pc = "config",
                     !.todo = {ed \in Desc : application_handles[ed] # 0}]
        /\ UNCHANGED <<registration, elements, policy, load, dead, shims, down>>
     \/ /\ a \in Apps /\ app_ed[a] # 0
        /\ ctl' = NextApp(ctl)
        /\ UNCHANGED <<registration, elements, policy, load, dead, shims, down>>
     \/ /\ a \in Apps /\ app_ed[a] = 0 /\ ctl.req > Len(Requests[a])
        /\ app_ed' = [app_ed EXCEPT ![a] = IF ctl.failed = {} THEN ctl.first ELSE 0]
        /\ ctl' = NextApp(ctl)
        /\ UNCHANGED <<registration, elements, flow_to_id, traffic, load, dead,
                       shims, down>>
     \/ /\ a \in Apps /\ app_ed[a] = 0 /\ ctl.req \in 1..Len(Requests[a])
        /\ ApplyElem(a, Requests[a][ctl.req],
                     IF ctl.req = 1 THEN [ctl EXCEPT !.first = latest + 1]
                                    ELSE ctl)

\* get_app_handle, get_app_desc: they raise for any other descriptor.
HasOwner(ed) == application_handles[ed] # 0

\* configure_elem of application a on the descriptor it got from init().
Configure(a, c) ==
  LET ed == app_ed[a] IN
  IF ed = 0 \/ ~HasOwner(ed)
    THEN Raise(c.task) /\ UNCHANGED <<down, closed>>    \* TypeError, KeyError
    ELSE \/ \E m \in MachinesOf(ed) : SendRaises(m, c.task)
         \/ /\ ctl' = c
            /\ \/ /\ MachinesOf(ed) = {}
                  /\ UNCHANGED down
               \/ \E m \in MachinesOf(ed) :
                    /\ Room(m)
                    /\ down' = Sent(m, [type |-> "configure", ed |-> ed])
            /\ UNCHANGED <<dead, closed>>

TimerConfigure ==
  /\ ctl.pc = "config"
  /\ UNCHANGED <<registration, elements, policy, load, processes, up>>
  /\ \/ /\ ctl.todo = {}
        /\ ctl' = Idle
        /\ UNCHANGED <<closed, dead, down>>
     \/ \E ed \in ctl.todo :
          LET a == application_handles[ed]
              c == [ctl EXCEPT !.todo = @ \ {ed}]
          IN /\ \A d \in ctl.todo : ed <= d
             /\ IF a \in Configuring
                  THEN Configure(a, c)
                  ELSE ctl' = c /\ UNCHANGED <<closed, dead, down>>

-----------------------------------------------------------------------------
(* network_state_callback: place_n_steer.                                  *)

\* The machines get_loaded_middleboxes may report: registered, with a known
\* location.
Loadable == Overloadable \cap mac_to_ip \cap hosts

\* get_loaded_elements: the first element of every overloaded machine.
LoadedElements(overloaded) ==
  {ed \in Desc : \E m \in overloaded :
     /\ ed \in mac_to_elems[m]
     /\ \A d \in mac_to_elems[m] : ed <= d}

\* update_function_loads: a descriptor that was loaded once stays so.
LoadedAfter(eds) == loaded_descs \cup eds

NetworkTick ==
  /\ Start(Network)
  /\ \E overloaded \in SUBSET Loadable :
     \E congested \in BOOLEAN :
       LET eds == LoadedElements(overloaded) IN
       /\ eds # {}
       /\ loaded_descs' = LoadedAfter(eds)
       /\ ctl' = IF congested THEN Idle
                 ELSE [Idle EXCEPT !.pc = "loaded", !.task = Network,
                                   !.todo = eds]
  /\ UNCHANGED <<registration, elements, policy, elem_migration,
                 migrating_flows, dead, shims, down, up>>

\* Mutant: init_migration with its arguments swapped.
MigratedBack(old_ed, new_ed) == [elem_migration EXCEPT ![new_ed] = old_ed]

\* init_migration
Migrated(old_ed, new_ed) == [elem_migration EXCEPT ![old_ed] = new_ed]

\* steer_traffic
SteerTraffic(old_ed, new_ed, c) ==
  /\ UNCHANGED <<registration, elements, policy, loaded_descs, shims, down>>
  /\ IF old_ed = new_ed
       THEN Raise(c.task) /\ UNCHANGED <<elem_migration, migrating_flows>>
       ELSE /\ elem_migration' = Migrated(old_ed, new_ed)
            /\ migrating_flows' =
                 [migrating_flows EXCEPT ![ed_to_instance[old_ed].flow] = old_ed]
            /\ ctl' = c
            /\ UNCHANGED dead

\* get_elem_descs
ElemDescs(name) ==
  {d \in Desc : ed_to_instance[d] # NoInstance /\ ed_to_instance[d].name = name}

\* get_not_loaded_element_descs
NotLoaded(name) == ElemDescs(name) \ loaded_descs

\* CPython iterates integers below 8 in ascending order, in a dictionary and
\* in a set; from 8 on the order depends on the size of the table.
FirstKey(d, S) == (\A x \in S : x < 8) => \A x \in S : d <= x
LastKey(d, S) == (\A x \in S : x < 8) => \A x \in S : x <= d

\* handle_loaded_elements: one turn of its loop, from eds[0] (old_ed) to
\* avail_eds.pop() (new_ed).
HandleLoaded ==
  /\ ctl.pc = "loaded"
  /\ UNCHANGED up
  /\ \/ /\ ctl.todo = {}
        /\ ctl' = Idle
        /\ UNCHANGED <<registration, elements, policy, load, dead, shims, down>>
     \/ \E ed \in ctl.todo :
          LET named == ElemDescs(ed_to_instance[ed].name)
              avail == NotLoaded(ed_to_instance[ed].name)
              c == [ctl EXCEPT !.todo = @ \ {ed}]
          IN \E old_ed \in named : FirstKey(old_ed, named) /\
               \/ /\ avail = {}                      \* _create_element_instance
                  /\ ApplyElem(application_handles[old_ed],
                       [flow |-> ed_to_instance[old_ed].flow,
                        names |-> <<ed_to_instance[old_ed].name>>,
                        params_ok |-> TRUE], c)
               \/ \E new_ed \in avail :
                    LastKey(new_ed, avail) /\ SteerTraffic(old_ed, new_ed, c)

\* _handle_FlowRemoved, for the flow spaces being redirected.
FlowRemoved(f) ==
  /\ ctl.pc = "idle"
  /\ migrating_flows[f] # 0 /\ elem_migration[migrating_flows[f]] # 0
  /\ elem_migration' = [elem_migration EXCEPT ![migrating_flows[f]] = 0]
  /\ migrating_flows' = [migrating_flows EXCEPT ![f] = 0]
  /\ UNCHANGED <<registration, elements, policy, loaded_descs, tasks, shims,
                 down, up>>

-----------------------------------------------------------------------------
(* The TCPConnection task of socket s: process_msg on its next message.    *)

\* Mutant: elem_to_mac.add keeps the list of a machine it knows.
NotCleared(m) == mac_to_elems

\* elem_to_mac.add(machine_mac, None)
Cleared(m) == [mac_to_elems EXCEPT ![m] = {}]

\* mac_to_ip.add
WithAddress(mac) == mac_to_ip \cup {mac}

\* "register": the machine starts with no element, whatever it ran before.
Register(s, m) ==
  /\ tcp_conn_handlers' = [tcp_conn_handlers EXCEPT ![m] = s]
  /\ mac_to_ip' = WithAddress(m)
  /\ mac_to_elems' = Cleared(m)
  /\ UNCHANGED <<hosts, latest, application_handles,
                 ed_to_instance, flow_instances, flow_names, sent_on, policy,
                 load, tasks, shims, down>>

\* "trigger": descriptor 0 is the shim's own, and its branch only logs; any
\* other goes to the application that owns it.
HandleTrigger(s, ed) ==
  \/ /\ ed # 0 /\ ~HasOwner(ed)                          \* InstanceNotFound
     /\ Raise(s)
     /\ UNCHANGED <<registration, elements, policy, load, shims, down>>
  \/ /\ ed # 0 => HasOwner(ed)
     /\ UNCHANGED <<registration, elements, policy, load, tasks, shims, down>>
  \/ /\ ed # 0 /\ HasOwner(ed)
     /\ \E r \in TriggerRequest[application_handles[ed]] :
          ApplyElem(application_handles[ed], r, [Idle EXCEPT !.task = s])

\* process_messages handles the lines of a connection one after the other.
Received(s) == [up EXCEPT ![s] = Tail(@)]

ControllerRecv(s) ==
  /\ Start(s)
  /\ up[s] # <<>>
  /\ up' = Received(s)
  /\ IF Head(up[s]).type = "register"
       THEN Register(s, Head(up[s]).mac)
       ELSE HandleTrigger(s, Head(up[s]).ed)

\* TCPConnection.run reads the end of the connection and closes it.
ControllerEof(s) ==
  /\ Start(s)
  /\ s <= nsock /\ s \notin closed /\ up[s] = <<>>
  /\ \A m \in Machines : shim_sock[m] # s
  /\ closed' = closed \cup {s}
  /\ UNCHANGED <<registration, elements, policy, load, tasks, processes, down, up>>

-----------------------------------------------------------------------------
(* The other entry points of the controller.                               *)

\* remove_element_instance
Unlisted(ed) == [f \in Flows |-> flow_instances[f] \ {ed}]

\* ElementToMac.remove
Displaced(m, ed) == [mac_to_elems EXCEPT ![m] = @ \ {ed}]

\* remove_placement
Forgotten(ed) == [ed_to_instance EXCEPT ![ed] = NoInstance]

\* remove_elem by the application that owns ed.
RemoveElem(a, ed) ==
  /\ ctl.pc = "idle" /\ a \in Removers
  /\ application_handles[ed] = a
  /\ \E m \in MachinesOf(ed) :
       /\ Room(m)
       /\ down' = Sent(m, [type |-> "remove", ed |-> ed])
       /\ mac_to_elems' = Displaced(m, ed)
  /\ flow_instances' = Unlisted(ed)
  /\ application_handles' = [application_handles EXCEPT ![ed] = 0]
  /\ ed_to_instance' = Forgotten(ed)
  /\ UNCHANGED <<registration, latest, flow_names, sent_on, policy, load, tasks,
                 shims, up>>

\* The same, called from task t, when send_msg raises before any map changes:
\* an element of a machine that has registered again has no machine (KeyError),
\* or the shim has exited.
RemoveRaises(a, ed) ==
  /\ ctl.pc = "idle" /\ a \in Removers
  /\ application_handles[ed] = a
  /\ \E t \in Tasks \ dead :
       \/ MachinesOf(ed) = {} /\ Raise(t) /\ UNCHANGED <<down, closed>>
       \/ \E m \in MachinesOf(ed) : SendRaises(m, t)
  /\ UNCHANGED <<registration, elements, policy, load, processes, up>>

Hosts == Machines \cup {StrKey}

\* HostEvent.  host_tracker knows no IP address of a host when it joins, and
\* has forgotten them when it leaves: only a move registers one, by the
\* string of its MAC.
HostJoin(h) ==
  /\ ctl.pc = "idle" /\ h \notin hosts
  /\ hosts' = hosts \cup {h}
  /\ UNCHANGED <<tcp_conn_handlers, mac_to_ip, elements, policy,
                 load, tasks, shims, down, up>>

HostLeave(h) ==
  /\ ctl.pc = "idle" /\ h \in hosts \cap Leaving
  /\ hosts' = hosts \ {h}
  /\ UNCHANGED <<tcp_conn_handlers, mac_to_ip, elements, policy,
                 load, tasks, shims, down, up>>

HostMove(h) ==
  /\ ctl.pc = "idle" /\ h \in hosts /\ HostsMove
  /\ mac_to_ip' = WithAddress(StrKey)
  /\ UNCHANGED <<tcp_conn_handlers, hosts, elements, policy, load,
                 tasks, shims, down, up>>

\* _update_tm for a packet of a flow space that has an identifier; packets
\* between hosts of one switch or of adjacent ones have an empty raw path and
\* are not counted.
PacketIn(f) ==
  /\ ctl.pc = "idle"
  /\ f \in flow_to_id \ traffic
  /\ traffic' = traffic \cup {f}
  /\ UNCHANGED <<registration, elements, flow_to_id, app_ed, load, tasks, shims,
                 down, up>>

-----------------------------------------------------------------------------
(* Shims.                                                                  *)

\* Shim.__init__: connect, then register.
ShimStart(m) ==
  /\ shim_sock[m] = 0 /\ nsock < MaxSock
  /\ DataPlaneFirst => m \in hosts
  /\ nsock' = nsock + 1
  /\ shim_sock' = [shim_sock EXCEPT ![m] = nsock + 1]
  /\ up' = [up EXCEPT ![nsock + 1] =
                   <<[type |-> "register", mac |-> m, ed |-> 0]>>]
  /\ UNCHANGED <<registration, elements, policy, load, tasks, objects, closed,
                 down>>

\* The process exits: what it has sent still arrives.  (Bounded by MaxSock:
\* the last shim start is not followed by a crash.)
ShimCrash(m) ==
  /\ shim_sock[m] # 0 /\ nsock < MaxSock
  /\ shim_sock' = [shim_sock EXCEPT ![m] = 0]
  /\ objects' = [objects EXCEPT ![m] = {}]
  /\ down' = [down EXCEPT ![m] = <<>>]
  /\ UNCHANGED <<registration, elements, policy, load, tasks, nsock, closed, up>>

\* exposed_install_function, exposed_configure_function.  A "configure" of an
\* element the shim does not have, and any "remove", do nothing.
ObjectsAfter(m, msg) ==
  IF msg.type = "install" THEN [objects EXCEPT ![m] = @ \cup {msg.ed}]
  ELSE objects

\* Mutant: only the first of the messages that recv returned is handled.
ShimDecodeFirst(m) ==
  /\ down[m] # <<>>
  /\ down' = [down EXCEPT ![m] = <<>>]
  /\ objects' = ObjectsAfter(m, Head(down[m]))
  /\ UNCHANGED <<registration, elements, policy, load, tasks, nsock, shim_sock,
                 closed, up>>

\* decode: a data packet makes the shim read the control connection.
ShimDecode(m) ==
  /\ down[m] # <<>>
  /\ down' = [down EXCEPT ![m] = Tail(@)]
  /\ objects' = ObjectsAfter(m, Head(down[m]))
  /\ UNCHANGED <<registration, elements, policy, load, tasks, nsock, shim_sock,
                 closed, up>>

\* send_data_basic
Delivered(s, msg) == [up EXCEPT ![s] = Append(@, msg)]

\* raise_trigger, of an element or (0) of ShimResources.
ShimTrigger(m) ==
  LET s == shim_sock[m] IN
  /\ s # 0 /\ Len(up[s]) < MaxQueue
  /\ \E ed \in objects[m] \cup {0} :
       up' = Delivered(s, [type |-> "trigger", mac |-> m, ed |-> ed])
  /\ UNCHANGED <<registration, elements, policy, load, tasks, shims, down>>

-----------------------------------------------------------------------------
(* A step of the task that is running.                                     *)
Running == TimerInit \/ InstallNext \/ TimerConfigure \/ HandleLoaded

Next ==
  \/ TimerTick \/ NetworkTick \/ TimerInit \/ InstallNext \/ TimerConfigure
  \/ HandleLoaded
  \/ \E s \in Socks : ControllerRecv(s) \/ ControllerEof(s)
  \/ \E a \in Apps, ed \in Desc : RemoveElem(a, ed) \/ RemoveRaises(a, ed)
  \/ \E h \in Hosts : HostJoin(h) \/ HostLeave(h) \/ HostMove(h)
  \/ \E f \in Flows : FlowRemoved(f) \/ PacketIn(f)
  \/ \E m \in Machines :
       ShimStart(m) \/ ShimCrash(m) \/ ShimDecode(m) \/ ShimTrigger(m)

Spec == Init /\ [][Next]_vars

\* recoco runs every ready task in turn, so a task that is ready again and
\* again is run (strong fairness); shims are started, and read the control
\* connection because data packets keep arriving.
Fairness ==
  /\ WF_vars(Running) /\ SF_vars(TimerTick)
  /\ \A s \in Socks : SF_vars(ControllerRecv(s) \/ ControllerEof(s))
  /\ \A m \in Machines :
       SF_vars(HostJoin(m)) /\ WF_vars(ShimStart(m)) /\ WF_vars(ShimDecode(m))
  /\ \A f \in Flows : SF_vars(PacketIn(f))

FairSpec == Spec /\ Fairness

-----------------------------------------------------------------------------
(* Properties.                                                             *)

Instances == {ed \in Desc : ed_to_instance[ed] # NoInstance}

RegistrationOK ==
  /\ tcp_conn_handlers \in [Machines -> 0..MaxSock]
  /\ mac_to_ip \in SUBSET Hosts
  /\ hosts \in SUBSET Hosts

ElementsOK ==
  /\ latest \in Nat
  /\ mac_to_elems \in [Machines -> SUBSET Desc]
  /\ application_handles \in [Desc -> 0..NApps]
  /\ ed_to_instance \in [Desc -> Instance \cup {NoInstance}]
  /\ flow_instances \in [Flows -> SUBSET Desc]
  /\ flow_names \in [Flows -> Seq(Names)]
  /\ sent_on \in [Desc -> 0..MaxSock]

PolicyOK ==
  /\ flow_to_id \in SUBSET Flows
  /\ traffic \in SUBSET Flows
  /\ app_ed \in [Apps -> Nat]

LoadOK ==
  /\ loaded_descs \in SUBSET Desc
  /\ elem_migration \in [Desc -> 0..MaxDesc]
  /\ migrating_flows \in [Flows -> 0..MaxDesc]

Stack == [pc : {"idle", "init", "install", "config", "loaded"}, task : Tasks,
          app : 0..(NApps + 1), req : Nat, failed : SUBSET Nat, first : Nat,
          todo : SUBSET Desc, chain : Seq(Pending)]

TasksOK == ctl \in Stack /\ dead \in SUBSET Tasks

ShimsOK ==
  /\ nsock \in 0..MaxSock /\ closed \in SUBSET Socks
  /\ shim_sock \in [Machines -> 0..MaxSock]
  /\ objects \in [Machines -> SUBSET Desc]

ChannelsOK ==
  /\ down \in [Machines -> Seq(DownMsg)]
  /\ up \in [Socks -> Seq(UpMsg)]

(* The type invariant: in particular the descriptors, machines and flow    *)
(* spaces of a chain that apply_elem is installing are real ones, whatever *)
(* task called it (timer, trigger or scaling loop).                        *)
TypeOK ==
  /\ RegistrationOK /\ ElementsOK /\ PolicyOK /\ LoadOK /\ TasksOK /\ ShimsOK
  /\ ChannelsOK

(* The maps of the controller agree: a descriptor that has an instance in  *)
(* network_model belongs to the same application in elem_to_app and is in  *)
(* the instance list of its own flow space and of no other; one that has   *)
(* none is in no map.  remove_elem and the loop of apply_elem update the   *)
(* four maps one after the other.                                          *)
OwnersAgree ==
  \A ed \in Desc :
    /\ application_handles[ed] = ed_to_instance[ed].app
    /\ {f \in Flows : ed \in flow_instances[f]} =
         {f \in Flows : ed \in Instances /\ f = ed_to_instance[ed].flow}
    /\ \A m \in Machines :
         ed \in mac_to_elems[m] => ed \in Instances /\ ed_to_instance[ed].mac = m

(* Steering walks flow_to_element_mapping and looks for an instance of     *)
(* every name: each instance is listed there under its flow space, once.   *)
NamesListed ==
  /\ \A ed \in Instances : \E i \in 1..Len(flow_names[ed_to_instance[ed].flow]) :
       flow_names[ed_to_instance[ed].flow][i] = ed_to_instance[ed].name
  /\ \A f \in Flows : \A i, j \in 1..Len(flow_names[f]) :
       flow_names[f][i] = flow_names[f][j] => i = j

(* elem_to_mac lists, for a machine, exactly the instances placed on it    *)
(* whose install message went to the connection the machine registered     *)
(* last: a shim that comes back starts empty and so does its list, however *)
(* its registration interleaves with installs and late messages.           *)
SessionExact ==
  \A m \in Machines, ed \in Desc :
    ed \in mac_to_elems[m] <=>
      /\ ed \in Instances /\ ed_to_instance[ed].mac = m
      /\ sent_on[ed] = tcp_conn_handlers[m]

\* The positions of the messages of a type about ed in the channel to m.
InFlight(m, type, ed) ==
  {i \in 1..Len(down[m]) : down[m][i] = [type |-> type, ed |-> ed]}

(* An element that elem_to_mac places on a machine whose shim is connected *)
(* runs there, or its install message is on the way: nothing configures or *)
(* steers to an element that will never exist.                             *)
BeliefBacked ==
  \A m \in Machines : Connected(m) =>
    \A ed \in mac_to_elems[m] :
      ed \in objects[m] \/ InFlight(m, "install", ed) # {}

(* A shim drops the configuration of an element it does not have           *)
(* (exposed_configure_function): none is ever sent to one that will not    *)
(* have installed the element by the time it reads the message.            *)
ConfigureFindsElement ==
  \A m \in Machines, ed \in Desc : \A i \in InFlight(m, "configure", ed) :
    ed \in objects[m] \/ \E j \in InFlight(m, "install", ed) : j < i

(* A descriptor is installed once: it never runs, or is about to run, on   *)
(* two machines or twice on one.                                           *)
InstalledOnce ==
  \A ed \in Desc : \A m, n \in Machines :
    /\ ed \in objects[m] => InFlight(n, "install", ed) = {}
    /\ ed \in objects[m] \cap objects[n] => m = n
    /\ \A i \in InFlight(m, "install", ed), j \in InFlight(n, "install", ed) :
         m = n /\ i = j

(* While no task has been lost to an exception and no application removes  *)
(* elements, an element at a shim has an owner, so that its triggers reach *)
(* an application (get_app_handle raises for any other).                   *)
NoSilentOrphan ==
  (dead = {} /\ Removers = {}) =>
    \A m \in Machines, ed \in Desc :
      (ed \in objects[m] \/ InFlight(m, "install", ed) # {})
        => application_handles[ed] # 0

(* Each flow space that place_n_steer is redirecting has a migration to    *)
(* end: end_migration (a del) does not raise when its FlowRemoved arrives. *)
MigrationTracked ==
  \A f \in Flows : migrating_flows[f] # 0 =>
    /\ elem_migration[migrating_flows[f]] # 0
    /\ elem_migration[migrating_flows[f]] # migrating_flows[f]

(* An application counts as installed only when every element of every     *)
(* request of its init() is: an error code of any apply_elem call keeps it *)
(* uninstalled, so that the timer tries again.                             *)
InstalledComplete ==
  Removers = {} =>
    \A a \in Apps : app_ed[a] # 0 =>
      \A q \in 1..Len(Requests[a]) : \A i \in 1..Len(Requests[a][q].names) :
        \E ed \in Instances :
          /\ ed_to_instance[ed].app = a
          /\ ed_to_instance[ed].flow = Requests[a][q].flow
          /\ ed_to_instance[ed].name = Requests[a][q].names[i]

(* A descriptor that gets an owner is new: no shim, channel or connection  *)
(* has seen it, so that nothing said about an earlier element, by a shim   *)
(* that has crashed since or by a late message, is taken to be about it.   *)
FreshDescriptor ==
  [][\A ed \in Desc :
       application_handles[ed] = 0 /\ application_handles'[ed] # 0 =>
         /\ \A m \in Machines : /\ ed \notin objects[m]
                                 /\ \A i \in 1..Len(down[m]) : down[m][i].ed # ed
         /\ \A s \in Socks : \A i \in 1..Len(up[s]) : up[s][i].ed # ed]_vars

\* A send to a shim that had exited has failed, in the timer's task.  (On
\* machines the network knows, with downloads that work, nothing else ends it.)
TimerLost == Timer \in dead /\ closed # {}

(* On machines the network already knows, the application is installed in  *)
(* the end: the timer retries init() until it is, whatever order hosts,    *)
(* registrations and traffic come in.  Shims may exit and come back; one   *)
(* thing only stops the timer, a send that fails because a shim has exited *)
(* and its connection is still in _connections.                            *)
AppInstalled == <>((\A a \in Apps : app_ed[a] # 0) \/ TimerLost)

(* An install message is acted on, unless its shim exits first.            *)
InstallReachesShim ==
  \A m \in Machines, ed \in Desc :
    InFlight(m, "install", ed) # {} ~> (ed \in objects[m] \/ shim_sock[m] = 0)

(* "Maximum number of elements per machine" (get_max_elements): the        *)
(* placement asks elem_to_mac for each name before any is installed.       *)
CapacityRespected ==
  \A m \in Machines : Cardinality(mac_to_elems[m]) <= Capacity

-----------------------------------------------------------------------------
(* What the repository says and the code does not do.                      *)

(* The comment over timer_callback: the application is initialised again   *)
(* and again until its elements are installed.                             *)
KeepsRetrying ==
  []<>(ctl.pc = "init" \/ \A a \in Apps : app_ed[a] # 0)
=============================================================================
