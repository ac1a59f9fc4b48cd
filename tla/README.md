# Slick in TLA+

Slick is a network-function control plane on POX. Applications ask the controller
to apply *elements* (packet processing code) to flow spaces. The controller places
every element on a machine, has the *shim* there install it, steers the traffic of
the flow space through it and, when a machine is overloaded, starts further
instances and redirects traffic to them. The implementation is Python: the
controller in `src/pox/ext/slick`, the shim in `src/shim`.

This directory models the control plane, the connections and the scheduler it runs
on, and the shim's data plane. Paths below are relative to the repository; `slick/`
stands for `src/pox/ext/slick/`.

| module | contents |
|---|---|
| `SlickControl` | controller, its maps, the message channels, shims, the scaling loop |
| `SlickControlProofs` | theorems about `SlickControl`, checked by TLAPS: types, the maps, the sessions |
| `SlickSessionProofs` | the other theorems about `SlickControl`: messages and shims, names, migrations, installation, capacity |
| `MCSlickControl` | the applications and model values of its runs |
| `ShimTable` | the shim's table of flows, its elements and the demultiplexing of packets |
| `ShimTableProofs` | theorems about `ShimTable` |
| `MCShimTable` | the flow spaces and packets of its run |
| `PathSetup` | host learning, adjacency, shortest paths, path installation with barriers |
| `RoutingProofs` | lemmas about the pure part of `PathSetup`: `_calc_paths` computes shortest paths |
| `PathSetupProofs` | theorems about `PathSetup` |
| `MCPathSetup` | the networks and packets of its runs |
| `Steering` | which instances of its elements a flow passes, there and back |
| `SteeringProofs` | theorems about `Steering` |
| `MCSteering` | the network and the flows of its runs |
| `MessageChannel` | abstract: a connection that delivers whole messages in order and may stop |
| `Framing` | TCP connections between shims and controller: connecting, blocking sends, cutting streams into messages |
| `FramingProofs` | theorems about `Framing`: it implements `MessageChannel` |
| `MCFraming` | the bounds of its run |
| `TaskPool` | abstract: tasks that take turns |
| `Recoco` | POX's scheduler: the scheduler's thread, the hub's and others |
| `RecocoProofs` | theorems about `Recoco`: it implements `TaskPool` |
| `MCRecoco` | the tasks of its run |

How they fit together. `SlickControl` is written against two assumptions: a shim
and the controller exchange whole messages in order, and the controller's tasks
take turns. `Framing` and `Recoco` are the code below these assumptions, and the two
refinements (`Framing` implements `MessageChannel`, `Recoco` implements `TaskPool`)
are what justifies them. `SlickControl` leaves open which instance a flow passes and
where its rules go; `Steering` takes instances, redirections and host events as
`SlickControl` has them and makes the choice, `PathSetup` takes the choice and sets
up the path. What a shim does with an install message and with the packets that
reach it is `ShimTable`.

`PROJECT.json` maps each definition to the lines it stands for, and lists the runs,
the hazards, the findings and one mutant of the code per property.

## 1. Inventory

| component | state | operations | properties that make it correct |
|---|---|---|---|
| Controller (`slick/slick_controller.py`, `Application.py`) | descriptor counters, `installed` of each application | `timer_callback`, `apply_elem`, `configure_elem`, `remove_elem`, `register_machine` | an application that counts as installed is installed completely; retries go on until it is; descriptors are never used twice |
| Maps (`networkmaps.py`, `NetworkModel.py`) | `elem_to_mac`, `mac_to_ip`, `flow_to_elems`, `elem_to_app`, `elem_migration`, `_ed_to_instance`, loaded descriptors | add, remove, lookups | the maps agree with each other and with the sessions of the shims |
| Messages (`msmessageproc.py`, `tcp_transport.py`, `src/comm/clientcomm.py`) | machine -> socket, the connections | connect, accept, `process_msg`, `send_*_msg` | messages go to the current session; a late message is not taken for a new one; a stream cut anywhere yields whole messages in order; sends return |
| Shim (`src/shim/shim.py`, `mb_api.py`, `shim_table.py`) | `fd_to_object_map`, the table of flows | register, install, configure, stop, triggers, packet demultiplexing | it runs what the controller believes it runs; a packet runs through whole chains of its flow space, in order |
| Scaling loop (`place_n_steer.py`, `sflow_networkload.py`) | `migrating_flows`, `migrating_elems` | `place_n_steer`, `steer_traffic`, `_handle_FlowRemoved` | every redirection has exactly one end; traffic goes elsewhere |
| Placement (`placement/*`) | round-robin position, used machines | `get_placement` | the limit of elements per machine |
| Path set-up (`l2_multi_slick.py`, `routing/ShortestPathRouting.py`) | `switches`, `adjacency`, `path_map`, `mac_map`, `waiting_paths`, `flow_matrices` | PacketIn, LinkEvent, ConnectionUp/Down, BarrierIn, the expiry timer | paths are shortest and of the current topology; no rule outlives its link; packets wait for their path |
| Overlay (`overlay_network.py`, `physical_network.py`) | `hosts`, `switches`, weighted graphs | host, switch and element events, periodic weights | hop counts are known |
| Steering (`steering/*`) | flow affinity (in `networkmaps.py`), `elem_to_switch` (in `NetworkModel.py`) | `get_steering`, `update_flow_affinities`, `get_reverse_mb_locs` | a flow passes one instance of each element, in order, and keeps to it; its way back passes those that work both ways |
| recoco (`src/pox/pox/pox/lib/recoco/recoco.py`) | `_ready`, `_event`, the hub's queue, pipe and tasks | `schedule`, `cycle`, `_threadProc`, the blocking operations | one task at a time, none twice in a queue, no wake-up lost, who is due runs |
| Download, query engine, specs, compiler | files | ssh copies, printing, parsing | none that depends on interleavings |

**How they interact.** POX runs everything in the controller as recoco tasks of one
thread: a Timer each for `timer_callback`, `network_state_callback` and the expiry
of waiting paths, one task per TCP connection to a shim, one for OpenFlow. A task
runs until it yields, and no handler of Slick yields; an exception that leaves a
task de-schedules it for ever. Components call each other directly or through POX
events, which run their listeners before `raiseEvent` returns: `send_install_msg`
calls the overlay network in this way, in the middle of `apply_elem`. Shims are
other processes; they talk JSON lines over a TCP connection each. Switches are
other machines; they handle OpenFlow messages in order.

**What is hard.** Shims that crash and register again while messages for their
previous session are under way; exceptions half way through a chain of updates,
with a remote side effect already done; retries that repeat what succeeded; maps
that are updated one after the other by several tasks; redirections that overlap;
streams cut in the middle of a message, and blocking sends in both directions; two
threads that put each other to sleep; choices made from look-up tables that nobody
corrects when an instance goes; links and connections that are lost while paths are set up and barriers are out;
dictionaries that a read changes (`defaultdict`); events raised before the state
they are about has changed. `PROJECT.json` lists each under `hazards`.

## 2. SlickControl

State, one variable per field of the code, under the code's names: see the comments
at `VARIABLES`. Notable choices:

- `ctl` is the call stack of the running task: which task, where in `init()` or in
  which loop, and the elements of the chain that `apply_elem` still has to install.
  While it is not idle no other controller task takes a step, but shims do. So
  `apply_elem` is one action for everything up to its loop (`ApplyElem`: nothing in
  it is visible to another process) and one per install message (`InstallNext`).
- `dead` holds the tasks that an exception has ended. An exception of an operation
  that is modelled is a disjunct of its own: the comments name the KeyErrors,
  assertions, `InstanceNotFound` and the RuntimeError of a failed send. Those of code
  that is left out (the query engine, the measurements, the graphs of the overlay and
  of IncrementalK) are not: in particular no switch disconnects here, after which
  the assertion of `_edge_switch` ends the task that installs an element (section 9).
- `mac_to_ip` may hold `StrKey`: host_tracker's events register hosts under the
  *string* of their MAC, shims register the integer, so that a placement may choose
  a key without a shim. One such key stands for all: nothing is ever recorded under
  it.
- Channels `down` and `up` are FIFO. A crash loses what is on its way to the shim;
  what the shim has sent still arrives.
- `closed` holds the connections that `_forget` has taken out of `_connections`,
  because their task has read the end (`ControllerEof`) or a send has failed. A
  message for one of these is lost without an error: `send_mb_msg` finds nobody to
  send to. Between the exit of a shim and `ControllerEof` its connection is `HalfOpen`,
  and a send does one of two things. The kernel accepts it, and the message is lost
  (`Sent`). Or it fails: `send_raw` closes the connection, `_forget` changes the set
  that `send_mb_msg` goes through, and the next round of that loop raises RuntimeError
  (`SendRaises`). Nothing has been recorded then, and the task that sends is lost,
  whichever it is: `InstallNext`, `Configure` and `RemoveRaises` have this case.
- The load measurement (sFlow) is any set of known machines. Placement is any
  registered machine for Random and RoundRobin; for IncrementalK (`ByCentrality`)
  any machine that has room, with its failures and its KeyError.
- CPython iterates small integers of a dictionary or set in ascending order; the
  model relies on that below 8 only (`FirstKey`, `LastKey`).
- An application is a list of `apply_elem` calls (`Requests`) plus the calls its
  trigger handler may make. `NApps` is 1 in the runs because the controller loads
  one application; the proofs are for any number.

Left out: matching of packets to flow spaces, element parameters beyond whether the
lists have the right lengths, `move_element` (only test code calls it),
`collect_garbage` and `forced_steer_traffic` (commented out). Replica sets and
affinity are in `Steering`, the streams below the messages in `Framing`.

### Runs

| run | what it asks | bounds |
|---|---|---|
| `sessions` | Shims crash and come back, the timer configures, triggers install: does the controller's picture of each machine stay that of its current session (`SessionExact`), is what it believes backed by the shim or a message (`BeliefBacked`), does a configuration find its element, is nothing installed twice, has every element an owner? | 2 machines, 3 connections, 3 descriptors, channels of 2 |
| `failures` | Exceptions, unknown and moving hosts, failing placements and downloads: do the maps agree (`OwnersAgree`), are names listed once, does "installed" mean complete? | 2 machines, 2 requests, one of them a chain; 5 descriptors |
| `scaling` | Overload, new instances, redirection, FlowRemoved, removal and a trigger whose chain fails the assertions of `apply_elem`, in any order: migrations, capacity, and no reuse of a descriptor anything still speaks of (`FreshDescriptor`) | 2 machines, limit 1, 4 descriptors |
| `liveness` | Is an application installed in the end, unless a failed send ends the timer, does an install message reach its shim? | 1 machine, crash and restart, 2 requests |
| `retry_stops` | violated: see finding 1 | 1 machine |

The bounds are the smallest for which the interesting cases meet: two machines so
that one can be wrong about the other; three connections so that a machine has an
old, a current and another's session; as many descriptors as let an element be
installed, lost and installed again (the counter starts at 1, so the first one is
2); channels of two so that a configuration can follow an install. `Symmetry`
permutes machines, in runs without liveness only. The proofs remove the bounds for
every safety property (section 8).

Deadlock is not checked: the system may stop for good. All tasks may have been
lost to exceptions, and the bounds on connections, descriptors and paths end a
behaviour.

### Fairness

Only `liveness` and `retry_stops` assume any. recoco takes the
ready tasks in turn, so a running task goes on (`WF` of `Running`) and a task that
is ready again and again is run (`SF` of `TimerTick`, and of `ControllerRecv` or
`ControllerEof`). The
rest is what the deployment does: shims are started, hosts send packets, so that
host_tracker sees them (`HostJoin`) and traffic is counted (`PacketIn`), and data
packets keep arriving at a shim, which reads its control connection only then
(`ShimDecode`). Without the last an install message may wait for ever, and without
traffic between switches that are not adjacent `apply_elem` answers -5 for ever;
both are what the code does.

`AppInstalled` has one exception, `TimerLost`. When a shim exits between two requests
of one `init()`, before the controller has read the end of its connection, the first
send may draw a reset and the second then fails; the Timer is lost and the application
never installed. The run has such behaviours (one crash, two requests), and without
`TimerLost` TLC finds one. Whether the send fails is the kernel's choice, so that no
fairness excludes it.

## 3. PathSetup

`adjacency`, `path_map`, `mac_map`, `waiting_paths` are the code's; `paths` are the
`WaitingPath` objects, numbered in the order of their creation; `links` is POX
discovery's table. A rule travels together with its barrier, and `sent`, `rules`
and `replies` are the connections and flow tables of the switches. `cached` says
whether `len(path_map) > 0`, which is not the same as having paths: a read of the
emptied defaultdict makes an entry (section 9).

Each handler is one action: `PacketIn` (learning, the traffic matrix's call of
`_get_raw_path`, pathlets there and back, rules, barriers, with the
exceptions it can meet), `BarrierIn`, `ExpireWaitingPaths`, `LinkUp`,
`LinkTimeout`, `ConnectionUp`, `ConnectionDown`, `UpdateOverlayGraph`. A switch
handles one message at a time (`SwitchStep`). `CalcPaths` is `_calc_paths`, stage by
stage; `RawPaths` unfolds the recursion of `_get_raw_path` as often as there are
switches.

Choices: the elements that steering picks for a packet come with the packet;
matching of packets to rules, rule time-outs, flooding and the content of packets
are left out; a "delete all rules" that finds nothing to delete is left out, which
only removes stuttering; `xids` of a path are its switches (a shortest path visits
each once).

| run | what it asks | bounds |
|---|---|---|
| `paths` | Links and connections are lost and come back while paths through an element are set up, hosts move, waiting paths expire: are paths those of the current adjacency (`PathsCurrent`), is no rule left over from an older one (`NoStaleRule`), do packets wait for all barriers (`ReleasedConfirmed`) and never leave after their path was given up (`NoLateRelease`)? | 2 switches, 3 hosts, 3 paths, 2 losses, waiting limit 1 for 1000 |
| `routing` | Every order of link events, any set of links expiring together: does a pair of switches use the two ends of one cable (`AdjacencySound`), are distances and paths shortest (`PathsShortest`)? | ring of 4 switches, one pair with 2 cables, 1 loss |

Two switches are enough for the protocol: a path of several pathlets, a switch that
answers while the other is gone, a rule at one end of a lost link. Two losses are
needed, since the first event of a cable leaves it adjacent (section 9). Ways of
several hops, ties and alternatives are the business of `routing`, whose order of
switches is neither ascending nor along the ring.

`PathsShortest` compares with a definition, not with another program: on a finite
graph only the shortest distances are 0 to oneself and else one more than the
nearest neighbour's; the path found must be a path and have that length.

## 4. ShimTable

One shim, between the messages of its controller and the packets of its interface.
`flow_to_function_mapping` is the OrderedDict as the sequence of its items,
`fd_to_object_map` the set of its keys; `asked` and `last` are history: the flow of
each install message of this process, and the last packet that elements ran on.
`InstallFunction`, `StopFunction` are the handlers of `ClientService`, `Demux` is
`Shim.demux` with `calc_triggers` and `get_function_handles_from_flow`;
`InstallFails` and `Shutdown` end the process, after which it starts empty.
`SlickControl` sees of all this only which objects a shim has (`ObjectsAfter`).

Of the ten fields of a flow, `tp_src` and `tp_dst` stand for those that
`get_reverse_flow` swaps, `nw_proto` for those it keeps; addresses carry the form
the code has them in (integer, dotted string, bytes), because `lookup_flow` and
`demux` compare different forms. An element passes a packet on or drops it.

| run | what it asks | bounds |
|---|---|---|
| `shim_table` | Does an element only run on traffic of its flow space or the reverse (`OnlyItsTraffic`), do elements run in the order of the chain and once (`ChainOrder`), does a packet of either direction find its elements unless a later flow space takes it (`FoundOrOvertaken`), is a packet sent on only after whole chains, also when an element was stopped (`ChainWhole`)? | 3 descriptors over 5 flow spaces of the applications, 2 starts, 6 packets |

Three installs are the least for a chain of two on one flow space and an overlapping
or reversed one before, between or after; the packets tell the flow spaces and the
directions apart. The controller of this repository never sends "stop" (its
message is called "remove", section 9); the handler is modelled because the shim
offers it.

## 5. Steering

A packet of a new flow makes `POXInterface.get_steering` choose an instance of each
element of its flow space, and `install_path_improved` the instances of the way
back. `PacketIn` is all of it in one action, since no task yields in between. A source or
destination that `l2_multi_slick` has not learned (`None`) gets an empty list at once
(`Unlearned`), and a path may be installed that passes no element. Otherwise:

1. the replicas of each name, oldest first, without those that the affinity of the
   source rules out (`UpdatedReplicas`); `remove()` inside a loop over the same list
   skips entries, and `RemoveEach` does too;
2. `elem_to_switch` is brought up to date for these (`Mapped`), up to the first
   unknown host, which raises;
3. the subgraph of their switches is taken (`Subgraph`): those of the switches asked for
   (`Asked`) that the overlay has joined;
4. replicas that are loaded are removed; a set that this leaves empty calls
   `place_n_steer`, which may create instances or redirect (`AfterLoad`) and may
   raise;
5. all replicas are taken *again*, the shortest way inside the subgraph and without
   congested links is chosen (`ShortestPaths`), and its switches are turned back
   into descriptors (`ElementInstances`). An edge whose hop count was read before the
   links were found has `None`, and adding it raises (`MeetsEdge`);
6. instances in another partition are created for later packets (`AfterPartitions`),
   affinities recorded (`NewAffinities`), the way back computed
   (`ReverseElements`).

`overlay` is `overlay_graph_nx`. Its edges are made when an element instance is
announced (`ElementInstanceEvent`, in `apply_elem`), among the switches connected by
then (`Joined`), and none is taken away. A switch that connects later (`ConnectionUp`)
is asked for and not found: no way through it has all its edges, `_get_shortest_path`
answers `[src, dst]`, and the flow passes no element, until the next instance anywhere
joins the switch too. Every switch of the model has hosts or machines, so each is an
edge switch. None disconnects: after that `_edge_switch` asserts that the two tables
of switches have the same length, and no element can be installed until it is back.
`place_n_steer` may be called in the middle of this (step 4): it goes through the
loaded instances one by one, and for each does nothing, makes another instance of its
name or redirects (`Relieved`, `AfterPlacement`), so that one name may get several.

`Install`, `RemoveElem`, `SteerTraffic` and `HostEvent` are what `SlickControl`'s
tasks do to the same maps between packets. `flow` records what became of the packet
of the last step, with the replicas, load and affinities it met. A set of sources
and switches stands for matches; `HopCount` and `Partition` are constants, since
weights and partitions are recomputed elsewhere; which machine a new instance gets
is left open, as in `SlickControl`; of the load only matters whether it leaves a set
empty, since step 5 takes all replicas again.

| run | what it asks | bounds |
|---|---|---|
| `steering` | While instances come, go and are redirected, a switch connects late and its machine turns up at one place or another: when the overlay joins the switches asked for, no link is congested and every instance has a switch of its own, does a flow pass one of each element in order, and keep to the one its source is affined to (`SteeredWhenApart`)? Does the way back pass the elements that work both ways (`WayBack`)? | 3 switches in a row, the third late and in a partition of its own; 3 machines, the third seen late; 3 descriptors; a chain of two, the first affine, the second unidirectional; 2 flows of one source, over the late switch, whose ends may be unlearned; no congested link |
| `steering_contract` | violated: see finding 2 | the same, all switches connected from the start and one link that may be congested |

Three descriptors are a chain of two and one replica of either; with three switches
an instance can be on the way, off it, or at an end. Two flows of one source are
needed for the affinity of one to be met by the other. Deadlock is not checked,
because the descriptors run out.

`SteeredWhenApart` is about packets that are steered, and its conditions are the
weakest found. Each excludes a case in which the code passes a flow by its elements or
through others:

- both ends are learned (`Unlearned` otherwise: no element);
- `flow.joined`: the overlay has joined the switches of the flow and of the replicas,
  that is, all of them had connected when an instance was last announced (otherwise
  the answer is empty);
- no link is congested (otherwise the answer may be empty, which is finding 2);
- `flow.apart`: every replica is mapped to its switch, and no two descriptors, removed
  ones included, to the same one (otherwise `get_elem_descriptor` may answer with
  another element, or with a removed one, and the packet is lost);
- for affinity, `flow.away`: the other replicas are not at a switch where the flow
  enters or leaves, which the subgraph contains anyway.

These cases are reached in the run, congestion in `steering_contract`: an empty way, the
answer to it, is reached in `steering` through a switch that is not joined. The theorem
has any set of links that may be congested. Section 9 says what happens in each case.

## 6. Framing

One connection per start of a shim, from `connect()` to its end, in both directions.
A message is three pieces (the first part of its JSON text, the rest, the newline),
so that a `recv()` can end inside a text, between text and newline, and between
messages; these are the cases `split('\n')` tells apart. `upW`, `upR`, `downW`,
`downR` are positions in the streams; `upSent`, `upGot`, `downSent`, `downGot` the
messages sent and handled.

- `Listen`, `Accept` are `TCPTransport.run`. `Start` is `ClientComm.__init__` with
  `register_machine`: a shim that finds nobody listening goes on without a socket
  and never tries again.
- `SendMsg`, `ContinueSend`, `SendError` are the controller's `send()`. It blocks,
  and the controller is one thread: while it waits no task runs (`Controller`). When it
  fails, or sends a part only, the connection is closed and forgotten, and the set
  that `send_mb_msg` goes through has changed: the task that sends ends with a
  RuntimeError. That is the task of a connection whose handler sends (`SendError` ends
  any task that has handled a message) or the timer, which is not in this module.
  `RaiseTrigger`, `ContinueTrigger` are the shim's.
- `Decode` is the shim's `decode_msg_and_call`: the last line is dropped, whole or
  not, and any other that is no JSON raises and ends the process. `TaskRecv` is
  `process_messages`: the last line counts, empty lines are skipped, other text
  raises and ends the task. Neither keeps a remainder. In both a handler may raise
  at any message.
- `TaskEof` and `Crash` are the ends. The kernel of a shim that exits with messages
  unread resets the connection, which may discard what it had sent.

The run `framing` asks: does each direction implement `MessageChannel`
(`ImplementsChannels`), so that a cut stream can end a conversation but never skip,
repeat or reorder a message; has a task that runs handled all it has read
(`NothingLostUnnoticed`); does a blocking send return (`SendReturns`), does a shim
that connected register (`ConnectedRegisters`), is a message handled
(`SentIsHandled`)? Bounds: two connections, one with two messages down and three up,
the other only connecting and registering, so that one can be held up by a send to
the other; buffers of 4 pieces, one more than a message, so that a send blocks in
the middle of the second; a `recv()` of 4, which returns a message and the beginning
of the next.

Fairness: recoco takes ready tasks in turn (`Listen`, `Accept`, `TaskRecv`,
`TaskEof`; section 7), the kernel takes what fits (`ContinueSend`,
`ContinueTrigger`), packets keep arriving at a shim, which reads its connection then
(`Decode`), and a send to a shim that has exited fails. Nothing is assumed of
`SendError` otherwise. The liveness properties name the cases in which the code
really stops: something broke, or both sides are in `send()` to each other (`Hung`).

## 7. Recoco

Every handler of the controller is a step of a recoco task. Two threads share the
work: the scheduler's runs the tasks in `_ready`; the hub's sits in `select()` for
the sockets and deadlines of those that wait. A step of the model is what one thread
does to one shared object (`_ready`, `_event`, `_incoming`, `_pinger`, `_hasQuit`),
which the interpreter lock makes atomic: `fast_schedule`, for example, is `Return` or
`StartTask` (the append) and `Set` (the event), with any steps of others between.
`sched` and `hub` are the places of the two threads in `run`, `cycle` and
`_threadProc`. A task waits for a socket (`Reads`), a deadline (`Timed`) or
whichever comes first; `Spawned` ones are started by other tasks, the rest by
another thread through a `ScheduleTask`.

Left out: `callLater`, `CallBlocking`, `Send` and `synchronized`, which Slick does
not use; priorities, which are all 1; `yield` of a value that is no blocking
operation, which would raise out of `cycle`.

The run `recoco` asks, for the task of a connection, a timer and the task that reads
from the switches with a time-out: is a task in one place at a time (`OnePlace`,
hence the assertions hold), does no thread sleep on work (`NeverAsleep`), do tasks
take turns (`TasksInTurn`, the refinement of `TaskPool`), does a task that is due run
(`DueRuns`)? Three tasks are one of each kind and the least for one to be appended
while another runs and a third is returned.

Fairness: the threads run, a task that runs gives way (no handler of Slick loops for
ever), time passes. Nothing is assumed of the time-out of `_event.wait`
(`WaitTimeout`): the wake-ups suffice. Deadlock is not checked, since `core.quit`
ends both threads.

## 8. What is proved

`SlickControlProofs`, for every number of machines, applications, flow spaces,
names, requests, descriptors, connections and channel lengths (assumptions:
`ConstantsAssumption`, that is, types, `Capacity > 0`, and `StrKey` not a machine):

| theorem | statement |
|---|---|
| `TypeCorrect` | `Spec => []TypeOK` |
| `MapsAgree` | `Spec => []OwnersAgree`: the maps about a descriptor agree |
| `SessionsExact` | `Spec => []SessionExact`: `elem_to_mac` lists exactly the elements of the last registered session |
| `Inductive` | `Spec => []IInv`, the invariant all three follow from |

Neither property is inductive. `InstallNext` would break `OwnersAgree` if the
descriptor it records already had an instance, so `Unused` says that the
descriptors still to be installed are the last ones of the counter and that none of
these has one. `Register` would break `SessionExact` if an element had been sent
over the connection before, so `RegisterOnce` says that the register message is the
first of its connection and that the controller has not used the connection before
reading it, and `SocketsFresh` that a socket not yet given to a shim occurs
nowhere. `IInv` is the conjunction. The proof has one lemma per action;
`ApplyElemStep` is shared by the three tasks that call `apply_elem`, and
`TaskStep`, `OutsideStep` cover the actions that leave the maps alone.

`SlickSessionProofs`, from `IInv` and under the same assumption:

| theorem | statement |
|---|---|
| `SessionInductive` | `Spec => []SessionInv` |
| `BeliefsAreBacked` | `Spec => []BeliefBacked` |
| `ConfigurationsArrive` | `Spec => []ConfigureFindsElement` |
| `InstallsAreUnique` | `Spec => []InstalledOnce` |
| `DescriptorsAreFresh` | `Spec => FreshDescriptor`, an action property |
| `NoOrphans` | `Spec => []NoSilentOrphan` |
| `NamesAreListed` | `Spec => []NamesListed` |
| `MigrationsTracked` | `Spec => []MigrationTracked` |
| `InstalledIsComplete` | `Spec => []InstalledComplete` |
| `CapacityIsRespected` | `OneAtATime` implies `Spec => []CapacityRespected` |

`Frontier` is the last descriptor before the ones that the chain of the running call
still has to install; everything a shim, a channel or a connection mentions is below
it (`Mentioned`), which is why the next install speaks of a descriptor nobody has
seen. `OwnSession` says that what a shim has or will read was sent on its own
connection, and that connections are not shared; `ToldOnce` that an install is sent
once and not for what is already there. With `SessionExact` these make
`BeliefBacked` inductive: what `elem_to_mac` lists was sent on the last registered
connection, and if that is the one the shim has, nothing of it was lost. The proof
does not go through the actions one by one: `Footprint` sorts them into those that
leave maps and shims alone (`Quiet`), those that send a configuration (`Tells`), the
registration, the installs and the actions of the shims, and each class has one
lemma. `MigrationTracked` needs `Redirected` (a flow space is redirected from a
descriptor of its own, so that ending or replacing a redirection concerns no other);
`InstalledComplete` speaks of the end of `init()` and needs what holds on the way:
the requests already made are done unless they failed (`RequestsDone`), the one being
made up to the rest of its chain (`RequestBegun`), and only the timer's task is in
`init()` (`TaskAtWork`).

`CapacityRespected` does not hold in general, and the theorem says under which
condition it does: `OneAtATime`, placement by IncrementalK and requests of one
element each (those whose lengths are wrong are refused and do not count). It holds
for the applications of the run `scaling`. A chain of two may exceed the limit
(section 9). The invariant adds `RoomLeft`: no task runs between the placement and the
install message, so the room found is still there.

`ShimTableProofs`, for any flow spaces, packets, descriptors and number of starts
(assumption: `FlowsAssumption`, types only):

| theorem | statement |
|---|---|
| `ShimTypes` | `Spec => []TypeOK` |
| `RightElement` | `Spec => []OnlyItsTraffic` |
| `TableInductive` | `Spec => [](IInv /\ TableInv /\ ChainOrder)` |
| `ChainsInOrder` | `Spec => []ChainOrder` |
| `ElementsFound` | `Spec => []FoundOrOvertaken` |
| `ChainsAreWhole` | `Spec => ChainWhole`, an action property |

`OnlyItsTraffic` speaks of the last packet only; `EntriesJustified` says of every
entry of the table that each descriptor in it was installed for its flow or for the
reverse, and `AskedInOrder` that the next descriptor is new, so that recording its
flow changes none of these. `AddFlowEntries` and `AddFlowJustified` are what
`add_flow` does to a table, `MatchesCovers` that the field tests of `lookup_flow`
accept only packets the flow space means, `HandlesFromEntry` that the list demux
runs through is one of the table (the largest index that matches exists).

The other three speak of whole entries. `TableInv` is what makes the sequence of
entries a dictionary of chains: no flow is the key of two entries (`FlowsOnce`), every
installed descriptor is under its flow and under the reverse (`EntriesComplete`), the
lists are not empty and ascend, a descriptor being twice in one only if its flow is its
own reverse (`EntriesOrdered`), and the first descriptors of the entries ascend except
for the two entries of one install (`HeadsInOrder`). Each part has a lemma about
`add_flow`, applied twice per install. `ElementsFound` then compares the entry of the
flow space with the last one that matches: they are the same, or the reverse of each
other and hold the same elements, or the later one began later.

`FramingProofs`, for any number of connections and messages, any buffer sizes and
any length of the backlog (assumption: `FramingAssumption`, that is, the sizes are
positive):

| theorem | statement |
|---|---|
| `Types` | `Spec => []TypeOK` |
| `NothingLost` | `Spec => []NothingLostUnnoticed` |
| `StreamsAreChannels` | `Spec => ImplementsChannels`: both directions of every connection implement `MessageChannel` |
| `Inductive` | `Spec => []IInv` |

That the next message handled is the next one sent depends on how many were handled
before: `DownInv` and `UpInv` say of each stream that what was read was written, what
was written was sent, that what was handled is a beginning of it, and that a side
that still runs has handled exactly what the position of its last `recv()` tells.
`ConnInv` says that a connection is accepted once, so that its task starts at the
beginning of its stream. `Counting` and `Crossing` are the arithmetic of pieces: a
chunk that begins between two messages contains the next ones whole or not at all.
The refinement is one lemma per direction (`DownStep`, `UpStep`) with one step per
action: each is a `Send`, a `Handle` or a stutter of the channel.

`RecocoProofs`, for any set of tasks (assumption: `RecocoAssumption`, that every task
waits for something):

| theorem | statement |
|---|---|
| `Types` | `Spec => []TypeOK` |
| `TasksInOnePlace` | `Spec => []OnePlace` |
| `WakeUpsArrive` | `Spec => []NeverAsleep` |
| `SchedulerTakesTurns` | `Spec => TasksInTurn`: the two threads implement `TaskPool` |
| `Inductive` | `Spec => []IInv` |

`OnePlace` alone is not inductive: that a task returned by `select()` is not already
being returned needs that the hub's list is empty while it scans and selects
(`HubInv`), and the refinement needs that only waiting tasks can be due (`WaitInv`).
`NeverAsleep` speaks of the places where the hub sleeps or is about to; `WakeInv`
extends it to the whole loop but the moment between `pongAll` and emptying the
queue, which is the order that matters: the pipe is emptied before the queue.

With these two refinements the channels and the turn-taking of `SlickControl` and
`PathSetup` are no longer assumptions about POX and TCP but consequences of the
code, up to what `Framing` and `Recoco` leave out.

`RoutingProofs` and `PathSetupProofs`, for every finite set of switches, any links,
hosts, packets and number of losses (assumption: `PathSetup`'s, types and finiteness):

| theorem | statement |
|---|---|
| `TypeCorrect` | `Spec => []TypeOK` |
| `AdjacencyIsSound` | `Spec => []AdjacencySound` |
| `PathsStayCurrent` | `Spec => []PathsCurrent` |
| `PathsAreShortest` | `Spec => []PathsShortest` |
| `RulesNeverStale` | `Spec => []NoStaleRule` |
| `ReleaseIsConfirmed` | `Spec => []ReleasedConfirmed` |
| `NoReleaseAfterFailure` | `Spec => []NoLateRelease` |

`PathsShortest` is about `_calc_paths` (Floyd-Warshall) and `_get_raw_path` as
functions of the adjacency, so `RoutingProofs` needs induction over the stages of the
algorithm. The induction theorems of the library take an operator, which the provers
cannot instantiate; here the numbers for which a statement holds are collected in a
set, and `SetInduction` (a set of naturals with a smallest counterexample) does the
rest. The stages and the recursive path function are recursive functions, whose
existence is proved by the same induction (`StagesExist`, `RawExist`). The argument:
after the stage of switch k no way over a switch up to k is shorter than the distance
(`ThroughTriangle`), and every switch that is reached is nearer from some neighbour
(`ThroughNextHop`); so in the last matrix a distance is one more than the least of the
neighbours' (`Neighbours`). Entries change only until they are final and their two
parts stay what they were when `via` was recorded (`PartsNotShorter`, `ViaParts`), so the
raw path, spliced from the parts before and after `via`, has the length of the distance
(`RawWays`).

The inductive invariant of `PathSetup` adds to the properties that every number in a
message or table is that of a path set up so far (`References`), that `path_map` is empty
or was computed from the adjacency of now (`MapCurrent`; reading it while it is stale
is what would break `NoStaleRule`), and `Answers`, which follows a barrier from the
request to the reply: a switch the set-up reached is still waited for or has answered,
a reply under way was given, only an answer that is waited for has an entry in
`waiting_paths`, and a path that failed has none.

`SteeringProofs`, for any chain, machines, switches, distances, partitions, flows,
congestible links and number of descriptors (assumption: `SteeringAssumption`, types,
and that `None` is neither a switch nor a list of descriptors):

| theorem | statement |
|---|---|
| `SteeringTypes` | `Spec => []TypeOK` |
| `OneInstanceOfEach` | `Spec => []SteeredWhenApart`, under the conditions listed in section 5 |
| `WayBackReversed` | `Spec => []WayBack` |

Steering is made of loops: over replicas, affined instances, elements and indices of a
list that shrinks meanwhile. Each is a recursive function of the number of rounds; a
lemma `...Loop` shows that it exists and stays in its set of values (`Histories`,
`IsHistory`), and `Rounds` is the induction over the rounds. What a packet may do to
the network on its way is the set `From`: instances are added under new descriptors,
none is changed. The loops of `AfterLoad` and `AfterPartitions` stay in it.

The inductive invariant adds to the types that no descriptor is taken that has not been
given out (`Fresh`) and that the affinities name only given-out ones (`AffinityPast`).
It is needed because steering takes the replicas twice: the subgraph is made of those
there are when the packet comes, the path of those there are after placement. By
`Fresh` the earlier ones are still there and unchanged, so, when the overlay joins all
that is asked for, the subgraph holds a path (`PathExists`; affinity never empties a set, `LeaveAllAffinedKeeps`); where instances are
apart a switch is turned back into the instance it was (`ApartFound`). For the affinity:
by `AffinityPast` the affined instance was there from the start, so of the two replicas
`remove()` leaves it alone (`AffinedLeft`), and the other's switch is in the subgraph
only as an end of the flow (`AffinedFound`). For the way back, the list after each round
is the reversed one before the index of the unidirectional instance and lacks that
instance from there on (`BackAllButOne`).

For the proofs some definitions of the models were put differently, with recursive
functions instead of `SelectSeq`, folds and `FlattenSeq`, which the prover does not look
into: `RulesFor` of `PathSetup`, and the loops of `Steering`, of which TLC finds the same
states in either form.

Only model-checked: liveness (`AppInstalled`, `InstallReachesShim`, `SendReturns`,
`ConnectedRegisters`, `SentIsHandled` and `DueRuns`: fairness and `ENABLED` are outside
the prover's reach). Every invariant and every action property that a run shows to hold
is also proved.

## 9. Where code and text disagree

1. `retry_stops`. The comment of `timer_callback` promises that `init()` is tried
   until the elements are installed. A shim that registers before host_tracker has
   seen its machine makes the listener of `ElementInstanceEvent` raise KeyError
   after the install message has gone out; the Timer task ends for ever. A failed
   send ends it too (`TimerLost`, section 2).
2. `steering_contract`. The docstring of `get_steering` promises one instance of each
   replica set, or None. When all ways have a congested link the answer is an empty
   list, and the flow's rules pass none of its elements. The same happens without
   congestion when a switch asked for connected after the last instance was announced.

Seen while modelling, without a run of their own:

- `remove_elem` tells "the shim to remove the element"; shims know no message of type
  "remove" and ignore it;
- `handle_loaded_elements` redirects `eds[0]`, whether or not it is the loaded one,
  possibly to itself: the assertion of `steer_traffic` ends the scaling task;
- discovery raises the events of removed links before it forgets them: when both
  directions of a cable go at once the handler finds the removed link as "another
  way" and keeps it;
- `_get_hop_count` reads the emptied `path_map`, a defaultdict; the read makes it
  non-empty, so `_calc_paths` is not called: no hop counts and no paths until the
  next link event;
- `steer_traffic` keeps one old descriptor per flow space: redirecting a second
  element of a chain overwrites the first, whose migration never ends, although
  `ElementMigration` keeps a migration only "until the migration is complete";
- when the first of two `apply_elem` calls of `init()` succeeds and the second does
  not, the next try installs the first element again (`TODO rollback`);
- `TwoLoggersChain.py` passes two names and one default `controller_params`, which
  the assertions of `apply_elem` refuse;
- IncrementalK checks the limit for every name of a chain before installing any, so
  that a chain of two may exceed a limit of 1 (`scaling` has chains that fail only);
- traffic between adjacent switches has an empty raw path and is not counted
  (`l2_multi_slick.py:137`), so `apply_elem` keeps waiting for it;
- every forward pathlet releases the packet at its own first switch, so a packet
  that passes an element is sent more than once (`l2_multi_slick.py:509`);
- a switch without a connection on the path makes the set-up raise half way; the
  packet is released all the same once the switches before it have answered;
- a flow space that is its own reverse (`nw_proto` and `dl_type` only, as in
  `EqualApp.py` and the `*TestApp.py`) gets its element twice in the shim's list, so
  that every packet runs through it twice (`ChainOrder` allows just this);
- `lookup_flow` converts the packet's source address to an integer and not its
  destination: with `BlockDomains.py`'s integer `nw_src` the reverse entry never
  matches; a flow space without any field never matches either;
- `demux` compares a dotted string with `inet_aton(mb_ip)`, four bytes: the test for
  configure traffic is never true, and such packets are looked up like others;
- an install that fails in the shim raises once more in its clean-up and ends the
  shim (`mb_api.py:94`);
- a host seen on a port before discovery knows that the port leads to a switch is
  learned there, and unlearned only by a link event.

Steering:

- `get_elem_descriptor` returns the first descriptor ever mapped to a switch. With two
  elements at one switch the flow passes the wrong one; after `remove_elem`, which
  leaves `elem_to_switch` alone, it finds the removed one, and the packet is lost;
- `update_replicas` takes all replicas again, so that the load filter has no effect
  on the choice (comment at `LoadAwareShortestPathSteering.py:100`), and affinity
  works only because the subgraph leaves the others out. A replica at a switch where
  the flow enters or leaves is not left out, and the flow may change to it (comment
  at `slick_controller.py:570`);
- a set of replicas that is empty raises RuntimeError, and the packet is lost;
- the overlay's edges are made only when an instance is announced: a flow from, to or
  through a switch that has connected since passes no element. An edge made before the
  links were found has no hop count, and a packet that meets it is lost (TypeError);
- after a switch has disconnected `switches` of `l2_multi_slick` keeps it and that of the
  overlay does not, so that the assertion of `_edge_switch` fails at the next instance;
- packets of hosts that are not learned yet are asked no elements for
  (`slick_controller.py:557`), but a path may be installed for them all the same;
- `get_reverse_mb_locs` pops by the index of a list that has become shorter: with two
  unidirectional elements it removes the wrong location or raises;
- the selection of the steering module (`slick_controller.py:95-112`) is a sequence of
  `if`s whose last `else` is LoadAwareShortestPath: all names but LASPSHeuristics end
  there;
- a known host that moves stays at its old switch in `OverlayNetwork.hosts`.

Connections and scheduler:

- a shim that starts before the controller listens never registers;
- half a line at the end of a `recv()` ends the task of its connection, which stays in
  `_connections`: the shim is sent messages and no longer heard. A shim in the same
  place drops the half and exits at the next message;
- the controller and a shim that send to each other with full buffers both wait for
  ever (`Hung`), and with the controller all other shims and all timers;
- one exception of `accept()` ends the listener; later shims are refused;
- a send that fails removes its connection from the set `send_mb_msg` is going through
  (`tcp_transport.py:69-72`, by way of `_close` and `_forget`): RuntimeError, and the
  task that sends is lost. When that is the Timer, no application is installed or
  configured any more;
- a register message of an old connection that is read after that of the new one
  leaves the machine with a dead connection until it registers again.

## 10. Not modelled

- Steering modules other than LoadAwareShortestPath (Random and ShortestPath cannot be
  selected, LASPSHeuristics only when the command line asks for it), matching of packets to flow spaces.
- KPlacement, the weighted and the network-aware placements: they compute a choice
  the model leaves open. The graphs and weights of the overlay are numbers measured
  elsewhere.
- Packet processing of elements (a packet is passed on or dropped), file transfer, the
  query engine and the parsing of specifications: input and output of one process.
- POX beyond recoco's scheduler and discovery's link table. Most lines under `src/`
  are POX's: OpenFlow and packet formats, switches in software, consoles, example
  components. Slick calls a small part of it, and what it relies on there is
  modelled; the rest is a third-party framework whose behaviour the properties here
  do not depend on. This is why the models stand for a small share of all lines of
  the repository.
- The Mininet scripts, `src/archive` and `src/Offline`.

## 11. Plan

Done: `SlickControl`, `ShimTable`, `PathSetup`, `Steering`, `Framing` and `Recoco` with
proofs of all their safety properties and of the two refinements.

1. `Placement`: round robin and IncrementalK's choice of unused machines, with the
   limit of elements per machine for chains.
