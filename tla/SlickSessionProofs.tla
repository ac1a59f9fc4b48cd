------------------------- MODULE SlickSessionProofs -------------------------
(***************************************************************************)
(* More proofs about SlickControl, for all values of its constants, on top *)
(* of the inductive invariant of SlickControlProofs: what the shims run    *)
(* and have been told, against what the controller believes of them.       *)
(***************************************************************************)
EXTENDS SlickControlProofs, FiniteSetTheorems

-----------------------------------------------------------------------------
(* The invariants.                                                         *)

\* The last descriptor that apply_elem has handled: the ones of the chain it
\* is installing come after it.
Frontier == latest - Len(ctl.chain)

(* Nothing that a shim has, or that is on its way to or from one, is about *)
(* a descriptor still to be installed.                                     *)
Mentioned ==
  /\ \A m \in Machines : \A ed \in objects[m] : ed <= Frontier
  /\ \A m \in Machines : \A i \in 1..Len(down[m]) : down[m][i].ed <= Frontier
  /\ \A s \in Socks : \A i \in 1..Len(up[s]) : up[s][i].ed <= Frontier

(* What a shim has, or is about to read, was sent on its own connection,   *)
(* which it shares with no other.                                          *)
OwnSession ==
  \A m \in Machines :
    /\ shim_sock[m] = 0 => objects[m] = {} /\ down[m] = <<>>
    /\ \A n \in Machines : shim_sock[m] # 0 /\ shim_sock[m] = shim_sock[n] => m = n
    /\ \A ed \in objects[m] : sent_on[ed] = shim_sock[m]
    /\ \A i \in 1..Len(down[m]) :
         down[m][i].type = "install" => sent_on[down[m][i].ed] = shim_sock[m]

(* A shim is told to install a descriptor once.                            *)
ToldOnce ==
  \A m \in Machines : \A i \in 1..Len(down[m]) : down[m][i].type = "install" =>
    /\ down[m][i].ed \notin objects[m]
    /\ \A j \in 1..Len(down[m]) : down[m][j] = down[m][i] => i = j

SessionInv ==
  Mentioned /\ OwnSession /\ ToldOnce /\ BeliefBacked /\ ConfigureFindsElement

(* A flow space is redirected from a descriptor of its own, which is none  *)
(* of those still to be installed.                                         *)
Redirected ==
  \A f \in Flows : migrating_flows[f] # 0 =>
    /\ migrating_flows[f] <= Frontier
    /\ migrating_flows[f] \in Instances => ed_to_instance[migrating_flows[f]].flow = f
    /\ \A g \in Flows : migrating_flows[g] = migrating_flows[f] => f = g

\* Application a has an instance of the i-th name of its q-th request.
Done(a, q, i) ==
  \E ed \in Instances :
    /\ ed_to_instance[ed].app = a
    /\ ed_to_instance[ed].flow = Requests[a][q].flow
    /\ ed_to_instance[ed].name = Requests[a][q].names[i]

(* The requests that init() of an application has made and that did not    *)
(* fail are done ...                                                       *)
RequestsDone ==
  ctl.task = Timer /\ ctl.pc \in {"init", "install"} /\ ctl.app \in Apps =>
    \A q \in 1..Len(Requests[ctl.app]) : q < ctl.req /\ q \notin ctl.failed =>
      \A i \in 1..Len(Requests[ctl.app][q].names) : Done(ctl.app, q, i)

(* ... and of the request it is making, the part before the chain.         *)
RequestBegun ==
  ctl.task = Timer /\ ctl.pc = "install" =>
    /\ ctl.app \in Apps /\ ctl.req \in 1..Len(Requests[ctl.app])
    /\ LET r == Requests[ctl.app][ctl.req]
           n == Len(r.names) - Len(ctl.chain)
       IN /\ n >= 0
          /\ \A i \in 1..n : Done(ctl.app, ctl.req, i)
          /\ \A k \in 1..Len(ctl.chain) :
               /\ ctl.chain[k].app = ctl.app /\ ctl.chain[k].flow = r.flow
               /\ ctl.chain[k].name = r.names[n + k]

(* Only the timer's task initialises applications, and only the network's  *)
(* handles load.                                                           *)
TaskAtWork ==
  /\ ctl.pc = "init" => ctl.task = Timer
  /\ ctl.pc = "loaded" => ctl.task = Network

InitInv ==
  TaskAtWork /\ (Removers = {} => InstalledComplete /\ RequestsDone /\ RequestBegun)

(* The applications ask for one element at a time, of the placement that   *)
(* looks at the capacity of machines.                                      *)
OneAtATime ==
  /\ ByCentrality
  /\ \A a \in Apps : \A q \in 1..Len(Requests[a]) :
       Requests[a][q].params_ok => Len(Requests[a][q].names) = 1
  /\ \A a \in Apps : \A r \in TriggerRequest[a] : r.params_ok => Len(r.names) = 1

(* Where an element is about to be installed there is room for it.         *)
RoomLeft ==
  ctl.pc = "install" =>
    /\ Len(ctl.chain) = 1
    /\ ctl.chain[1].mac \in Machines =>
         Cardinality(mac_to_elems[ctl.chain[1].mac]) < Capacity

CapacityInv == CapacityRespected /\ RoomLeft

-----------------------------------------------------------------------------
(* The footprints of the steps: apart from a few actions, a step leaves    *)
(* the maps, the shims and the channels to them alone.                     *)
maps == <<tcp_conn_handlers, mac_to_elems, application_handles, ed_to_instance,
          flow_names, sent_on>>
boxes == <<shim_sock, objects, down>>

\* The controller reads a message, or none.
Reads == \A s \in Socks : \/ up'[s] = up[s]
                          \/ up[s] # <<>> /\ up'[s] = Tail(up[s])

Quiet == UNCHANGED <<maps, boxes>> /\ Reads /\ Frontier' >= Frontier

\* configure_elem
Tells ==
  \E m \in Machines, ed \in Desc :
    /\ ed \in mac_to_elems[m]
    /\ down' = Sent(m, [type |-> "configure", ed |-> ed])
    /\ UNCHANGED <<maps, shim_sock, objects, up>> /\ Frontier' >= Frontier

Registers == \E s \in Socks : ControllerRecv(s) /\ Head(up[s]).type = "register"

LEMMA FrontierNat ==
  ASSUME IInv
  PROVE  /\ Frontier \in Nat /\ Len(ctl.chain) \in Nat /\ latest \in Nat
         /\ ctl.pc # "install" => ctl.chain = <<>> /\ Frontier = latest
<1>. USE DEF IInv, TypeOK
<1>1. ctl.chain \in Seq(Pending) /\ latest \in Nat /\ Len(ctl.chain) \in Nat
  BY DEF TasksOK, Stack, ElementsOK
<1>2. CASE ctl.pc # "install"
  <2>1. ctl.chain = <<>>
    BY <1>2 DEF Unused
  <2>2. Len(ctl.chain) = 0
    BY <2>1
  <2>. QED
    BY <1>1, <1>2, <2>1, <2>2, MinusZero DEF Frontier
<1>3. CASE ctl.pc = "install"
  <2>1. ctl.chain # <<>>
    BY <1>3 DEF Unused
  <2>2. 1 \in 1..Len(ctl.chain) /\ ctl.chain[1] \in Pending
    BY <1>1, <2>1
  <2>3. ctl.chain[1].ed = latest - Len(ctl.chain) + 1
    BY <2>2 DEF Unused
  <2>4. ctl.chain[1].ed \in Desc
    BY <2>2 DEF Pending
  <2>5. latest - Len(ctl.chain) \in Nat
    BY <1>1, <2>3, <2>4 DEF Desc
  <2>. QED
    BY <1>1, <1>3, <2>5 DEF Frontier
<1>. QED
  BY <1>2, <1>3

(* A call of apply_elem by c, up to its loop: it returns, raises, or takes *)
(* descriptors for a chain on allowed machines.                            *)
Calls(a, r, c) ==
  \/ ctl' = Returned(c, FALSE) /\ UNCHANGED <<latest, dead>>
  \/ Raise(c.task) /\ latest' \in Nat /\ latest' >= latest
  \/ \E macs \in Placements(r.names) :
       /\ ctl' = [c EXCEPT !.pc = "install", !.chain = ChainOf(a, r, macs)]
       /\ latest' = latest + Len(r.names) /\ r.params_ok /\ UNCHANGED dead
       /\ latest' <= MaxDesc

LEMMA ApplyElemCalls ==
  ASSUME latest \in Nat, NEW a, NEW r \in Request, NEW c, ApplyElem(a, r, c)
  PROVE  Calls(a, r, c)
<1>1. Len(r.names) \in Nat
  BY DEF Request
<1>2. CASE ctl' = Returned(c, FALSE) /\ UNCHANGED <<latest, dead>>
  BY <1>2 DEF Calls
<1>3. CASE UNCHANGED latest /\ Raise(c.task)
  <2>1. latest' \in Nat /\ latest' >= latest
    BY <1>3
  <2>. QED
    BY <1>3, <2>1 DEF Calls
<1>4. ASSUME NEW macs \in Placements(r.names),
             latest + Len(r.names) <= MaxDesc,
             latest' = latest + Len(r.names),
             IF r.params_ok
               THEN /\ ctl' = [c EXCEPT !.pc = "install",
                                      !.chain = ChainOf(a, r, macs)]
                    /\ UNCHANGED dead
               ELSE Raise(c.task)
      PROVE  Calls(a, r, c)
  <2>1. latest' \in Nat /\ latest' >= latest
    BY <1>1, <1>4
  <2>2. CASE r.params_ok
    BY <1>4, <2>2 DEF Calls
  <2>3. CASE ~(r.params_ok)
    BY <1>4, <2>1, <2>3 DEF Calls
  <2>. QED
    BY <2>2, <2>3
<1>. QED
  BY <1>2, <1>3, <1>4 DEF ApplyElem

LEMMA CallsFrontier ==
  ASSUME IInv, NEW a \in Apps, NEW r \in Request, NEW c \in Stack,
         ctl.pc # "install", ApplyElem(a, r, c)
  PROVE  /\ Frontier' >= Frontier
         /\ UNCHANGED <<maps, boxes>>
<1>. USE DEF IInv, TypeOK
<1>1. /\ Frontier = latest /\ latest \in Nat
      /\ Calls(a, r, c)
  BY FrontierNat, ApplyElemCalls
<1>2. UNCHANGED <<maps, boxes>>
  BY DEF ApplyElem, maps, boxes, registration, shims
<1>3. CASE ctl' = Returned(c, FALSE) /\ UNCHANGED <<latest, dead>>
  <2>1. ctl'.chain = <<>>
    BY <1>3, ReturnedType
  <2>2. Len(ctl'.chain) = 0
    BY <2>1
  <2>3. Frontier' = latest - 0
    BY <1>3, <2>2 DEF Frontier
  <2>. QED
    BY <1>1, <1>2, <2>3
<1>4. CASE Raise(c.task) /\ latest' \in Nat /\ latest' >= latest
  <2>1. Len(ctl'.chain) = 0
    BY <1>4, IdleType DEF Raise
  <2>2. Frontier' = latest'
    BY <1>4, <2>1, MinusZero DEF Frontier
  <2>. QED
    BY <1>1, <1>2, <1>4, <2>2
<1>5. ASSUME NEW macs \in Placements(r.names),
             ctl' = [c EXCEPT !.pc = "install", !.chain = ChainOf(a, r, macs)],
             latest' = latest + Len(r.names), latest' <= MaxDesc
      PROVE  Frontier' >= Frontier
  <2>0. Len(r.names) \in Nat
    BY DEF Request
  <2>1. macs \in [1..Len(r.names) -> Hosts]
    BY <1>5 DEF Placements, Candidates, RegisteredMachines, RegistrationOK
  <2>2. Len(ChainOf(a, r, macs)) = Len(r.names)
    BY <1>1, <1>5, <2>1, ChainOfType
  <2>3. ctl'.chain = ChainOf(a, r, macs)
    BY <1>5 DEF Stack
  <2>4. Frontier' = (latest + Len(r.names)) - Len(r.names)
    BY <1>5, <2>2, <2>3 DEF Frontier
  <2>. QED
    BY <1>1, <2>0, <2>4
<1>. QED
  BY <1>1, <1>2, <1>3, <1>4, <1>5 DEF Calls

LEMMA CallQuiet ==
  ASSUME IInv, NEW a \in Apps, NEW r \in Request, NEW c \in Stack,
         ctl.pc # "install", ApplyElem(a, r, c), Reads
  PROVE  Quiet
BY CallsFrontier DEF Quiet

\* The task moves on, or ends, and nothing else happens.
LEMMA MoveQuiet ==
  ASSUME IInv, UNCHANGED <<maps, boxes>>, Reads, UNCHANGED latest,
         ctl'.chain = <<>>
  PROVE  Quiet
<1>1. latest \in Nat /\ Frontier \in Nat /\ Len(ctl.chain) \in Nat
  BY FrontierNat
<1>2. Len(ctl'.chain) = 0
  OBVIOUS
<1>3. Frontier' = latest - 0
  BY <1>2 DEF Frontier
<1>4. Frontier' >= Frontier
  BY <1>1, <1>3 DEF Frontier
<1>. QED
  BY <1>4 DEF Quiet

LEMMA FrontierSame ==
  ASSUME IInv, UNCHANGED <<latest, ctl>>
  PROVE  Frontier' >= Frontier
<1>1. Frontier \in Nat /\ Frontier' = Frontier
  BY FrontierNat DEF Frontier
<1>. QED
  BY <1>1

LEMMA TimerInitQuiet == ASSUME IInv, TimerInit PROVE Quiet
<1>. USE ConstantsAssumption DEF IInv, TypeOK, ConstantsAssumption
<1>. DEFINE a == ctl.app
<1>1. ctl.pc = "init" /\ Reads
  BY DEF TimerInit, Reads
<1>2. ctl \in Stack /\ ctl.chain = <<>>
  BY <1>1 DEF TasksOK, Stack, Unused
<1>3. CASE /\ ctl' = [ctl EXCEPT !.pc = "config",
                       !.todo = {ed \in Desc : application_handles[ed] # 0}]
           /\ UNCHANGED <<registration, elements, policy, load, dead, shims, down>>
  <2>1. ctl'.chain = <<>>
    BY <1>2, <1>3 DEF Stack
  <2>. QED
    BY <1>1, <1>3, <2>1, MoveQuiet DEF registration, elements, shims, maps, boxes
<1>4. CASE /\ ctl' = NextApp(ctl)
           /\ UNCHANGED <<registration, elements, shims, down>>
  <2>1. ctl'.chain = <<>>
    BY <1>2, <1>4 DEF Stack, NextApp
  <2>. QED
    BY <1>1, <1>4, <2>1, MoveQuiet DEF registration, elements, shims, maps, boxes
<1>5. CASE /\ a \in Apps /\ ctl.req \in 1..Len(Requests[a])
           /\ ApplyElem(a, Requests[a][ctl.req],
                        IF ctl.req = 1 THEN [ctl EXCEPT !.first = latest + 1]
                                       ELSE ctl)
  <2>1. Requests[a][ctl.req] \in Request
    BY <1>5
  <2>2. latest + 1 \in Nat
    BY DEF ElementsOK
  <2>3. [ctl EXCEPT !.first = latest + 1] \in Stack
    BY <1>2, <2>2 DEF Stack
  <2>4. PICK c \in Stack : ApplyElem(a, Requests[a][ctl.req], c)
    BY <1>2, <1>5, <2>3
  <2>. QED
    BY <1>1, <1>5, <2>1, <2>4, CallQuiet
<1>. QED
  BY <1>3, <1>4, <1>5 DEF TimerInit

LEMMA TimerConfigureFoot == ASSUME IInv, TimerConfigure PROVE Quiet \/ Tells
<1>. USE DEF IInv, TypeOK
<1>1. /\ ctl.pc = "config"
      /\ UNCHANGED <<registration, elements, policy, load, processes, up>>
      /\ Reads
  BY DEF TimerConfigure, Reads
<1>2. ctl \in Stack /\ ctl.chain = <<>>
  BY <1>1 DEF TasksOK, Stack, Unused
<1>3. ASSUME UNCHANGED down, ctl'.chain = <<>> PROVE Quiet
  BY <1>1, <1>3, MoveQuiet DEF registration, elements, processes, maps, boxes
<1>4. CASE ctl' = Idle /\ UNCHANGED <<closed, dead, down>>
  BY <1>3, <1>4, IdleType
<1>5. ASSUME NEW ed \in ctl.todo,
             LET a == application_handles[ed]
                 c == [ctl EXCEPT !.todo = @ \ {ed}]
             IN IF a \in Configuring
                  THEN Configure(a, c)
                  ELSE ctl' = c /\ UNCHANGED <<closed, dead, down>>
      PROVE  Quiet \/ Tells
  <2>. DEFINE a == application_handles[ed]
              c == [ctl EXCEPT !.todo = @ \ {ed}]
  <2>1. c.chain = <<>>
    BY <1>2 DEF Stack
  <2>. HIDE DEF c
  <2>2. CASE ctl' = c /\ UNCHANGED down
    BY <1>3, <2>1, <2>2
  <2>3. CASE Raise(c.task) /\ UNCHANGED down
    BY <1>3, <2>3, IdleType DEF Raise
  <2>6. ASSUME NEW m, SendRaises(m, c.task) PROVE Quiet
    BY <1>3, <2>6, IdleType DEF SendRaises, Raise
  <2>4. CASE /\ ctl' = c
             /\ \E m \in MachinesOf(app_ed[a]) :
                  down' = Sent(m, [type |-> "configure", ed |-> app_ed[a]])
    <3>1. PICK m \in MachinesOf(app_ed[a]) :
            down' = Sent(m, [type |-> "configure", ed |-> app_ed[a]])
      BY <2>4
    <3>2. m \in Machines /\ app_ed[a] \in Desc /\ app_ed[a] \in mac_to_elems[m]
      BY DEF MachinesOf, ElementsOK
    <3>3. Frontier' >= Frontier
      <4>1. Frontier \in Nat
        BY FrontierNat
      <4>2. Frontier' = Frontier
        BY <1>1, <1>2, <2>1, <2>4 DEF Frontier, elements
      <4>. QED
        BY <4>1, <4>2
    <3>. QED
      BY <1>1, <3>1, <3>2, <3>3 DEF Tells, registration, elements, processes, maps
  <2>5. Configure(a, c) \/ (ctl' = c /\ UNCHANGED <<closed, dead, down>>)
    BY <1>5 DEF c
  <2>. QED
    BY <2>2, <2>3, <2>4, <2>5, <2>6 DEF Configure
<1>. QED
  BY <1>4, <1>5 DEF TimerConfigure

LEMMA HandleLoadedQuiet == ASSUME IInv, HandleLoaded PROVE Quiet
<1>. USE DEF IInv, TypeOK
<1>1. ctl.pc = "loaded" /\ Reads
  BY DEF HandleLoaded, Reads
<1>2. ctl \in Stack /\ ctl.chain = <<>>
  BY <1>1 DEF TasksOK, Stack, Unused
<1>3. CASE /\ ctl' = Idle
           /\ UNCHANGED <<registration, elements, policy, load, dead, shims, down>>
  BY <1>1, <1>3, IdleType, MoveQuiet DEF registration, elements, shims, maps, boxes
<1>4. ASSUME NEW ed \in ctl.todo, NEW old_ed \in ElemDescs(ed_to_instance[ed].name),
             NEW c, c = [ctl EXCEPT !.todo = @ \ {ed}],
             \/ ApplyElem(application_handles[old_ed],
                  [flow |-> ed_to_instance[old_ed].flow,
                   names |-> <<ed_to_instance[old_ed].name>>,
                   params_ok |-> TRUE], c)
             \/ \E new_ed \in Desc : SteerTraffic(old_ed, new_ed, c)
      PROVE  Quiet
  <2>1. c \in Stack /\ c.chain = <<>> /\ c.task \in Tasks
    BY <1>2, <1>4 DEF Stack
  <2>2. CASE \E new_ed \in Desc : SteerTraffic(old_ed, new_ed, c)
    <3>1. ctl'.chain = <<>>
      BY <2>1, <2>2, IdleType DEF SteerTraffic, Raise
    <3>. QED
      BY <1>1, <2>2, <3>1, MoveQuiet
      DEF SteerTraffic, registration, elements, shims, maps, boxes
  <2>3. CASE ApplyElem(application_handles[old_ed],
               [flow |-> ed_to_instance[old_ed].flow,
                names |-> <<ed_to_instance[old_ed].name>>,
                params_ok |-> TRUE], c)
    <3>1. old_ed \in Desc /\ ed_to_instance[old_ed] \in Instance
      BY <1>4 DEF ElemDescs, ElementsOK
    <3>2. application_handles[old_ed] \in Apps
      BY <3>1 DEF OwnersAgree, Instance
    <3>3. <<ed_to_instance[old_ed].name>> \in Seq(Names) \ {<<>>}
      BY <3>1 DEF Instance
    <3>4. [flow |-> ed_to_instance[old_ed].flow,
           names |-> <<ed_to_instance[old_ed].name>>,
           params_ok |-> TRUE] \in Request
      BY <3>1, <3>3 DEF Instance, Request
    <3>. QED
      BY <1>1, <2>1, <2>3, <3>2, <3>4, CallQuiet
  <2>. QED
    BY <1>4, <2>2, <2>3
<1>5. CASE \E ed \in ctl.todo :
             LET c == [ctl EXCEPT !.todo = @ \ {ed}]
             IN \E old_ed \in ElemDescs(ed_to_instance[ed].name) :
                  \/ ApplyElem(application_handles[old_ed],
                       [flow |-> ed_to_instance[old_ed].flow,
                        names |-> <<ed_to_instance[old_ed].name>>,
                        params_ok |-> TRUE], c)
                  \/ \E new_ed \in Desc : SteerTraffic(old_ed, new_ed, c)
  BY <1>4, <1>5
<1>. QED
  BY <1>3, <1>5 DEF HandleLoaded, NotLoaded, ElemDescs

\* A connection's task reads a trigger.
LEMMA TriggerQuiet ==
  ASSUME IInv, NEW s \in Socks, ControllerRecv(s), Head(up[s]).type # "register"
  PROVE  Quiet
<1>. USE ConstantsAssumption DEF IInv, TypeOK, ConstantsAssumption
<1>1. /\ ctl.pc = "idle" /\ up[s] # <<>>
      /\ up' = [up EXCEPT ![s] = Tail(up[s])]
      /\ HandleTrigger(s, Head(up[s]).ed)
  BY DEF ControllerRecv, Start, Received
<1>. DEFINE ed == Head(up[s]).ed
<1>2. up[s] \in Seq(UpMsg) /\ up \in [Socks -> Seq(UpMsg)]
  BY DEF ChannelsOK
<1>3. Reads
  BY <1>1, <1>2 DEF Reads
<1>4. ed \in 0..MaxDesc
  <2>1. Head(up[s]) \in UpMsg
    BY <1>1, <1>2
  <2>. QED
    BY <2>1 DEF UpMsg
<1>. HIDE DEF ed
<1>5. ctl.chain = <<>>
  BY <1>1, FrontierNat
<1>6. CASE /\ Raise(s)
           /\ UNCHANGED <<registration, elements, policy, load, shims, down>>
  <2>1. ctl'.chain = <<>>
    BY <1>6, IdleType DEF Raise
  <2>. QED
    BY <1>3, <1>6, <2>1, MoveQuiet DEF registration, elements, shims, maps, boxes
<1>7. CASE UNCHANGED <<registration, elements, policy, load, tasks, shims, down>>
  <2>1. ctl'.chain = <<>>
    BY <1>5, <1>7 DEF tasks
  <2>. QED
    BY <1>3, <1>7, <2>1, MoveQuiet DEF registration, elements, shims, maps, boxes
<1>8. CASE /\ ed # 0 /\ HasOwner(ed)
           /\ \E r \in TriggerRequest[application_handles[ed]] :
                ApplyElem(application_handles[ed], r, [Idle EXCEPT !.task = s])
  <2>1. ed \in Desc
    BY <1>4, <1>8 DEF Desc
  <2>2. application_handles[ed] \in Apps
    <3>1. application_handles[ed] \in 0..NApps
      BY <2>1 DEF ElementsOK
    <3>. QED
      BY <1>8, <3>1 DEF HasOwner, Apps
  <2>3. PICK r \in TriggerRequest[application_handles[ed]] :
               ApplyElem(application_handles[ed], r, [Idle EXCEPT !.task = s])
    BY <1>8
  <2>4. r \in Request
    BY <2>2, <2>3
  <2>5. s \in Tasks
    BY DEF Socks, Tasks, Network
  <2>6. [Idle EXCEPT !.task = s] \in Stack
    BY <2>5, IdleType DEF Stack
  <2>. QED
    BY <1>1, <1>3, <2>2, <2>3, <2>4, <2>6, CallQuiet
<1>. QED
  BY <1>1, <1>6, <1>7, <1>8 DEF HandleTrigger, ed

\* The end of a connection, and a call of remove_elem that raises.
Breaks ==
  \/ \E s \in Socks : ControllerEof(s)
  \/ \E a \in Apps, ed \in Desc : RemoveRaises(a, ed)

LEMMA BreaksKeeps ==
  ASSUME Breaks
  PROVE  /\ UNCHANGED <<registration, elements, policy, load, processes, down, up>>
         /\ UNCHANGED tasks \/ \E t : Raise(t)
BY DEF Breaks, ControllerEof, RemoveRaises, SendRaises

LEMMA BreaksQuiet == ASSUME IInv, Breaks PROVE Quiet
<1>1. UNCHANGED <<maps, boxes>> /\ Reads /\ UNCHANGED latest
  BY BreaksKeeps DEF registration, elements, processes, maps, boxes, Reads
<1>2. CASE UNCHANGED tasks
  BY <1>1, <1>2, FrontierSame DEF Quiet, tasks
<1>3. CASE \E t : Raise(t)
  BY <1>1, <1>3, MoveQuiet, IdleType DEF Raise
<1>. QED
  BY <1>2, <1>3, BreaksKeeps

(* Every step has one of these footprints.                                 *)
LEMMA Footprint ==
  ASSUME IInv, [Next]_vars
  PROVE  \/ Quiet \/ Tells \/ Registers \/ InstallNext
         \/ \E a \in Apps, ed \in Desc : RemoveElem(a, ed)
         \/ \E m \in Machines :
              ShimStart(m) \/ ShimCrash(m) \/ ShimDecode(m) \/ ShimTrigger(m)
<1>. USE DEF IInv, TypeOK
<1>1. CASE UNCHANGED vars
  <2>1. UNCHANGED <<maps, boxes>> /\ Reads /\ UNCHANGED <<latest, ctl>>
    BY <1>1 DEF vars, registration, elements, tasks, shims, maps, boxes, Reads
  <2>. QED
    BY <2>1, FrontierSame DEF Quiet
<1>2. CASE TimerTick
  <2>1. UNCHANGED <<maps, boxes>> /\ Reads /\ UNCHANGED latest
    BY <1>2 DEF TimerTick, registration, elements, tasks, shims, maps, boxes, Reads
  <2>2. ctl'.chain = <<>>
    BY <1>2, IdleType DEF TimerTick, Stack
  <2>. QED
    BY <2>1, <2>2, MoveQuiet
<1>3. CASE NetworkTick
  <2>1. UNCHANGED <<maps, boxes>> /\ Reads /\ UNCHANGED latest
    BY <1>3 DEF NetworkTick, registration, elements, tasks, shims, maps, boxes, Reads
  <2>2. PICK eds : \/ ctl' = Idle
                   \/ ctl' = [Idle EXCEPT !.pc = "loaded", !.task = Network,
                                          !.todo = eds]
    BY <1>3 DEF NetworkTick
  <2>3. ctl'.chain = <<>>
    BY <2>2, IdleType DEF Stack
  <2>. QED
    BY <2>1, <2>3, MoveQuiet
<1>4. CASE TimerInit \/ TimerConfigure \/ HandleLoaded
  BY <1>4, TimerInitQuiet, TimerConfigureFoot, HandleLoadedQuiet
<1>5. CASE \E s \in Socks : ControllerRecv(s)
  BY <1>5, TriggerQuiet DEF Registers
<1>6. CASE \E h \in Hosts : HostJoin(h) \/ HostLeave(h) \/ HostMove(h)
  <2>1. UNCHANGED <<tcp_conn_handlers, elements, tasks, shims, down, up>>
    BY <1>6 DEF HostJoin, HostLeave, HostMove
  <2>2. UNCHANGED <<maps, boxes>> /\ Reads /\ UNCHANGED <<latest, ctl>>
    BY <2>1 DEF elements, tasks, shims, maps, boxes, Reads
  <2>. QED
    BY <2>2, FrontierSame DEF Quiet
<1>7. CASE \E f \in Flows : FlowRemoved(f) \/ PacketIn(f)
  <2>1. UNCHANGED <<registration, elements, tasks, shims, down, up>>
    BY <1>7 DEF FlowRemoved, PacketIn
  <2>2. UNCHANGED <<maps, boxes>> /\ Reads /\ UNCHANGED <<latest, ctl>>
    BY <2>1 DEF registration, elements, tasks, shims, maps, boxes, Reads
  <2>. QED
    BY <2>2, FrontierSame DEF Quiet
<1>. QED
  BY <1>1, <1>2, <1>3, <1>4, <1>5, <1>6, <1>7, BreaksQuiet DEF Next, Breaks

(* A turn of the loop of apply_elem that sends: the descriptor is the      *)
(* first one not handled yet, and its element is recorded or the task is   *)
(* lost.                                                                   *)
Installs(e) ==
  /\ e \in Pending /\ e.mac \in Machines /\ ed_to_instance[e.ed] = NoInstance
  /\ e.ed = Frontier + 1 /\ Frontier' >= e.ed
  /\ down' = Sent(e.mac, [type |-> "install", ed |-> e.ed])
  /\ sent_on' = [sent_on EXCEPT ![e.ed] = tcp_conn_handlers[e.mac]]
  /\ UNCHANGED <<tcp_conn_handlers, shim_sock, objects, up>>
  /\ \/ Record(e) /\ UNCHANGED dead
     \/ /\ UNCHANGED <<mac_to_elems, flow_names, application_handles,
                       ed_to_instance>>
        /\ dead' # {}

LEMMA InstallFoot ==
  ASSUME IInv, InstallNext
  PROVE  Quiet \/ Installs(Head(ctl.chain))
<1>. USE DEF IInv, TypeOK
<1>. DEFINE e == Head(ctl.chain)
            rest == Tail(ctl.chain)
<1>1. /\ ctl.pc = "install"
      /\ UNCHANGED <<registration, policy, load, processes, up, latest>>
  BY DEF InstallNext
<1>2. /\ e \in Pending /\ rest \in Seq(Pending)
      /\ Len(rest) = Len(ctl.chain) - 1
      /\ e.ed = latest - Len(rest)
      /\ ed_to_instance[e.ed] = NoInstance
  BY <1>1, HeadUnused
<1>3. ctl \in Stack
  BY DEF TasksOK
<1>. HIDE DEF e, rest
<1>4. /\ latest \in Nat /\ Frontier \in Nat /\ Len(ctl.chain) \in Nat
      /\ Len(rest) \in Nat /\ e.ed = Frontier + 1
  <2>1. latest \in Nat /\ Frontier \in Nat /\ Len(ctl.chain) \in Nat
    BY FrontierNat
  <2>2. Len(rest) \in Nat
    BY <1>2
  <2>. QED
    BY <2>1, <2>2, <1>2 DEF Frontier
<1>5. ASSUME ctl'.chain = <<>> PROVE Frontier' = latest
  <2>1. Len(ctl'.chain) = 0
    BY <1>5
  <2>. QED
    BY <1>1, <1>4, <2>1, MinusZero DEF Frontier
<1>6. Reads /\ UNCHANGED <<tcp_conn_handlers, shim_sock, objects, up>>
  BY <1>1 DEF Reads, registration, processes
<1>7. CASE /\ ctl' = Returned(ctl, FALSE)
           /\ UNCHANGED <<dead, down, sent_on, mac_to_elems, flow_names,
                          flow_instances, application_handles, ed_to_instance>>
  <2>1. ctl'.chain = <<>>
    BY <1>3, <1>7, ReturnedType
  <2>. QED
    BY <1>1, <1>6, <1>7, <2>1, MoveQuiet DEF maps, boxes
<1>8. CASE /\ Raise(ctl.task)
           /\ UNCHANGED <<down, sent_on, mac_to_elems, flow_names,
                          flow_instances, application_handles, ed_to_instance>>
  <2>1. ctl'.chain = <<>>
    BY <1>8, IdleType DEF Raise
  <2>. QED
    BY <1>1, <1>6, <1>8, <2>1, MoveQuiet DEF maps, boxes
<1>9. CASE /\ e.mac # StrKey
           /\ down' = Sent(e.mac, [type |-> "install", ed |-> e.ed])
           /\ sent_on' = [sent_on EXCEPT ![e.ed] = tcp_conn_handlers[e.mac]]
           /\ \/ /\ ctl' = IF rest = <<>> THEN Returned(ctl, TRUE)
                                          ELSE [ctl EXCEPT !.chain = rest]
                 /\ UNCHANGED dead /\ Record(e)
              \/ /\ Raise(ctl.task)
                 /\ UNCHANGED <<mac_to_elems, flow_names, flow_instances,
                                application_handles, ed_to_instance>>
  <2>1. e.mac \in Machines
    BY <1>2, <1>9 DEF Pending
  <2>2. Frontier' >= e.ed
    <3>1. CASE ctl'.chain = <<>>
      BY <1>2, <1>4, <1>5, <3>1
    <3>2. CASE ctl'.chain = rest
      <4>1. Frontier' = latest - Len(rest)
        BY <1>1, <3>2 DEF Frontier
      <4>. QED
        BY <1>2, <1>4, <4>1
    <3>3. CASE Raise(ctl.task)
      BY <3>1, <3>3, IdleType DEF Raise
    <3>4. CASE ctl' = IF rest = <<>> THEN Returned(ctl, TRUE)
                                     ELSE [ctl EXCEPT !.chain = rest]
      <4>1. CASE rest = <<>>
        BY <1>3, <3>1, <3>4, <4>1, ReturnedType
      <4>2. CASE rest # <<>>
        BY <1>3, <3>2, <3>4, <4>2 DEF Stack
      <4>. QED
        BY <4>1, <4>2
    <3>. QED
      BY <1>9, <3>3, <3>4
  <2>3. Raise(ctl.task) => dead' # {}
    BY DEF Raise
  <2>. QED
    BY <1>2, <1>4, <1>6, <1>9, <2>1, <2>2, <2>3 DEF Installs, e
<1>. QED
  BY <1>7, <1>8, <1>9 DEF InstallNext, SendRaises, e, rest

-----------------------------------------------------------------------------
(* What Sent does to the messages under way.                               *)
LEMMA SentFacts ==
  ASSUME down \in [Machines -> Seq(DownMsg)], NEW m \in Machines,
         NEW msg \in DownMsg, down' = Sent(m, msg)
  PROVE  /\ \A n \in Machines : \A i \in 1..Len(down[n]) :
              i \in 1..Len(down'[n]) /\ down'[n][i] = down[n][i]
         /\ \A n \in Machines : \A i \in 1..Len(down'[n]) :
              \/ i \in 1..Len(down[n])
              \/ /\ n = m /\ Connected(m) /\ i = Len(down[m]) + 1
                 /\ down'[n][i] = msg
         /\ Connected(m) => /\ Len(down[m]) + 1 \in 1..Len(down'[m])
                            /\ down'[m][Len(down[m]) + 1] = msg
         /\ \A n \in Machines : down[n] = <<>> /\ (n = m => ~Connected(m)) =>
              down'[n] = <<>>
<1>1. CASE ~Connected(m)
  BY <1>1 DEF Sent
<1>2. CASE Connected(m)
  <2>1. down' = [down EXCEPT ![m] = Append(down[m], msg)]
    BY <1>2 DEF Sent
  <2>2. /\ down[m] \in Seq(DownMsg)
        /\ \A n \in Machines : n # m => down'[n] = down[n]
        /\ down'[m] = Append(down[m], msg)
    BY <2>1
  <2>3. /\ Len(down'[m]) = Len(down[m]) + 1 /\ Len(down[m]) \in Nat
        /\ \A i \in 1..Len(down[m]) : down'[m][i] = down[m][i]
        /\ down'[m][Len(down[m]) + 1] = msg
    BY <2>2
  <2>4. \A n \in Machines : \A i \in 1..Len(down[n]) :
          i \in 1..Len(down'[n]) /\ down'[n][i] = down[n][i]
    BY <2>2, <2>3
  <2>5. \A n \in Machines : \A i \in 1..Len(down'[n]) :
          \/ i \in 1..Len(down[n])
          \/ n = m /\ i = Len(down[m]) + 1 /\ down'[n][i] = msg
    BY <2>2, <2>3
  <2>6. Len(down[m]) + 1 \in 1..Len(down'[m])
    BY <2>3
  <2>. QED
    BY <1>2, <2>2, <2>3, <2>4, <2>5, <2>6
<1>. QED
  BY <1>1, <1>2

-----------------------------------------------------------------------------
(* SessionInv, step by step.                                               *)
LEMMA SessionTypes ==
  ASSUME IInv
  PROVE  /\ Frontier \in Nat
         /\ down \in [Machines -> Seq(DownMsg)] /\ up \in [Socks -> Seq(UpMsg)]
         /\ \A m \in Machines : objects[m] \subseteq Desc
         /\ \A ed \in Desc : ed \in Nat
         /\ \A m \in Machines : \A i \in 1..Len(down[m]) :
              /\ down[m][i] \in DownMsg /\ down[m][i].ed \in Desc
              /\ down[m][i].ed \in Nat
         /\ \A s \in Socks : \A i \in 1..Len(up[s]) : up[s][i].ed \in Nat
<1>. USE DEF IInv, TypeOK
<1>1. down \in [Machines -> Seq(DownMsg)] /\ up \in [Socks -> Seq(UpMsg)]
  BY DEF ChannelsOK
<1>2. \A m \in Machines : objects[m] \subseteq Desc
  BY DEF ShimsOK
<1>3. \A ed \in Desc : ed \in Nat
  BY DEF Desc
<1>4. \A m \in Machines : \A i \in 1..Len(down[m]) :
        down[m][i] \in DownMsg /\ down[m][i].ed \in Desc
  <2>. SUFFICES ASSUME NEW m \in Machines, NEW i \in 1..Len(down[m])
                PROVE  down[m][i] \in DownMsg /\ down[m][i].ed \in Desc
    OBVIOUS
  <2>1. down[m][i] \in DownMsg
    BY <1>1
  <2>. QED
    BY <2>1 DEF DownMsg
<1>5. \A s \in Socks : \A i \in 1..Len(up[s]) : up[s][i].ed \in Nat
  <2>. SUFFICES ASSUME NEW s \in Socks, NEW i \in 1..Len(up[s])
                PROVE  up[s][i].ed \in Nat
    OBVIOUS
  <2>1. up[s][i] \in UpMsg
    BY <1>1
  <2>2. up[s][i].ed \in 0..MaxDesc
    BY <2>1 DEF UpMsg
  <2>. QED
    BY <2>2
<1>. QED
  BY <1>1, <1>2, <1>3, <1>4, <1>5, FrontierNat

LEMMA FrontierNext == ASSUME IInv' PROVE Frontier' \in Int
<1>1. ctl'.chain \in Seq(Pending) /\ latest' \in Nat
  BY DEF IInv, TypeOK, TasksOK, Stack, ElementsOK
<1>2. Len(ctl'.chain) \in Nat
  BY <1>1
<1>. QED
  BY <1>1, <1>2 DEF Frontier

\* What was mentioned still is, when the frontier moves on.
LEMMA ReadsMentioned ==
  ASSUME IInv, IInv', Mentioned, Reads, Frontier' >= Frontier
  PROVE  \A s \in Socks : \A i \in 1..Len(up'[s]) : up'[s][i].ed <= Frontier'
<1>. SUFFICES ASSUME NEW s \in Socks, NEW i \in 1..Len(up'[s])
              PROVE  up'[s][i].ed <= Frontier'
  OBVIOUS
<1>1. /\ Frontier \in Nat /\ Frontier' \in Int /\ up[s] \in Seq(UpMsg)
      /\ \A j \in 1..Len(up[s]) : up[s][j].ed \in Nat
  BY SessionTypes, FrontierNext
<1>2. PICK j \in 1..Len(up[s]) : up'[s][i] = up[s][j]
  <2>1. CASE up'[s] = up[s]
    BY <2>1
  <2>2. CASE up[s] # <<>> /\ up'[s] = Tail(up[s])
    <3>1. i + 1 \in 1..Len(up[s]) /\ up'[s][i] = up[s][i + 1]
      BY <1>1, <2>2
    <3>. QED
      BY <3>1
  <2>. QED
    BY <2>1, <2>2 DEF Reads
<1>3. up[s][j].ed <= Frontier /\ up[s][j].ed \in Nat
  BY <1>1, <1>2 DEF Mentioned
<1>. QED
  BY <1>1, <1>2, <1>3

LEMMA QuietSession == ASSUME IInv, IInv', SessionInv, Quiet PROVE SessionInv'
<1>. USE DEF SessionInv
<1>1. /\ UNCHANGED <<tcp_conn_handlers, mac_to_elems, sent_on, shim_sock, objects,
                     down>>
      /\ Reads /\ Frontier' >= Frontier
  BY DEF Quiet, maps, boxes
<1>2. Mentioned'
  <2>1. /\ Frontier \in Nat /\ Frontier' \in Int
        /\ \A m \in Machines : objects[m] \subseteq Nat
        /\ \A m \in Machines : \A i \in 1..Len(down[m]) : down[m][i].ed \in Nat
    BY SessionTypes, FrontierNext
  <2>2. \A x \in Nat : x <= Frontier => x <= Frontier'
    BY <1>1, <2>1
  <2>3. \A m \in Machines : \A ed \in objects'[m] : ed <= Frontier'
    BY <1>1, <2>1, <2>2 DEF Mentioned
  <2>4. \A m \in Machines : \A i \in 1..Len(down'[m]) : down'[m][i].ed <= Frontier'
    BY <1>1, <2>1, <2>2 DEF Mentioned
  <2>. QED
    BY <1>1, <2>3, <2>4, ReadsMentioned DEF Mentioned
<1>3. OwnSession' /\ ToldOnce'
  BY <1>1 DEF OwnSession, ToldOnce
<1>4. BeliefBacked' /\ ConfigureFindsElement'
  BY <1>1 DEF BeliefBacked, ConfigureFindsElement, InFlight, Connected
<1>. QED
  BY <1>2, <1>3, <1>4

\* A message other than an install about a descriptor already handled.
LEMMA SendSession ==
  ASSUME IInv, IInv', SessionInv, NEW m \in Machines, NEW ed \in Desc,
         NEW type \in {"configure", "remove"}, ed \in mac_to_elems[m],
         down' = Sent(m, [type |-> type, ed |-> ed]),
         UNCHANGED <<tcp_conn_handlers, sent_on, shim_sock, objects, up>>,
         \A n \in Machines : mac_to_elems'[n] \subseteq mac_to_elems[n],
         Frontier' >= Frontier
  PROVE  SessionInv'
<1>. USE DEF SessionInv
<1>. DEFINE msg == [type |-> type, ed |-> ed]
            k == Len(down[m]) + 1
<1>1. msg \in DownMsg /\ msg.ed = ed /\ msg.type = type
  BY DEF DownMsg
<1>2. /\ down \in [Machines -> Seq(DownMsg)]
      /\ Frontier \in Nat /\ Frontier' \in Int /\ ed \in Nat
      /\ \A n \in Machines : objects[n] \subseteq Nat
      /\ \A n \in Machines : \A i \in 1..Len(down[n]) : down[n][i].ed \in Nat
  BY SessionTypes, FrontierNext
<1>. HIDE DEF msg
<1>3. /\ \A n \in Machines : \A i \in 1..Len(down[n]) :
            i \in 1..Len(down'[n]) /\ down'[n][i] = down[n][i]
      /\ \A n \in Machines : \A i \in 1..Len(down'[n]) :
            \/ i \in 1..Len(down[n])
            \/ n = m /\ Connected(m) /\ i = k /\ down'[n][i] = msg
      /\ \A n \in Machines : down[n] = <<>> /\ (n = m => ~Connected(m)) =>
            down'[n] = <<>>
  BY <1>1, <1>2, SentFacts DEF msg
<1>4. ed <= Frontier
  <2>1. ed \in Instances
    BY DEF IInv, OwnersAgree
  <2>2. ~(ed > Frontier)
    BY <2>1 DEF IInv, Unused, Instances, Frontier
  <2>. QED
    BY <1>2, <2>2
<1>5. Mentioned'
  <2>1. \A x \in Nat : x <= Frontier => x <= Frontier'
    BY <1>2
  <2>2. \A n \in Machines : \A d \in objects'[n] : d <= Frontier'
    BY <1>2, <2>1 DEF Mentioned
  <2>3. ASSUME NEW n \in Machines, NEW i \in 1..Len(down'[n])
        PROVE  down'[n][i].ed <= Frontier'
    <3>1. CASE i \in 1..Len(down[n])
      <4>1. down'[n][i] = down[n][i]
        BY <1>3, <3>1
      <4>2. down[n][i].ed \in Nat /\ down[n][i].ed <= Frontier
        BY <1>2, <3>1 DEF Mentioned
      <4>. QED
        BY <2>1, <4>1, <4>2
    <3>2. CASE down'[n][i] = msg
      BY <1>1, <1>2, <1>4, <2>1, <3>2
    <3>. QED
      BY <1>3, <3>1, <3>2
  <2>4. Reads
    BY DEF Reads
  <2>. QED
    BY <2>2, <2>3, <2>4, ReadsMentioned DEF Mentioned
<1>6. \A n \in Machines : \A i \in 1..Len(down'[n]) : down'[n][i].type = "install" =>
        i \in 1..Len(down[n]) /\ down'[n][i] = down[n][i]
  BY <1>1, <1>3
<1>7. OwnSession'
  BY <1>3, <1>6 DEF OwnSession, Connected
<1>8. ToldOnce'
  BY <1>6 DEF ToldOnce
<1>9. BeliefBacked'
  BY <1>3 DEF BeliefBacked, InFlight, Connected
<1>10. ConfigureFindsElement'
  <2>. SUFFICES ASSUME NEW n \in Machines, NEW d \in Desc,
                       NEW i \in InFlight(n, "configure", d)'
                PROVE  d \in objects'[n] \/ \E j \in InFlight(n, "install", d)' : j < i
    BY DEF ConfigureFindsElement
  <2>1. i \in 1..Len(down'[n]) /\ down'[n][i] = [type |-> "configure", ed |-> d]
    BY DEF InFlight
  <2>2. CASE i \in 1..Len(down[n])
    <3>1. i \in InFlight(n, "configure", d)
      BY <1>3, <2>1, <2>2 DEF InFlight
    <3>2. d \in objects[n] \/ \E j \in InFlight(n, "install", d) : j < i
      BY <3>1 DEF ConfigureFindsElement
    <3>. QED
      BY <1>3, <3>2 DEF InFlight
  <2>3. CASE n = m /\ Connected(m) /\ i = k /\ down'[n][i] = msg
    <3>1. d = ed
      BY <1>1, <2>1, <2>3
    <3>2. ed \in objects[m] \/ InFlight(m, "install", ed) # {}
      BY <2>3 DEF BeliefBacked
    <3>3. \A j \in InFlight(m, "install", ed) :
            j \in InFlight(m, "install", ed)' /\ j \in 1..Len(down[m])
      BY <1>3 DEF InFlight
    <3>4. Len(down[m]) \in Nat
      BY <1>2
    <3>5. \A j \in 1..Len(down[m]) : j < k
      BY <3>4
    <3>. QED
      BY <2>3, <3>1, <3>2, <3>3, <3>5
  <2>. QED
    BY <1>3, <2>1, <2>2, <2>3
<1>. QED
  BY <1>5, <1>7, <1>8, <1>9, <1>10

LEMMA TellsSession == ASSUME IInv, IInv', SessionInv, Tells PROVE SessionInv'
BY SendSession DEF Tells, maps

LEMMA RemoveSession ==
  ASSUME IInv, IInv', SessionInv, NEW a \in Apps, NEW ed \in Desc,
         RemoveElem(a, ed)
  PROVE  SessionInv'
<1>1. PICK m \in MachinesOf(ed) :
        /\ down' = Sent(m, [type |-> "remove", ed |-> ed])
        /\ mac_to_elems' = Displaced(m, ed)
  BY DEF RemoveElem
<1>2. UNCHANGED <<tcp_conn_handlers, sent_on, shim_sock, objects, up, latest, ctl>>
  BY DEF RemoveElem, registration, shims, tasks
<1>3. m \in Machines /\ ed \in mac_to_elems[m]
  BY DEF MachinesOf
<1>4. mac_to_elems \in [Machines -> SUBSET Desc]
  BY DEF IInv, TypeOK, ElementsOK
<1>5. \A n \in Machines : mac_to_elems'[n] \subseteq mac_to_elems[n]
  BY <1>1, <1>3, <1>4 DEF Displaced
<1>. QED
  BY <1>1, <1>2, <1>3, <1>5, FrontierSame, SendSession

LEMMA RegisterSession == ASSUME IInv, IInv', SessionInv, Registers PROVE SessionInv'
<1>. USE DEF SessionInv
<1>1. PICK s \in Socks : ControllerRecv(s) /\ Head(up[s]).type = "register"
  BY DEF Registers
<1>. DEFINE m == Head(up[s]).mac
<1>2. /\ up[s] # <<>> /\ up' = [up EXCEPT ![s] = Tail(up[s])]
      /\ Register(s, m)
  BY <1>1 DEF ControllerRecv, Received
<1>3. up \in [Socks -> Seq(UpMsg)] /\ Head(up[s]) \in UpMsg
  BY <1>2, SessionTypes
<1>4. m \in Machines /\ Reads
  BY <1>2, <1>3 DEF UpMsg, Reads
<1>. HIDE DEF m
<1>5. /\ UNCHANGED <<latest, ctl, sent_on, shim_sock, objects, down>>
      /\ tcp_conn_handlers' = [tcp_conn_handlers EXCEPT ![m] = s]
      /\ mac_to_elems' = [mac_to_elems EXCEPT ![m] = {}]
  BY <1>2 DEF Register, Cleared, tasks, shims
<1>6. /\ \A n \in Machines : n # m => tcp_conn_handlers'[n] = tcp_conn_handlers[n]
      /\ \A n \in Machines : n # m => mac_to_elems'[n] = mac_to_elems[n]
      /\ mac_to_elems'[m] = {}
  BY <1>4, <1>5 DEF IInv, TypeOK, RegistrationOK, ElementsOK
<1>7. Mentioned'
  <2>1. Frontier' = Frontier /\ Frontier' >= Frontier
    BY <1>5, FrontierSame DEF Frontier
  <2>2. \A n \in Machines : \A d \in objects'[n] : d <= Frontier'
    BY <1>5, <2>1 DEF Mentioned
  <2>3. \A n \in Machines : \A i \in 1..Len(down'[n]) : down'[n][i].ed <= Frontier'
    BY <1>5, <2>1 DEF Mentioned
  <2>. QED
    BY <1>4, <2>1, <2>2, <2>3, ReadsMentioned DEF Mentioned
<1>8. OwnSession' /\ ToldOnce'
  BY <1>5 DEF OwnSession, ToldOnce
<1>9. BeliefBacked' /\ ConfigureFindsElement'
  BY <1>5, <1>6 DEF BeliefBacked, ConfigureFindsElement, InFlight, Connected
<1>. QED
  BY <1>7, <1>8, <1>9

LEMMA InstallSession ==
  ASSUME IInv, IInv', SessionInv, NEW e, Installs(e)
  PROVE  SessionInv'
<1>. USE DEF SessionInv
<1>. DEFINE msg == [type |-> "install", ed |-> e.ed]
            m == e.mac
            k == Len(down[m]) + 1
<1>1. /\ e \in Pending /\ m \in Machines /\ e.ed \in Desc
      /\ e.ed = Frontier + 1 /\ Frontier' >= e.ed
      /\ down' = Sent(m, msg)
      /\ sent_on' = [sent_on EXCEPT ![e.ed] = tcp_conn_handlers[m]]
      /\ UNCHANGED <<tcp_conn_handlers, shim_sock, objects, up>>
  BY DEF Installs, Pending
<1>2. msg \in DownMsg /\ msg.ed = e.ed /\ msg.type = "install"
  BY <1>1 DEF DownMsg
<1>3. /\ down \in [Machines -> Seq(DownMsg)]
      /\ Frontier \in Nat /\ Frontier' \in Int /\ e.ed \in Nat
      /\ \A n \in Machines : objects[n] \subseteq Nat
      /\ \A n \in Machines : \A i \in 1..Len(down[n]) :
           down[n][i].ed \in Nat /\ down[n][i].ed \in Desc
  BY <1>1, SessionTypes, FrontierNext
<1>. HIDE DEF msg
<1>4. /\ \A n \in Machines : \A i \in 1..Len(down[n]) :
            i \in 1..Len(down'[n]) /\ down'[n][i] = down[n][i]
      /\ \A n \in Machines : \A i \in 1..Len(down'[n]) :
            \/ i \in 1..Len(down[n])
            \/ n = m /\ Connected(m) /\ i = k /\ down'[n][i] = msg
      /\ Connected(m) => k \in 1..Len(down'[m]) /\ down'[m][k] = msg
      /\ \A n \in Machines : down[n] = <<>> /\ (n = m => ~Connected(m)) =>
            down'[n] = <<>>
  BY <1>1, <1>2, <1>3, SentFacts
<1>. HIDE DEF m, k
<1>5. \A n \in Machines : e.ed \notin objects[n]
  BY <1>1, <1>3 DEF Mentioned
<1>6. \A n \in Machines : \A i \in 1..Len(down[n]) : down[n][i].ed # e.ed
  BY <1>1, <1>3 DEF Mentioned
<1>7. /\ sent_on'[e.ed] = tcp_conn_handlers[m]
      /\ \A d \in Desc : d # e.ed => sent_on'[d] = sent_on[d]
  BY <1>1 DEF IInv, TypeOK, ElementsOK
<1>8. Mentioned'
  <2>1. Frontier' >= Frontier /\ \A x \in Nat : x <= Frontier => x <= Frontier'
    BY <1>1, <1>3
  <2>2. \A n \in Machines : \A d \in objects'[n] : d <= Frontier'
    BY <1>1, <1>3, <2>1 DEF Mentioned
  <2>3. ASSUME NEW n \in Machines, NEW i \in 1..Len(down'[n])
        PROVE  down'[n][i].ed <= Frontier'
    <3>1. CASE i \in 1..Len(down[n])
      <4>1. down'[n][i] = down[n][i]
        BY <1>4, <3>1
      <4>2. down[n][i].ed \in Nat /\ down[n][i].ed <= Frontier
        BY <1>3, <3>1 DEF Mentioned
      <4>. QED
        BY <2>1, <4>1, <4>2
    <3>2. CASE down'[n][i] = msg
      BY <1>1, <1>2, <3>2
    <3>. QED
      BY <1>4, <3>1, <3>2
  <2>4. Reads
    BY <1>1 DEF Reads
  <2>. QED
    BY <2>1, <2>2, <2>3, <2>4, ReadsMentioned DEF Mentioned
<1>9. OwnSession'
  <2>. SUFFICES ASSUME NEW n \in Machines
       PROVE  /\ shim_sock'[n] = 0 => objects'[n] = {} /\ down'[n] = <<>>
              /\ \A d \in objects'[n] : sent_on'[d] = shim_sock'[n]
              /\ \A i \in 1..Len(down'[n]) : down'[n][i].type = "install" =>
                   sent_on'[down'[n][i].ed] = shim_sock'[n]
    BY <1>1 DEF OwnSession
  <2>1. shim_sock'[n] = 0 => objects'[n] = {} /\ down'[n] = <<>>
    BY <1>1, <1>4 DEF OwnSession, Connected
  <2>2. \A d \in objects'[n] : sent_on'[d] = shim_sock'[n]
    <3>1. objects[n] \subseteq Desc
      BY SessionTypes
    <3>. QED
      BY <1>1, <1>5, <1>7, <3>1 DEF OwnSession
  <2>3. ASSUME NEW i \in 1..Len(down'[n]), down'[n][i].type = "install"
        PROVE  sent_on'[down'[n][i].ed] = shim_sock'[n]
    <3>1. CASE i \in 1..Len(down[n])
      BY <1>1, <1>3, <1>4, <1>6, <1>7, <2>3, <3>1 DEF OwnSession
    <3>2. CASE n = m /\ Connected(m) /\ i = k /\ down'[n][i] = msg
      BY <1>1, <1>2, <1>7, <3>2 DEF Connected
    <3>. QED
      BY <1>4, <3>1, <3>2
  <2>. QED
    BY <2>1, <2>2, <2>3
<1>10. ToldOnce'
  <2>. SUFFICES ASSUME NEW n \in Machines, NEW i \in 1..Len(down'[n]),
                       down'[n][i].type = "install"
       PROVE  /\ down'[n][i].ed \notin objects'[n]
              /\ \A j \in 1..Len(down'[n]) : down'[n][j] = down'[n][i] => i = j
    BY DEF ToldOnce
  <2>1. CASE i \in 1..Len(down[n])
    <3>1. down'[n][i] = down[n][i] /\ down[n][i].ed # e.ed
      BY <1>4, <1>6, <2>1
    <3>2. \A j \in 1..Len(down'[n]) : down'[n][j] = down'[n][i] =>
            j \in 1..Len(down[n]) /\ down'[n][j] = down[n][j]
      BY <1>2, <1>4, <3>1
    <3>. QED
      BY <1>1, <2>1, <3>1, <3>2 DEF ToldOnce
  <2>2. CASE n = m /\ Connected(m) /\ i = k /\ down'[n][i] = msg
    <3>1. down'[n][i].ed \notin objects'[n]
      BY <1>1, <1>2, <1>5, <2>2
    <3>2. \A j \in 1..Len(down'[n]) : down'[n][j] = down'[n][i] => i = j
      BY <1>2, <1>4, <1>6, <2>2
    <3>. QED
      BY <3>1, <3>2
  <2>. QED
    BY <1>4, <2>1, <2>2
<1>11. BeliefBacked'
  <2>. SUFFICES ASSUME NEW n \in Machines, Connected(n)', NEW d \in mac_to_elems'[n]
                PROVE  d \in objects'[n] \/ InFlight(n, "install", d)' # {}
    BY DEF BeliefBacked
  <2>1. Connected(n)
    BY <1>1 DEF Connected
  <2>2. d \in mac_to_elems[n] \/ (n = m /\ d = e.ed)
    <3>1. CASE mac_to_elems' = mac_to_elems
      BY <3>1
    <3>2. CASE Record(e)
      BY <1>1, <3>2 DEF Record, IInv, TypeOK, ElementsOK, m
    <3>. QED
      BY <3>1, <3>2 DEF Installs
  <2>3. CASE d \in mac_to_elems[n]
    <3>1. d \in objects[n] \/ InFlight(n, "install", d) # {}
      BY <2>1, <2>3 DEF BeliefBacked
    <3>. QED
      BY <1>1, <1>4, <3>1 DEF InFlight
  <2>4. CASE n = m /\ d = e.ed
    BY <1>4, <2>1, <2>4 DEF InFlight, msg
  <2>. QED
    BY <2>2, <2>3, <2>4
<1>12. ConfigureFindsElement'
  <2>. SUFFICES ASSUME NEW n \in Machines, NEW d \in Desc,
                       NEW i \in InFlight(n, "configure", d)'
                PROVE  d \in objects'[n] \/ \E j \in InFlight(n, "install", d)' : j < i
    BY DEF ConfigureFindsElement
  <2>1. i \in 1..Len(down'[n]) /\ down'[n][i].type = "configure"
    BY DEF InFlight
  <2>2. i \in 1..Len(down[n])
    BY <1>2, <1>4, <2>1
  <2>3. i \in InFlight(n, "configure", d)
    BY <1>4, <2>2 DEF InFlight
  <2>4. d \in objects[n] \/ \E j \in InFlight(n, "install", d) : j < i
    BY <2>3 DEF ConfigureFindsElement
  <2>. QED
    BY <1>1, <1>4, <2>4 DEF InFlight
<1>. QED
  BY <1>8, <1>9, <1>10, <1>11, <1>12

LEMMA StartSession ==
  ASSUME IInv, IInv', SessionInv, NEW m \in Machines, ShimStart(m)
  PROVE  SessionInv'
<1>. USE DEF SessionInv
<1>. DEFINE s == nsock + 1
<1>1. /\ shim_sock[m] = 0 /\ nsock < MaxSock
      /\ shim_sock' = [shim_sock EXCEPT ![m] = s]
      /\ up' = [up EXCEPT ![s] = <<[type |-> "register", mac |-> m, ed |-> 0]>>]
      /\ UNCHANGED <<tcp_conn_handlers, mac_to_elems, sent_on, objects, down, latest,
                     ctl>>
  BY DEF ShimStart, registration, elements, tasks
<1>2. /\ nsock \in Nat /\ s \in Socks /\ shim_sock \in [Machines -> 0..MaxSock]
      /\ tcp_conn_handlers \in [Machines -> 0..MaxSock]
      /\ \A n \in Machines : tcp_conn_handlers[n] <= nsock /\ shim_sock[n] <= nsock
  BY <1>1, ConstantsAssumption
  DEF ConstantsAssumption, IInv, TypeOK, ShimsOK, RegistrationOK, SocketsFresh, Socks
<1>3. /\ shim_sock'[m] = s
      /\ \A n \in Machines : n # m => shim_sock'[n] = shim_sock[n]
      /\ \A n \in Machines : tcp_conn_handlers[n] # s /\ shim_sock[n] # s /\ s # 0
  BY <1>1, <1>2
<1>. HIDE DEF s
<1>4. objects[m] = {} /\ down[m] = <<>>
  BY <1>1 DEF OwnSession
<1>5. Mentioned'
  <2>1. /\ Frontier \in Nat /\ up \in [Socks -> Seq(UpMsg)]
    BY SessionTypes
  <2>2. Frontier' = Frontier
    BY <1>1 DEF Frontier
  <2>3. /\ \A t \in Socks : t # s => up'[t] = up[t]
        /\ up'[s] = <<[type |-> "register", mac |-> m, ed |-> 0]>>
    BY <1>1, <1>2, <2>1
  <2>4. \A i \in 1..Len(up'[s]) : up'[s][i].ed = 0
    BY <2>3
  <2>5. 0 <= Frontier
    BY <2>1
  <2>6. \A t \in Socks : \A i \in 1..Len(up'[t]) : up'[t][i].ed <= Frontier
    BY <2>3, <2>4, <2>5 DEF Mentioned
  <2>. QED
    BY <1>1, <2>2, <2>6 DEF Mentioned
<1>6. OwnSession'
  BY <1>1, <1>3, <1>4 DEF OwnSession
<1>7. ToldOnce' /\ ConfigureFindsElement'
  BY <1>1 DEF ToldOnce, ConfigureFindsElement, InFlight
<1>8. BeliefBacked'
  BY <1>1, <1>3 DEF BeliefBacked, InFlight, Connected
<1>. QED
  BY <1>5, <1>6, <1>7, <1>8

LEMMA CrashSession ==
  ASSUME IInv, IInv', SessionInv, NEW m \in Machines, ShimCrash(m)
  PROVE  SessionInv'
<1>. USE DEF SessionInv
<1>1. /\ shim_sock' = [shim_sock EXCEPT ![m] = 0]
      /\ objects' = [objects EXCEPT ![m] = {}]
      /\ down' = [down EXCEPT ![m] = <<>>]
      /\ UNCHANGED <<tcp_conn_handlers, mac_to_elems, sent_on, up, latest, ctl>>
  BY DEF ShimCrash, registration, elements, tasks
<1>2. /\ shim_sock'[m] = 0 /\ objects'[m] = {} /\ down'[m] = <<>>
      /\ \A n \in Machines : n # m => /\ shim_sock'[n] = shim_sock[n]
                                       /\ objects'[n] = objects[n]
                                       /\ down'[n] = down[n]
  BY <1>1 DEF IInv, TypeOK, ShimsOK, ChannelsOK
<1>3. Frontier' = Frontier
  BY <1>1 DEF Frontier
<1>4. down'[m] = <<>> => 1..Len(down'[m]) = {}
  OBVIOUS
<1>5. Mentioned' /\ OwnSession' /\ ToldOnce'
  <2>1. Mentioned'
    BY <1>1, <1>2, <1>3, <1>4 DEF Mentioned
  <2>2. OwnSession'
    BY <1>1, <1>2, <1>4 DEF OwnSession
  <2>3. ToldOnce'
    BY <1>1, <1>2, <1>4 DEF ToldOnce
  <2>. QED
    BY <2>1, <2>2, <2>3
<1>6. BeliefBacked' /\ ConfigureFindsElement'
  BY <1>1, <1>2, <1>4 DEF BeliefBacked, ConfigureFindsElement, InFlight, Connected
<1>. QED
  BY <1>5, <1>6

LEMMA TriggerSession ==
  ASSUME IInv, IInv', SessionInv, NEW m \in Machines, ShimTrigger(m)
  PROVE  SessionInv'
<1>. USE DEF SessionInv
<1>. DEFINE s == shim_sock[m]
<1>1. /\ s # 0
      /\ UNCHANGED <<tcp_conn_handlers, mac_to_elems, sent_on, shim_sock, objects,
                     down, latest, ctl>>
  BY DEF ShimTrigger, registration, elements, tasks, shims
<1>2. PICK ed \in objects[m] \cup {0} :
        up' = [up EXCEPT ![s] = Append(up[s], [type |-> "trigger", mac |-> m, ed |-> ed])]
  BY DEF ShimTrigger, Delivered
<1>3. /\ Frontier \in Nat /\ up \in [Socks -> Seq(UpMsg)]
      /\ Frontier' = Frontier /\ ed <= Frontier
  <2>1. Frontier \in Nat /\ up \in [Socks -> Seq(UpMsg)]
    BY SessionTypes
  <2>2. ed <= Frontier
    BY <1>2, <2>1 DEF Mentioned
  <2>. QED
    BY <1>1, <2>1, <2>2 DEF Frontier
<1>4. s \in Socks
  <2>1. s \in 0..MaxSock
    BY DEF IInv, TypeOK, ShimsOK
  <2>. QED
    BY <1>1, <2>1 DEF Socks
<1>. HIDE DEF s
<1>5. \A t \in Socks : \A i \in 1..Len(up'[t]) :
        \/ i \in 1..Len(up[t]) /\ up'[t][i] = up[t][i]
        \/ up'[t][i].ed = ed
  <2>1. /\ \A t \in Socks : t # s => up'[t] = up[t]
        /\ up[s] \in Seq(UpMsg)
        /\ up'[s] = Append(up[s], [type |-> "trigger", mac |-> m, ed |-> ed])
    BY <1>2, <1>3, <1>4
  <2>2. \A i \in 1..Len(up'[s]) :
          \/ i \in 1..Len(up[s]) /\ up'[s][i] = up[s][i]
          \/ up'[s][i].ed = ed
    BY <2>1
  <2>. QED
    BY <2>1, <2>2
<1>6. Mentioned'
  BY <1>1, <1>3, <1>5 DEF Mentioned
<1>7. OwnSession' /\ ToldOnce'
  BY <1>1 DEF OwnSession, ToldOnce
<1>8. BeliefBacked' /\ ConfigureFindsElement'
  BY <1>1 DEF BeliefBacked, ConfigureFindsElement, InFlight, Connected
<1>. QED
  BY <1>6, <1>7, <1>8

LEMMA DecodeSession ==
  ASSUME IInv, IInv', SessionInv, NEW m \in Machines, ShimDecode(m)
  PROVE  SessionInv'
<1>. USE DEF SessionInv
<1>. DEFINE msg == Head(down[m])
<1>1. /\ down[m] # <<>>
      /\ down' = [down EXCEPT ![m] = Tail(down[m])]
      /\ objects' = ObjectsAfter(m, msg)
      /\ UNCHANGED <<tcp_conn_handlers, mac_to_elems, sent_on, shim_sock, up, latest,
                     ctl>>
  BY DEF ShimDecode, registration, elements, tasks
<1>2. /\ down \in [Machines -> Seq(DownMsg)] /\ Frontier \in Nat
      /\ \A n \in Machines : \A i \in 1..Len(down[n]) : down[n][i].ed \in Desc
      /\ objects \in [Machines -> SUBSET Desc]
  BY SessionTypes DEF IInv, TypeOK, ShimsOK
<1>3. /\ down[m] \in Seq(DownMsg) /\ msg = down[m][1] /\ 1 \in 1..Len(down[m])
      /\ down'[m] = Tail(down[m])
      /\ \A n \in Machines : n # m => down'[n] = down[n]
  BY <1>1, <1>2
<1>4. /\ Len(down[m]) \in Nat /\ Len(down'[m]) = Len(down[m]) - 1
      /\ \A i \in 1..Len(down'[m]) : down'[m][i] = down[m][i + 1]
      /\ \A i \in 1..Len(down'[m]) : i + 1 \in 1..Len(down[m])
  <2>. DEFINE q == down[m]
  <2>1. q \in Seq(DownMsg) /\ q # <<>> /\ down'[m] = Tail(q)
    BY <1>1, <1>3
  <2>. HIDE DEF q
  <2>2. /\ Len(q) \in Nat /\ Len(Tail(q)) = Len(q) - 1
        /\ \A i \in 1..Len(Tail(q)) : Tail(q)[i] = q[i + 1]
    BY <2>1
  <2>3. \A i \in 1..(Len(q) - 1) : i + 1 \in 1..Len(q)
    BY <2>2
  <2>. QED
    BY <2>1, <2>2, <2>3 DEF q
<1>. HIDE DEF msg
<1>5. /\ \A n \in Machines : n # m => objects'[n] = objects[n]
      /\ objects'[m] = IF msg.type = "install" THEN objects[m] \cup {msg.ed}
                                               ELSE objects[m]
  BY <1>1, <1>2 DEF ObjectsAfter
<1>6. Frontier' = Frontier
  BY <1>1 DEF Frontier
<1>7. Mentioned'
  BY <1>1, <1>3, <1>4, <1>5, <1>6 DEF Mentioned
<1>8. OwnSession'
  <2>1. shim_sock[m] # 0
    BY <1>1 DEF OwnSession
  <2>2. \A ed \in objects'[m] : sent_on[ed] = shim_sock[m]
    BY <1>3, <1>5 DEF OwnSession
  <2>3. \A i \in 1..Len(down'[m]) :
          down'[m][i].type = "install" => sent_on[down'[m][i].ed] = shim_sock[m]
    BY <1>4, SMTT(30) DEF OwnSession
  <2>. QED
    BY <1>1, <1>3, <1>5, <2>1, <2>2, <2>3, SMTT(30) DEF OwnSession
<1>9. ToldOnce'
  <2>. SUFFICES ASSUME NEW n \in Machines, NEW i \in 1..Len(down'[n]),
                       down'[n][i].type = "install"
       PROVE  /\ down'[n][i].ed \notin objects'[n]
              /\ \A j \in 1..Len(down'[n]) : down'[n][j] = down'[n][i] => i = j
    BY DEF ToldOnce
  <2>1. CASE n # m
    BY <1>3, <1>5, <2>1 DEF ToldOnce
  <2>2. CASE n = m
    <3>1. i + 1 \in 1..Len(down[m]) /\ down'[m][i] = down[m][i + 1]
      BY <1>4, <2>2
    <3>2. /\ down[m][i + 1].ed \notin objects[m]
          /\ \A j \in 1..Len(down[m]) : down[m][j] = down[m][i + 1] => i + 1 = j
      BY <2>2, <3>1 DEF ToldOnce
    <3>3. \A j \in 1..Len(down'[m]) : down'[m][j] = down'[m][i] => i = j
      <4>. SUFFICES ASSUME NEW j \in 1..Len(down'[m]), down'[m][j] = down'[m][i]
                    PROVE  i = j
        OBVIOUS
      <4>1. j + 1 \in 1..Len(down[m]) /\ down[m][j + 1] = down[m][i + 1]
        BY <1>4, <3>1
      <4>2. i + 1 = j + 1
        BY <3>2, <4>1
      <4>. QED
        BY <2>2, <4>2
    <3>4. ASSUME msg.type = "install" PROVE down'[m][i].ed # msg.ed
      <4>1. msg \in DownMsg /\ down[m][i + 1] \in DownMsg
        BY <1>2, <1>3, <3>1
      <4>2. SUFFICES ASSUME down[m][i + 1].ed = msg.ed PROVE FALSE
        BY <3>1
      <4>3. down[m][1] = down[m][i + 1]
        <5>1. \A x, y \in DownMsg : x.type = y.type /\ x.ed = y.ed => x = y
          BY DEF DownMsg
        <5>2. down[m][i + 1].type = "install"
          BY <2>2, <3>1
        <5>. QED
          BY <1>3, <3>4, <4>1, <4>2, <5>1, <5>2
      <4>4. i + 1 = 1
        BY <1>3, <3>2, <4>3
      <4>. QED
        BY <2>2, <4>4
    <3>. QED
      BY <1>5, <2>2, <3>1, <3>2, <3>3, <3>4
  <2>. QED
    BY <2>1, <2>2
<1>10. \A d \in Desc : \A i \in InFlight(m, "install", d) :
         d \in objects'[m] \/ (i > 1 /\ i - 1 \in InFlight(m, "install", d)')
  <2>. SUFFICES ASSUME NEW d \in Desc, NEW i \in InFlight(m, "install", d)
                PROVE  d \in objects'[m] \/ (i > 1 /\ i - 1 \in InFlight(m, "install", d)')
    OBVIOUS
  <2>1. i \in 1..Len(down[m]) /\ down[m][i] = [type |-> "install", ed |-> d]
    BY DEF InFlight
  <2>2. CASE i = 1
    BY <1>3, <1>5, <2>1, <2>2
  <2>3. CASE i # 1
    <3>1. i > 1 /\ i - 1 \in 1..Len(down'[m]) /\ (i - 1) + 1 = i
      BY <1>4, <2>1, <2>3
    <3>. QED
      BY <1>4, <2>1, <3>1 DEF InFlight
  <2>. QED
    BY <2>2, <2>3
<1>11. BeliefBacked'
  <2>. SUFFICES ASSUME NEW n \in Machines, Connected(n)', NEW d \in mac_to_elems'[n]
                PROVE  d \in objects'[n] \/ InFlight(n, "install", d)' # {}
    BY DEF BeliefBacked
  <2>1. d \in objects[n] \/ InFlight(n, "install", d) # {}
    BY <1>1 DEF BeliefBacked, Connected
  <2>2. d \in Desc
    BY <1>1 DEF IInv, TypeOK, ElementsOK
  <2>3. CASE n # m
    BY <1>3, <1>5, <2>1, <2>3 DEF InFlight
  <2>4. CASE n = m
    BY <1>5, <1>10, <2>1, <2>2, <2>4
  <2>. QED
    BY <2>3, <2>4
<1>12. ConfigureFindsElement'
  <2>. SUFFICES ASSUME NEW n \in Machines, NEW d \in Desc,
                       NEW i \in InFlight(n, "configure", d)'
                PROVE  d \in objects'[n] \/ \E j \in InFlight(n, "install", d)' : j < i
    BY DEF ConfigureFindsElement
  <2>1. i \in 1..Len(down'[n]) /\ down'[n][i] = [type |-> "configure", ed |-> d]
    BY DEF InFlight
  <2>2. CASE n # m
    BY <1>3, <1>5, <2>1, <2>2 DEF InFlight, ConfigureFindsElement
  <2>3. CASE n = m
    <3>1. i + 1 \in InFlight(m, "configure", d)
      BY <1>4, <2>1, <2>3 DEF InFlight
    <3>2. d \in objects[m] \/ \E j \in InFlight(m, "install", d) : j < i + 1
      BY <3>1 DEF ConfigureFindsElement
    <3>3. CASE d \in objects[m]
      BY <1>5, <2>3, <3>3
    <3>4. CASE d \notin objects[m]
      <4>1. PICK j \in InFlight(m, "install", d) : j < i + 1
        BY <3>2, <3>4
      <4>2. j \in Int /\ i \in Int
        BY <2>1 DEF InFlight
      <4>3. d \in objects'[m] \/ j - 1 \in InFlight(m, "install", d)'
        BY <1>10, <4>1
      <4>4. j - 1 < i
        BY <4>1, <4>2
      <4>. QED
        BY <2>3, <4>3, <4>4
    <3>. QED
      BY <3>3, <3>4
  <2>. QED
    BY <2>2, <2>3
<1>. QED
  BY <1>7, <1>8, <1>9, <1>11, <1>12

LEMMA InitSession == Init => SessionInv
<1>. SUFFICES ASSUME Init PROVE SessionInv
  OBVIOUS
<1>1. /\ \A m \in Machines : objects[m] = {} /\ down[m] = <<>> /\ shim_sock[m] = 0
      /\ \A m \in Machines : mac_to_elems[m] = {}
      /\ \A s \in Socks : up[s] = <<>>
  BY DEF Init
<1>2. Len(<<>>) = 0 /\ 1..0 = {}
  OBVIOUS
<1>3. Mentioned /\ OwnSession /\ ToldOnce
  BY <1>1, <1>2 DEF Mentioned, OwnSession, ToldOnce
<1>4. BeliefBacked /\ ConfigureFindsElement
  BY <1>1, <1>2 DEF BeliefBacked, ConfigureFindsElement, InFlight
<1>. QED
  BY <1>3, <1>4 DEF SessionInv

(* SessionInv is an invariant: relative to IInv it is inductive.           *)
THEOREM SessionInductive == Spec => []SessionInv
<1>1. IInv /\ IInv' /\ SessionInv /\ [Next]_vars => SessionInv'
  <2>. SUFFICES ASSUME IInv, IInv', SessionInv, [Next]_vars PROVE SessionInv'
    OBVIOUS
  <2>1. CASE Quiet \/ Tells \/ Registers
    BY <2>1, QuietSession, TellsSession, RegisterSession
  <2>2. CASE InstallNext
    BY <2>2, InstallFoot, QuietSession, InstallSession
  <2>3. CASE \E a \in Apps, ed \in Desc : RemoveElem(a, ed)
    BY <2>3, RemoveSession
  <2>4. CASE \E m \in Machines :
               ShimStart(m) \/ ShimCrash(m) \/ ShimDecode(m) \/ ShimTrigger(m)
    BY <2>4, StartSession, CrashSession, DecodeSession, TriggerSession
  <2>. QED
    BY <2>1, <2>2, <2>3, <2>4, Footprint
<1>. QED
  BY <1>1, InitSession, Inductive, PTL DEF Spec

(* What elem_to_mac places on a connected machine runs there, or is on its *)
(* way, however shims crash, come back and register again.                 *)
THEOREM BeliefsAreBacked == Spec => []BeliefBacked
<1>1. SessionInv => BeliefBacked
  BY DEF SessionInv
<1>. QED
  BY <1>1, SessionInductive, PTL

(* No configure message overtakes, or outlives, the install message of its *)
(* element: exposed_configure_function always finds the element.           *)
THEOREM ConfigurationsArrive == Spec => []ConfigureFindsElement
<1>1. SessionInv => ConfigureFindsElement
  BY DEF SessionInv
<1>. QED
  BY <1>1, SessionInductive, PTL

(* A descriptor is installed once, on one machine: apply_elem may fail,    *)
(* and be tried again, in the middle of a chain.                           *)
THEOREM InstallsAreUnique == Spec => []InstalledOnce
<1>1. SessionInv => InstalledOnce
  <2>. SUFFICES ASSUME SessionInv, NEW ed \in Desc, NEW m \in Machines,
                       NEW n \in Machines
       PROVE  /\ ed \in objects[m] => InFlight(n, "install", ed) = {}
              /\ ed \in objects[m] \cap objects[n] => m = n
              /\ \A i \in InFlight(m, "install", ed), j \in InFlight(n, "install", ed) :
                   m = n /\ i = j
    BY DEF InstalledOnce
  <2>. USE DEF SessionInv
  <2>1. /\ ed \in objects[m] => sent_on[ed] = shim_sock[m] /\ shim_sock[m] # 0
        /\ ed \in objects[n] => sent_on[ed] = shim_sock[n] /\ shim_sock[n] # 0
    BY DEF OwnSession
  <2>2. ASSUME NEW k \in Machines, NEW i \in InFlight(k, "install", ed)
        PROVE  /\ sent_on[ed] = shim_sock[k] /\ shim_sock[k] # 0
               /\ ed \notin objects[k]
               /\ \A j \in InFlight(k, "install", ed) : i = j
    <3>1. /\ i \in 1..Len(down[k]) /\ down[k][i] = [type |-> "install", ed |-> ed]
      BY <2>2 DEF InFlight
    <3>2. down[k] # <<>>
      BY <3>1
    <3>3. sent_on[ed] = shim_sock[k] /\ shim_sock[k] # 0
      BY <3>1, <3>2 DEF OwnSession
    <3>4. ed \notin objects[k] /\ \A j \in InFlight(k, "install", ed) : i = j
      BY <3>1 DEF ToldOnce, InFlight
    <3>. QED
      BY <3>3, <3>4
  <2>3. shim_sock[m] # 0 /\ shim_sock[m] = shim_sock[n] => m = n
    BY DEF OwnSession
  <2>. QED
    BY <2>1, <2>2, <2>3
<1>. QED
  BY <1>1, SessionInductive, PTL

\* What FreshDescriptor says of a step.
FreshStep ==
  \A ed \in Desc :
    application_handles[ed] = 0 /\ application_handles'[ed] # 0 =>
      /\ \A m \in Machines : /\ ed \notin objects[m]
                              /\ \A i \in 1..Len(down[m]) : down[m][i].ed # ed
      /\ \A s \in Socks : \A i \in 1..Len(up[s]) : up[s][i].ed # ed

(* A descriptor that gets an owner has been seen by no shim and is in no   *)
(* message, so that nothing late is ever taken to be about it.             *)
THEOREM DescriptorsAreFresh == Spec => FreshDescriptor
<1>1. IInv /\ IInv' /\ SessionInv /\ [Next]_vars => FreshStep
  <2>. SUFFICES ASSUME IInv, IInv', SessionInv, [Next]_vars PROVE FreshStep
    OBVIOUS
  <2>. USE DEF SessionInv
  <2>1. ASSUME UNCHANGED application_handles PROVE FreshStep
    BY <2>1 DEF FreshStep
  <2>2. CASE Quiet \/ Tells
    BY <2>1, <2>2 DEF Quiet, Tells, maps
  <2>3. CASE Registers
    BY <2>1, <2>3 DEF Registers, ControllerRecv, Register
  <2>4. CASE \E m \in Machines :
               ShimStart(m) \/ ShimCrash(m) \/ ShimDecode(m) \/ ShimTrigger(m)
    BY <2>1, <2>4 DEF ShimStart, ShimCrash, ShimDecode, ShimTrigger, elements
  <2>5. CASE \E a \in Apps, ed \in Desc : RemoveElem(a, ed)
    <3>1. PICK ed \in Desc : application_handles' = [application_handles EXCEPT ![ed] = 0]
      BY <2>5 DEF RemoveElem
    <3>2. \A d \in Desc : application_handles'[d] # 0 =>
            application_handles'[d] = application_handles[d]
      BY <3>1 DEF IInv, TypeOK, ElementsOK
    <3>. QED
      BY <3>2 DEF FreshStep
  <2>6. CASE Installs(Head(ctl.chain))
    <3>. DEFINE e == Head(ctl.chain)
    <3>1. /\ e.ed \in Desc /\ e.ed = Frontier + 1
          /\ \/ application_handles' = [application_handles EXCEPT ![e.ed] = e.app]
             \/ UNCHANGED application_handles
      BY <2>6 DEF Installs, Record, Owned, Pending
    <3>. HIDE DEF e
    <3>2. CASE UNCHANGED application_handles
      BY <2>1, <3>2
    <3>3. CASE application_handles' = [application_handles EXCEPT ![e.ed] = e.app]
      <4>1. \A d \in Desc : d # e.ed => application_handles'[d] = application_handles[d]
        BY <3>3 DEF IInv, TypeOK, ElementsOK
      <4>2. /\ Frontier \in Nat
            /\ \A x \in Nat : x <= Frontier => x # e.ed
        BY <3>1, FrontierNat
      <4>3. /\ \A m \in Machines : objects[m] \subseteq Nat
            /\ \A m \in Machines : \A i \in 1..Len(down[m]) : down[m][i].ed \in Nat
            /\ \A s \in Socks : \A i \in 1..Len(up[s]) : up[s][i].ed \in Nat
        BY SessionTypes
      <4>4. /\ \A m \in Machines : e.ed \notin objects[m]
            /\ \A m \in Machines : \A i \in 1..Len(down[m]) : down[m][i].ed # e.ed
            /\ \A s \in Socks : \A i \in 1..Len(up[s]) : up[s][i].ed # e.ed
        BY <4>2, <4>3 DEF Mentioned
      <4>. QED
        BY <4>1, <4>4 DEF FreshStep
    <3>. QED
      BY <3>1, <3>2, <3>3
  <2>7. CASE InstallNext
    BY <2>2, <2>6, <2>7, InstallFoot
  <2>. QED
    BY <2>2, <2>3, <2>4, <2>5, <2>7, Footprint
<1>2. [FreshStep]_vars <=>
        [\A ed \in Desc :
           application_handles[ed] = 0 /\ application_handles'[ed] # 0 =>
             /\ \A m \in Machines : /\ ed \notin objects[m]
                                     /\ \A i \in 1..Len(down[m]) : down[m][i].ed # ed
             /\ \A s \in Socks : \A i \in 1..Len(up[s]) : up[s][i].ed # ed]_vars
  BY DEF FreshStep
<1>. QED
  BY <1>1, <1>2, Inductive, SessionInductive, PTL DEF Spec, FreshDescriptor

-----------------------------------------------------------------------------
(* Elements at shims and their owners.                                     *)

\* A task that is lost stays lost.
LEMMA DeadGrows == ASSUME [Next]_vars, dead' = {} PROVE dead = {}
<1>1. CASE UNCHANGED dead
  BY <1>1
<1>2. ASSUME NEW t, Raise(t) PROVE FALSE
  BY <1>2 DEF Raise
<1>3. ASSUME NEW a, NEW r, NEW c, ApplyElem(a, r, c) PROVE UNCHANGED dead
  BY <1>2, <1>3 DEF ApplyElem
<1>4. CASE TimerInit
  BY <1>1, <1>3, <1>4 DEF TimerInit
<1>5. CASE TimerConfigure
  BY <1>1, <1>2, <1>5 DEF TimerConfigure, Configure, SendRaises
<1>6. CASE HandleLoaded
  BY <1>1, <1>2, <1>3, <1>6 DEF HandleLoaded, SteerTraffic
<1>7. CASE InstallNext
  BY <1>1, <1>2, <1>7 DEF InstallNext, SendRaises
<1>8. CASE \E s \in Socks : ControllerRecv(s)
  BY <1>1, <1>2, <1>3, <1>8 DEF ControllerRecv, Register, HandleTrigger, tasks
<1>9. CASE TimerTick \/ NetworkTick
  BY <1>1, <1>9 DEF TimerTick, NetworkTick
<1>10. CASE \/ \E a \in Apps, ed \in Desc : RemoveElem(a, ed)
            \/ \E h \in Hosts : HostJoin(h) \/ HostLeave(h) \/ HostMove(h)
  BY <1>1, <1>10 DEF RemoveElem, HostJoin, HostLeave, HostMove, tasks
<1>11. CASE \/ \E f \in Flows : FlowRemoved(f) \/ PacketIn(f)
            \/ \E m \in Machines :
                 ShimStart(m) \/ ShimCrash(m) \/ ShimDecode(m) \/ ShimTrigger(m)
  BY <1>1, <1>11 DEF FlowRemoved, PacketIn, ShimStart, ShimCrash, ShimDecode,
     ShimTrigger, tasks
<1>12. CASE UNCHANGED vars
  BY <1>1, <1>12 DEF vars, tasks
<1>13. CASE Breaks
  BY <1>1, <1>2, <1>13, BreaksKeeps DEF tasks
<1>. QED
  BY <1>4, <1>5, <1>6, <1>7, <1>8, <1>9, <1>10, <1>11, <1>12, <1>13 DEF Next, Breaks

\* The shim of m has ed, or is told to install it.
Has(m, ed) == ed \in objects[m] \/ InFlight(m, "install", ed) # {}

\* Only apply_elem brings a descriptor to a shim.
LEMMA BroughtByInstall ==
  ASSUME IInv, [Next]_vars, NEW m \in Machines, NEW ed \in Desc, Has(m, ed)'
  PROVE  \/ Has(m, ed)
         \/ Installs(Head(ctl.chain)) /\ Head(ctl.chain).ed = ed
<1>. DEFINE e == Head(ctl.chain)
            Inst(d) == [type |-> "install", ed |-> d]
<1>1. down \in [Machines -> Seq(DownMsg)] /\ objects \in [Machines -> SUBSET Desc]
  BY DEF IInv, TypeOK, ChannelsOK, ShimsOK
<1>2. ASSUME UNCHANGED <<objects, down>> PROVE Has(m, ed)
  BY <1>2 DEF Has, InFlight
<1>3. ASSUME NEW n \in Machines, NEW msg \in DownMsg, down' = Sent(n, msg),
             UNCHANGED objects, msg # Inst(ed)
      PROVE  Has(m, ed)
  <2>1. \A i \in 1..Len(down'[m]) :
           \/ i \in 1..Len(down[m]) /\ down'[m][i] = down[m][i]
           \/ down'[m][i] = msg
    <3>1. /\ \A k \in Machines : \A i \in 1..Len(down[k]) :
               i \in 1..Len(down'[k]) /\ down'[k][i] = down[k][i]
          /\ \A k \in Machines : \A i \in 1..Len(down'[k]) :
               \/ i \in 1..Len(down[k])
               \/ /\ k = n /\ Connected(n) /\ i = Len(down[n]) + 1
                  /\ down'[k][i] = msg
      BY <1>1, <1>3, SentFacts
    <3>. QED
      BY <3>1
  <2>. QED
    BY <1>3, <2>1 DEF Has, InFlight
<1>4. CASE Quiet
  BY <1>2, <1>4 DEF Quiet, boxes
<1>5. CASE Tells
  <2>1. PICK n \in Machines, d \in Desc :
          /\ down' = Sent(n, [type |-> "configure", ed |-> d]) /\ UNCHANGED objects
    BY <1>5 DEF Tells
  <2>2. /\ [type |-> "configure", ed |-> d] \in DownMsg
        /\ [type |-> "configure", ed |-> d] # Inst(ed)
    BY DEF DownMsg
  <2>. QED
    BY <1>3, <2>1, <2>2
<1>6. CASE \E a \in Apps, d \in Desc : RemoveElem(a, d)
  <2>1. PICK n \in Machines, d \in Desc :
          down' = Sent(n, [type |-> "remove", ed |-> d]) /\ UNCHANGED objects
    BY <1>6 DEF RemoveElem, MachinesOf, shims
  <2>2. /\ [type |-> "remove", ed |-> d] \in DownMsg
        /\ [type |-> "remove", ed |-> d] # Inst(ed)
    BY DEF DownMsg
  <2>. QED
    BY <1>3, <2>1, <2>2
<1>7. CASE Registers
  BY <1>2, <1>7 DEF Registers, ControllerRecv, Register, shims
<1>8. CASE Installs(e)
  <2>1. /\ down' = Sent(e.mac, Inst(e.ed)) /\ UNCHANGED objects
        /\ e.mac \in Machines /\ e.ed \in Desc
    BY <1>8 DEF Installs, Pending
  <2>2. Inst(e.ed) \in DownMsg
    BY <2>1 DEF DownMsg
  <2>3. e.ed # ed => Inst(e.ed) # Inst(ed)
    OBVIOUS
  <2>. HIDE DEF e, Inst
  <2>4. e.ed # ed => Has(m, ed)
    BY <1>3, <2>1, <2>2, <2>3
  <2>. QED
    BY <1>8, <2>4 DEF e
<1>9. ASSUME NEW n \in Machines, ShimStart(n) \/ ShimTrigger(n) PROVE Has(m, ed)
  BY <1>2, <1>9 DEF ShimStart, ShimTrigger, shims
<1>10. ASSUME NEW n \in Machines, ShimCrash(n) PROVE Has(m, ed)
  <2>1. /\ objects' = [objects EXCEPT ![n] = {}]
        /\ down' = [down EXCEPT ![n] = <<>>]
    BY <1>10 DEF ShimCrash
  <2>2. /\ objects'[m] \subseteq objects[m]
        /\ down'[m] = down[m] \/ down'[m] = <<>>
    BY <1>1, <2>1
  <2>3. 1..Len(<<>>) = {}
    OBVIOUS
  <2>. QED
    BY <2>2, <2>3 DEF Has, InFlight
<1>11. ASSUME NEW n \in Machines, ShimDecode(n) PROVE Has(m, ed)
  <2>1. /\ down[n] # <<>>
        /\ down' = [down EXCEPT ![n] = Tail(down[n])]
        /\ objects' = ObjectsAfter(n, Head(down[n]))
    BY <1>11 DEF ShimDecode
  <2>. DEFINE q == down[n]
  <2>2. /\ q \in Seq(DownMsg) /\ q # <<>>
        /\ m # n => down'[m] = down[m] /\ objects'[m] = objects[m]
        /\ m = n => down'[m] = Tail(q)
        /\ m = n => objects'[m] = IF Head(q).type = "install"
                                    THEN objects[m] \cup {Head(q).ed} ELSE objects[m]
    BY <1>1, <2>1 DEF ObjectsAfter
  <2>. HIDE DEF q
  <2>3. /\ 1 \in 1..Len(q) /\ Head(q) = q[1] /\ Head(q) \in DownMsg
        /\ \A i \in 1..Len(Tail(q)) : i + 1 \in 1..Len(q) /\ Tail(q)[i] = q[i + 1]
    <3>1. /\ Len(q) \in Nat /\ Len(q) # 0 /\ Head(q) = q[1] /\ Head(q) \in DownMsg
          /\ Len(Tail(q)) = Len(q) - 1
          /\ \A i \in 1..Len(Tail(q)) : Tail(q)[i] = q[i + 1]
      BY <2>2
    <3>. QED
      BY <3>1
  <2>4. Head(q).type = "install" /\ Head(q).ed = ed => Head(q) = Inst(ed)
    BY <2>3 DEF DownMsg
  <2>5. CASE m # n
    BY <2>2, <2>5 DEF Has, InFlight
  <2>6. CASE m = n
    <3>1. CASE ed \in objects'[m]
      <4>1. ed \in objects[m] \/ (Head(q).type = "install" /\ Head(q).ed = ed)
        BY <2>2, <2>6, <3>1
      <4>2. Head(q) = Inst(ed) => 1 \in InFlight(m, "install", ed)
        BY <2>3, <2>6 DEF InFlight, q
      <4>. QED
        BY <2>4, <4>1, <4>2 DEF Has
    <3>2. CASE InFlight(m, "install", ed)' # {}
      <4>1. PICK i \in 1..Len(Tail(q)) : Tail(q)[i] = Inst(ed)
        BY <2>2, <2>6, <3>2 DEF InFlight
      <4>2. i + 1 \in InFlight(m, "install", ed)
        BY <2>3, <2>6, <4>1 DEF InFlight, q
      <4>. QED
        BY <4>2 DEF Has
    <3>. QED
      BY <3>1, <3>2 DEF Has
  <2>. QED
    BY <2>5, <2>6
<1>12. CASE InstallNext
  BY <1>4, <1>8, <1>12, InstallFoot
<1>. QED
  BY <1>4, <1>5, <1>6, <1>7, <1>9, <1>10, <1>11, <1>12, Footprint

(* While no task has been lost and nothing is removed, an element at a     *)
(* shim has an owner: apply_elem sends the install message before it       *)
(* records the element, and nothing but the loss of its task comes in      *)
(* between.                                                                *)
THEOREM NoOrphans == Spec => []NoSilentOrphan
<1>1. Init => NoSilentOrphan
  <2>1. Len(<<>>) = 0 /\ 1..0 = {}
    OBVIOUS
  <2>. QED
    BY <2>1 DEF Init, NoSilentOrphan, InFlight
<1>2. IInv /\ NoSilentOrphan /\ [Next]_vars => NoSilentOrphan'
  <2>. SUFFICES ASSUME IInv, NoSilentOrphan, [Next]_vars, dead' = {}, Removers = {},
                       NEW m \in Machines, NEW ed \in Desc, Has(m, ed)'
                PROVE  application_handles'[ed] # 0
    BY DEF NoSilentOrphan, Has
  <2>1. dead = {}
    BY DeadGrows
  <2>2. Has(m, ed) => application_handles[ed] # 0
    BY <2>1 DEF NoSilentOrphan, Has
  <2>3. application_handles \in [Desc -> 0..NApps]
    BY DEF IInv, TypeOK, ElementsOK
  <2>4. CASE Installs(Head(ctl.chain))
    <3>. DEFINE e == Head(ctl.chain)
    <3>1. /\ Record(e) /\ e \in Pending
      BY <2>4 DEF Installs
    <3>2. /\ application_handles' = [application_handles EXCEPT ![e.ed] = e.app]
          /\ e.ed \in Desc /\ e.app \in Apps
      BY <3>1 DEF Record, Owned, Pending
    <3>3. e.app # 0
      BY <3>2 DEF Apps
    <3>. HIDE DEF e
    <3>4. CASE ed = e.ed
      BY <2>3, <3>2, <3>3, <3>4
    <3>5. CASE ed # e.ed
      <4>1. Has(m, ed)
        BY <3>5, BroughtByInstall DEF e
      <4>. QED
        BY <2>2, <2>3, <3>2, <3>5, <4>1
    <3>. QED
      BY <3>4, <3>5
  <2>5. CASE UNCHANGED application_handles /\ ~Installs(Head(ctl.chain))
    BY <2>2, <2>5, BroughtByInstall
  <2>6. CASE Quiet \/ Tells
    BY <2>4, <2>5, <2>6 DEF Quiet, Tells, maps
  <2>7. CASE Registers
    BY <2>4, <2>5, <2>7 DEF Registers, ControllerRecv, Register
  <2>8. CASE \E n \in Machines :
               ShimStart(n) \/ ShimCrash(n) \/ ShimDecode(n) \/ ShimTrigger(n)
    BY <2>4, <2>5, <2>8 DEF ShimStart, ShimCrash, ShimDecode, ShimTrigger, elements
  <2>9. ~(\E a \in Apps, d \in Desc : RemoveElem(a, d))
    BY DEF RemoveElem
  <2>. QED
    BY <2>4, <2>6, <2>7, <2>8, <2>9, Footprint, InstallFoot
<1>. QED
  BY <1>1, <1>2, Inductive, PTL DEF Spec

-----------------------------------------------------------------------------
(* Instances come from the loop of apply_elem and go with remove_elem.     *)
LEMMA InstanceSteps ==
  ASSUME IInv, [Next]_vars
  PROVE  \/ UNCHANGED <<ed_to_instance, flow_names>>
         \/ /\ Removers # {} /\ UNCHANGED <<flow_names, load, tasks, policy>>
            /\ \E ed \in Desc : ed_to_instance' = Forgotten(ed)
         \/ Installs(Head(ctl.chain)) /\ Record(Head(ctl.chain)) /\ InstallNext
<1>1. CASE Quiet \/ Tells
  BY <1>1 DEF Quiet, Tells, maps
<1>2. CASE Registers
  BY <1>2 DEF Registers, ControllerRecv, Register
<1>3. CASE \E m \in Machines :
             ShimStart(m) \/ ShimCrash(m) \/ ShimDecode(m) \/ ShimTrigger(m)
  BY <1>3 DEF ShimStart, ShimCrash, ShimDecode, ShimTrigger, elements
<1>4. CASE \E a \in Apps, ed \in Desc : RemoveElem(a, ed)
  BY <1>4 DEF RemoveElem
<1>5. CASE InstallNext
  BY <1>1, <1>5, InstallFoot DEF Installs
<1>. QED
  BY <1>1, <1>2, <1>3, <1>4, <1>5, Footprint

\* An instance that is recorded is there, and the others stay.
LEMMA Recorded ==
  ASSUME IInv, NEW e, Installs(e), Record(e)
  PROVE  /\ e.ed \in Desc /\ ed_to_instance[e.ed] = NoInstance
         /\ ed_to_instance'[e.ed] = [name |-> e.name, app |-> e.app, mac |-> e.mac,
                                     flow |-> e.flow]
         /\ \A d \in Desc : d # e.ed => ed_to_instance'[d] = ed_to_instance[d]
         /\ Instances' = Instances \cup {e.ed}
         /\ e.flow \in Flows /\ e.name \in Names
<1>1. /\ e \in Pending /\ ed_to_instance[e.ed] = NoInstance
      /\ ed_to_instance' = [ed_to_instance EXCEPT ![e.ed] =
            [name |-> e.name, app |-> e.app, mac |-> e.mac, flow |-> e.flow]]
      /\ ed_to_instance \in [Desc -> Instance \cup {NoInstance}]
  BY DEF Installs, Record, Instantiated, IInv, TypeOK, ElementsOK
<1>2. e.ed \in Desc /\ e.flow \in Flows /\ e.name \in Names /\ e.app \in Apps
  BY <1>1 DEF Pending
<1>3. /\ ed_to_instance'[e.ed] = [name |-> e.name, app |-> e.app, mac |-> e.mac,
                                  flow |-> e.flow]
      /\ \A d \in Desc : d # e.ed => ed_to_instance'[d] = ed_to_instance[d]
  BY <1>1, <1>2
<1>4. ed_to_instance'[e.ed] # NoInstance
  <2>1. ed_to_instance'[e.ed].app = e.app /\ NoInstance.app = 0 /\ e.app # 0
    BY <1>2, <1>3 DEF NoInstance, Apps
  <2>. QED
    BY <2>1
<1>. QED
  BY <1>1, <1>2, <1>3, <1>4 DEF Instances

LEMMA ListedFacts ==
  ASSUME NEW names \in Seq(Names), NEW name \in Names,
         \A i, j \in 1..Len(names) : names[i] = names[j] => i = j
  PROVE  /\ \A i \in 1..Len(names) : /\ i \in 1..Len(Listed(names, name))
                                      /\ Listed(names, name)[i] = names[i]
         /\ \E i \in 1..Len(Listed(names, name)) : Listed(names, name)[i] = name
         /\ \A i, j \in 1..Len(Listed(names, name)) :
              Listed(names, name)[i] = Listed(names, name)[j] => i = j
<1>1. CASE \E i \in 1..Len(names) : names[i] = name
  BY <1>1 DEF Listed
<1>2. CASE ~\E i \in 1..Len(names) : names[i] = name
  <2>. DEFINE l == Append(names, name)
  <2>1. /\ Listed(names, name) = l /\ Len(names) \in Nat
        /\ Len(l) = Len(names) + 1 /\ l[Len(names) + 1] = name
        /\ \A i \in 1..Len(names) : l[i] = names[i]
    BY <1>2 DEF Listed
  <2>. HIDE DEF l
  <2>2. Len(names) + 1 \in 1..Len(l) /\ \A i \in 1..Len(names) : i \in 1..Len(l)
    BY <2>1
  <2>3. \A i \in 1..Len(l) : i \in 1..Len(names) \/ i = Len(names) + 1
    BY <2>1
  <2>4. \A i, j \in 1..Len(l) : l[i] = l[j] => i = j
    BY <1>2, <2>1, <2>3
  <2>. QED
    BY <2>1, <2>2, <2>4
<1>. QED
  BY <1>1, <1>2

(* Every instance is listed by its name under its flow space, where        *)
(* steering looks for it, and no name is listed twice.                     *)
THEOREM NamesAreListed == Spec => []NamesListed
<1>1. Init => NamesListed
  <2>1. Len(<<>>) = 0 /\ 1..0 = {}
    OBVIOUS
  <2>. QED
    BY <2>1 DEF Init, NamesListed, Instances
<1>2. IInv /\ NamesListed /\ [Next]_vars => NamesListed'
  <2>. SUFFICES ASSUME IInv, NamesListed, [Next]_vars PROVE NamesListed'
    OBVIOUS
  <2>1. CASE UNCHANGED <<ed_to_instance, flow_names>>
    BY <2>1 DEF NamesListed, Instances
  <2>2. CASE UNCHANGED flow_names /\ \E ed \in Desc : ed_to_instance' = Forgotten(ed)
    <3>1. \A d \in Instances' : d \in Instances /\ ed_to_instance'[d] = ed_to_instance[d]
      BY <2>2 DEF Forgotten, Instances, IInv, TypeOK, ElementsOK
    <3>. QED
      BY <2>2, <3>1 DEF NamesListed
  <2>3. CASE Installs(Head(ctl.chain)) /\ Record(Head(ctl.chain))
    <3>. DEFINE e == Head(ctl.chain)
    <3>. HIDE DEF e
    <3>1. /\ e.ed \in Desc
          /\ ed_to_instance'[e.ed] = [name |-> e.name, app |-> e.app, mac |-> e.mac,
                                      flow |-> e.flow]
          /\ \A d \in Desc : d # e.ed => ed_to_instance'[d] = ed_to_instance[d]
          /\ Instances' = Instances \cup {e.ed}
          /\ e.flow \in Flows /\ e.name \in Names
      BY <2>3, Recorded DEF e
    <3>2. flow_names \in [Flows -> Seq(Names)]
      BY DEF IInv, TypeOK, ElementsOK
    <3>3. /\ \A f \in Flows : f # e.flow => flow_names'[f] = flow_names[f]
          /\ flow_names'[e.flow] = Listed(flow_names[e.flow], e.name)
      BY <2>3, <3>1, <3>2 DEF Record, e
    <3>4. \A f \in Flows : \A i, j \in 1..Len(flow_names[f]) :
            flow_names[f][i] = flow_names[f][j] => i = j
      BY DEF NamesListed
    <3>5. /\ \A i \in 1..Len(flow_names[e.flow]) :
               /\ i \in 1..Len(flow_names'[e.flow])
               /\ flow_names'[e.flow][i] = flow_names[e.flow][i]
          /\ \E i \in 1..Len(flow_names'[e.flow]) : flow_names'[e.flow][i] = e.name
          /\ \A i, j \in 1..Len(flow_names'[e.flow]) :
               flow_names'[e.flow][i] = flow_names'[e.flow][j] => i = j
      <4>1. /\ flow_names[e.flow] \in Seq(Names)
            /\ \A i, j \in 1..Len(flow_names[e.flow]) :
                 flow_names[e.flow][i] = flow_names[e.flow][j] => i = j
        BY <3>1, <3>2, <3>4
      <4>. DEFINE names == flow_names[e.flow]
      <4>. HIDE DEF names
      <4>2. /\ \A i \in 1..Len(names) : /\ i \in 1..Len(Listed(names, e.name))
                                         /\ Listed(names, e.name)[i] = names[i]
            /\ \E i \in 1..Len(Listed(names, e.name)) : Listed(names, e.name)[i] = e.name
            /\ \A i, j \in 1..Len(Listed(names, e.name)) :
                 Listed(names, e.name)[i] = Listed(names, e.name)[j] => i = j
        BY <3>1, <4>1, ListedFacts DEF names
      <4>. QED
        BY <3>3, <4>2 DEF names
    <3>6. \A d \in Instances : d \in Desc /\ ed_to_instance[d].flow \in Flows
      BY DEF Instances, IInv, TypeOK, ElementsOK, Instance
    <3>7. ASSUME NEW d \in Instances'
          PROVE  \E i \in 1..Len(flow_names'[ed_to_instance'[d].flow]) :
                   flow_names'[ed_to_instance'[d].flow][i] = ed_to_instance'[d].name
      <4>1. CASE d = e.ed
        BY <3>1, <3>5, <4>1
      <4>2. CASE d # e.ed
        <5>1. d \in Instances /\ ed_to_instance'[d] = ed_to_instance[d]
          BY <3>1, <3>6, <3>7, <4>2
        <5>2. \E i \in 1..Len(flow_names[ed_to_instance[d].flow]) :
                flow_names[ed_to_instance[d].flow][i] = ed_to_instance[d].name
          BY <5>1 DEF NamesListed
        <5>. QED
          BY <3>3, <3>5, <3>6, <5>1, <5>2
      <4>. QED
        BY <4>1, <4>2
    <3>8. \A f \in Flows : \A i, j \in 1..Len(flow_names'[f]) :
            flow_names'[f][i] = flow_names'[f][j] => i = j
      BY <3>3, <3>4, <3>5
    <3>. QED
      BY <3>7, <3>8 DEF NamesListed
  <2>. QED
    BY <2>1, <2>2, <2>3, InstanceSteps
<1>. QED
  BY <1>1, <1>2, Inductive, PTL DEF Spec

-----------------------------------------------------------------------------
(* Redirection.                                                            *)

\* steer_traffic, for an instance and another descriptor.
Steers ==
  \E old_ed \in Instances, new_ed \in Desc :
    /\ old_ed # new_ed
    /\ elem_migration' = [elem_migration EXCEPT ![old_ed] = new_ed]
    /\ migrating_flows' =
         [migrating_flows EXCEPT ![ed_to_instance[old_ed].flow] = old_ed]
    /\ UNCHANGED <<ed_to_instance>> /\ Frontier' >= Frontier

LEMMA LoadSteps ==
  ASSUME IInv, [Next]_vars
  PROVE  \/ UNCHANGED <<elem_migration, migrating_flows>>
         \/ Steers
         \/ \E f \in Flows : FlowRemoved(f)
<1>1. CASE HandleLoaded
  <2>1. Quiet
    BY <1>1, HandleLoadedQuiet
  <2>2. UNCHANGED ed_to_instance /\ Frontier' >= Frontier
    BY <2>1 DEF Quiet, maps
  <2>3. ASSUME NEW a, NEW r, NEW c, ApplyElem(a, r, c)
        PROVE  UNCHANGED <<elem_migration, migrating_flows>>
    BY <2>3 DEF ApplyElem, load
  <2>4. ASSUME NEW old_ed \in Instances, NEW new_ed \in Desc, NEW c,
               SteerTraffic(old_ed, new_ed, c)
        PROVE  Steers \/ UNCHANGED <<elem_migration, migrating_flows>>
    BY <2>2, <2>4 DEF SteerTraffic, Steers, Migrated
  <2>. QED
    BY <1>1, <2>3, <2>4 DEF HandleLoaded, ElemDescs, NotLoaded, Instances, load
<1>2. CASE TimerInit
  BY <1>2 DEF TimerInit, ApplyElem, load
<1>3. CASE TimerTick \/ NetworkTick \/ TimerConfigure \/ InstallNext
  BY <1>3 DEF TimerTick, NetworkTick, TimerConfigure, InstallNext, load
<1>4. CASE \E s \in Socks : ControllerRecv(s)
  BY <1>4 DEF ControllerRecv, Register, HandleTrigger, ApplyElem, load
<1>5. CASE \/ \E a \in Apps, ed \in Desc : RemoveElem(a, ed)
           \/ \E h \in Hosts : HostJoin(h) \/ HostLeave(h) \/ HostMove(h)
           \/ \E f \in Flows : PacketIn(f)
  BY <1>5 DEF RemoveElem, HostJoin, HostLeave, HostMove, PacketIn, load
<1>6. CASE \E m \in Machines :
             ShimStart(m) \/ ShimCrash(m) \/ ShimDecode(m) \/ ShimTrigger(m)
  BY <1>6 DEF ShimStart, ShimCrash, ShimDecode, ShimTrigger, load
<1>7. CASE UNCHANGED vars \/ Breaks
  BY <1>7, BreaksKeeps DEF vars, load
<1>. QED
  BY <1>1, <1>2, <1>3, <1>4, <1>5, <1>6, <1>7 DEF Next, Breaks

\* The frontier never goes back.
LEMMA FrontierGrows == ASSUME IInv, IInv', [Next]_vars PROVE Frontier' >= Frontier
<1>0. Frontier \in Nat /\ Frontier' \in Int
  BY FrontierNat, FrontierNext
<1>1. CASE Quiet \/ Tells
  BY <1>1 DEF Quiet, Tells
<1>2. CASE Registers
  BY <1>2, FrontierSame DEF Registers, ControllerRecv, Register, tasks
<1>3. CASE \E m \in Machines :
             ShimStart(m) \/ ShimCrash(m) \/ ShimDecode(m) \/ ShimTrigger(m)
  BY <1>3, FrontierSame DEF ShimStart, ShimCrash, ShimDecode, ShimTrigger, elements,
     tasks
<1>4. CASE \E a \in Apps, ed \in Desc : RemoveElem(a, ed)
  BY <1>4, FrontierSame DEF RemoveElem, tasks
<1>5. CASE Installs(Head(ctl.chain))
  <2>. DEFINE d == Head(ctl.chain).ed
  <2>1. d \in Int /\ d = Frontier + 1 /\ Frontier' >= d
    BY <1>0, <1>5 DEF Installs
  <2>. HIDE DEF d
  <2>2. Frontier' >= Frontier + 1
    BY <2>1
  <2>. QED
    BY <1>0, <2>2
<1>6. CASE InstallNext
  BY <1>1, <1>5, <1>6, InstallFoot
<1>. QED
  BY <1>1, <1>2, <1>3, <1>4, <1>6, Footprint

(* A descriptor that is not among those to come keeps its flow space.      *)
LEMMA FlowKept ==
  ASSUME IInv, [Next]_vars, NEW d \in Desc, d <= Frontier, d \in Instances'
  PROVE  d \in Instances /\ ed_to_instance'[d] = ed_to_instance[d]
<1>1. CASE UNCHANGED ed_to_instance
  BY <1>1 DEF Instances
<1>2. CASE \E ed \in Desc : ed_to_instance' = Forgotten(ed)
  BY <1>2 DEF Forgotten, Instances, IInv, TypeOK, ElementsOK
<1>3. CASE Installs(Head(ctl.chain)) /\ Record(Head(ctl.chain))
  <2>. DEFINE e == Head(ctl.chain)
  <2>. HIDE DEF e
  <2>1. /\ \A x \in Desc : x # e.ed => ed_to_instance'[x] = ed_to_instance[x]
        /\ Instances' = Instances \cup {e.ed}
    BY <1>3, Recorded DEF e
  <2>2. e.ed = Frontier + 1
    BY <1>3 DEF Installs, e
  <2>3. d # e.ed
    BY <2>2, FrontierNat, SessionTypes
  <2>. QED
    BY <2>1, <2>3
<1>. QED
  BY <1>1, <1>2, <1>3, InstanceSteps

(* A flow space that is being redirected has a migration to end, from a    *)
(* descriptor that no other flow space is redirected from.                 *)
THEOREM MigrationsTracked == Spec => []MigrationTracked
<1>. DEFINE Inv == MigrationTracked /\ Redirected
<1>1. Init => Inv
  BY DEF Init, MigrationTracked, Redirected
<1>2. IInv /\ IInv' /\ Inv /\ [Next]_vars => Inv'
  <2>. SUFFICES ASSUME IInv, IInv', Inv, [Next]_vars PROVE Inv'
    OBVIOUS
  <2>1. /\ Frontier \in Nat /\ Frontier' \in Int /\ Frontier' >= Frontier
        /\ \A x \in Nat : x <= Frontier => x <= Frontier'
        /\ \A x \in Desc : x \in Nat
    BY FrontierNat, FrontierNext, FrontierGrows, SessionTypes
  <2>2. /\ elem_migration \in [Desc -> 0..MaxDesc]
        /\ migrating_flows \in [Flows -> 0..MaxDesc]
    BY DEF IInv, TypeOK, LoadOK
  <2>3. \A f \in Flows : migrating_flows[f] # 0 => migrating_flows[f] \in Desc
    BY <2>2 DEF Desc
  <2>4. \A f \in Flows : migrating_flows[f] # 0 =>
          /\ migrating_flows[f] <= Frontier
          /\ migrating_flows[f] <= Frontier'
          /\ migrating_flows[f] \in Instances' =>
               ed_to_instance'[migrating_flows[f]].flow = f
          /\ \A g \in Flows : migrating_flows[g] = migrating_flows[f] => f = g
    <3>. SUFFICES ASSUME NEW f \in Flows, migrating_flows[f] # 0
         PROVE  /\ migrating_flows[f] <= Frontier
                /\ migrating_flows[f] <= Frontier'
                /\ migrating_flows[f] \in Instances' =>
                     ed_to_instance'[migrating_flows[f]].flow = f
                /\ \A g \in Flows : migrating_flows[g] = migrating_flows[f] => f = g
      OBVIOUS
    <3>1. /\ migrating_flows[f] <= Frontier
          /\ migrating_flows[f] \in Instances =>
               ed_to_instance[migrating_flows[f]].flow = f
          /\ \A g \in Flows : migrating_flows[g] = migrating_flows[f] => f = g
      BY DEF Redirected
    <3>. QED
      BY <2>1, <2>3, <3>1, FlowKept
  <2>5. CASE UNCHANGED <<elem_migration, migrating_flows>>
    BY <2>4, <2>5 DEF MigrationTracked, Redirected
  <2>6. CASE \E f \in Flows : FlowRemoved(f)
    <3>1. PICK f \in Flows :
            /\ migrating_flows[f] # 0
            /\ elem_migration' = [elem_migration EXCEPT ![migrating_flows[f]] = 0]
            /\ migrating_flows' = [migrating_flows EXCEPT ![f] = 0]
      BY <2>6 DEF FlowRemoved
    <3>2. /\ migrating_flows'[f] = 0
          /\ \A g \in Flows : g # f => migrating_flows'[g] = migrating_flows[g]
          /\ \A d \in Desc : d # migrating_flows[f] =>
               elem_migration'[d] = elem_migration[d]
      BY <2>2, <3>1
    <3>3. \A g \in Flows : g # f /\ migrating_flows[g] # 0 =>
            migrating_flows[g] # migrating_flows[f]
      BY <2>4
    <3>. QED
      BY <2>3, <2>4, <3>2, <3>3 DEF MigrationTracked, Redirected
  <2>7. CASE Steers
    <3>1. PICK old_ed \in Instances, new_ed \in Desc :
            /\ old_ed # new_ed
            /\ elem_migration' = [elem_migration EXCEPT ![old_ed] = new_ed]
            /\ migrating_flows' =
                 [migrating_flows EXCEPT ![ed_to_instance[old_ed].flow] = old_ed]
            /\ UNCHANGED <<ed_to_instance>>
      BY <2>7 DEF Steers
    <3>. DEFINE f == ed_to_instance[old_ed].flow
    <3>2. old_ed \in Desc /\ f \in Flows
      BY DEF Instances, IInv, TypeOK, ElementsOK, Instance
    <3>3. /\ migrating_flows'[f] = old_ed
          /\ \A g \in Flows : g # f => migrating_flows'[g] = migrating_flows[g]
          /\ elem_migration'[old_ed] = new_ed
          /\ \A d \in Desc : d # old_ed => elem_migration'[d] = elem_migration[d]
      BY <2>2, <3>1, <3>2
    <3>4. old_ed <= Frontier /\ old_ed <= Frontier'
      <4>1. ~(old_ed > Frontier)
        BY <3>2 DEF IInv, Unused, Instances, Frontier
      <4>. QED
        BY <2>1, <3>2, <4>1
    <3>5. \A g \in Flows : migrating_flows[g] # 0 /\ migrating_flows[g] = old_ed => g = f
      BY DEF Redirected
    <3>6. new_ed # 0 /\ old_ed # 0
      BY <3>2 DEF Desc
    <3>. HIDE DEF f
    <3>7. MigrationTracked'
      BY <2>3, <3>1, <3>3, <3>6 DEF MigrationTracked
    <3>8. Redirected'
      <4>1. ed_to_instance'[old_ed].flow = f
        BY <3>1 DEF f
      <4>2. \A g \in Flows : g # f /\ migrating_flows'[g] # 0 => migrating_flows'[g] # old_ed
        BY <3>3, <3>5
      <4>. QED
        BY <2>4, <3>3, <3>4, <3>6, <4>1, <4>2 DEF Redirected
    <3>. QED
      BY <3>7, <3>8
  <2>. QED
    BY <2>5, <2>6, <2>7, LoadSteps
<1>3. Inv => MigrationTracked
  OBVIOUS
<1>. QED
  BY <1>1, <1>2, <1>3, Inductive, PTL DEF Spec

-----------------------------------------------------------------------------
(* init() of the applications.                                             *)
LEMMA DoneStays ==
  ASSUME IInv, [Next]_vars, Removers = {}, NEW a, NEW q, NEW i, Done(a, q, i)
  PROVE  Done(a, q, i)'
<1>1. PICK ed \in Instances :
        /\ ed_to_instance[ed].app = a
        /\ ed_to_instance[ed].flow = Requests[a][q].flow
        /\ ed_to_instance[ed].name = Requests[a][q].names[i]
  BY DEF Done
<1>2. ed \in Instances' /\ ed_to_instance'[ed] = ed_to_instance[ed]
  <2>1. CASE UNCHANGED ed_to_instance
    BY <2>1 DEF Instances
  <2>2. CASE Installs(Head(ctl.chain)) /\ Record(Head(ctl.chain))
    <3>1. /\ Instances' = Instances \cup {Head(ctl.chain).ed}
          /\ ed_to_instance[Head(ctl.chain).ed] = NoInstance
          /\ \A d \in Desc : d # Head(ctl.chain).ed =>
               ed_to_instance'[d] = ed_to_instance[d]
      BY <2>2, Recorded
    <3>. QED
      BY <3>1 DEF Instances
  <2>. QED
    BY <2>1, <2>2, InstanceSteps
<1>. QED
  BY <1>1, <1>2 DEF Done

LEMMA CompleteStays ==
  ASSUME IInv, [Next]_vars, Removers = {}, InstalledComplete, UNCHANGED app_ed
  PROVE  InstalledComplete'
<1>1. \A a \in Apps : app_ed[a] # 0 =>
        \A q \in 1..Len(Requests[a]) : \A i \in 1..Len(Requests[a][q].names) :
          Done(a, q, i)
  BY DEF InstalledComplete, Done
<1>2. \A a \in Apps : app_ed'[a] # 0 =>
        \A q \in 1..Len(Requests[a]) : \A i \in 1..Len(Requests[a][q].names) :
          Done(a, q, i)'
  BY <1>1, DoneStays
<1>. QED
  BY <1>2 DEF InstalledComplete, Done

\* A step that does not go on with an init().
LEMMA InitElsewhere ==
  ASSUME IInv, [Next]_vars, InitInv, UNCHANGED app_ed, TaskAtWork',
         ctl'.task = Timer /\ ctl'.pc \in {"init", "install"} =>
           ctl'.pc = "init" /\ ctl'.req = 1
  PROVE  InitInv'
<1>. SUFFICES ASSUME Removers = {}
              PROVE  InstalledComplete' /\ RequestsDone' /\ RequestBegun'
  BY DEF InitInv
<1>1. InstalledComplete'
  BY CompleteStays DEF InitInv
<1>2. RequestsDone'
  BY DEF RequestsDone
<1>3. RequestBegun'
  BY DEF RequestBegun
<1>. QED
  BY <1>1, <1>2, <1>3

\* A step that leaves the running task where it is.
LEMMA InitSame ==
  ASSUME IInv, [Next]_vars, InitInv, UNCHANGED <<app_ed, ctl>>
  PROVE  InitInv'
<1>0. TaskAtWork'
  BY DEF InitInv, TaskAtWork
<1>. SUFFICES ASSUME Removers = {}
              PROVE  InstalledComplete' /\ RequestsDone' /\ RequestBegun'
  BY <1>0 DEF InitInv
<1>1. InstalledComplete'
  BY CompleteStays DEF InitInv
<1>2. RequestsDone'
  BY DoneStays DEF InitInv, RequestsDone
<1>3. RequestBegun'
  BY DoneStays DEF InitInv, RequestBegun
<1>. QED
  BY <1>1, <1>2, <1>3

LEMMA ReturnedTask ==
  ASSUME NEW c \in Stack, NEW success \in {TRUE, FALSE}
  PROVE  /\ c.task # Timer =>
              ~(Returned(c, success).task = Timer
                  /\ Returned(c, success).pc \in {"init", "install"})
         /\ c.task = Timer =>
              /\ Returned(c, success).pc = "init" /\ Returned(c, success).task = Timer
              /\ Returned(c, success).app = c.app
              /\ Returned(c, success).req = c.req + 1
              /\ Returned(c, success).failed =
                   IF success THEN c.failed ELSE c.failed \cup {c.req}
         /\ Returned(c, success).pc = "init" => Returned(c, success).task = Timer
         /\ Returned(c, success).pc = "loaded" => Returned(c, success).task = Network
<1>0. Idle.pc = "idle"
  BY IdleType
<1>1. CASE c.task = Timer
  <2>. DEFINE f == IF success THEN c.failed ELSE c.failed \cup {c.req}
  <2>1. Returned(c, success) =
          [c EXCEPT !.pc = "init", !.req = c.req + 1, !.failed = f, !.chain = <<>>]
    BY <1>1 DEF Returned
  <2>2. Timer # Network
    BY DEF Timer, Network
  <2>. HIDE DEF f
  <2>3. /\ Returned(c, success).pc = "init" /\ Returned(c, success).task = c.task
        /\ Returned(c, success).app = c.app
        /\ Returned(c, success).req = c.req + 1
        /\ Returned(c, success).failed = f
    BY <2>1 DEF Stack
  <2>. QED
    BY <1>1, <2>3 DEF f
<1>2. CASE c.task # Timer /\ c.task = Network
  <2>1. Returned(c, success) = [c EXCEPT !.pc = "loaded", !.chain = <<>>]
    BY <1>2 DEF Returned
  <2>2. Returned(c, success).pc = "loaded" /\ Returned(c, success).task = Network
    BY <1>2, <2>1 DEF Stack
  <2>. QED
    BY <1>2, <2>2
<1>3. CASE c.task # Timer /\ c.task # Network
  <2>1. Returned(c, success) = Idle
    BY <1>3 DEF Returned
  <2>. QED
    BY <1>0, <1>3, <2>1
<1>. QED
  BY <1>1, <1>2, <1>3

\* A call of apply_elem by another task than the timer's.
LEMMA InitOtherCall ==
  ASSUME IInv, [Next]_vars, InitInv, NEW a \in Apps, NEW r \in Request,
         NEW c \in Stack, c.task # Timer, ApplyElem(a, r, c)
  PROVE  InitInv'
<1>1. UNCHANGED app_ed /\ Calls(a, r, c)
  BY ApplyElemCalls DEF ApplyElem, IInv, TypeOK, ElementsOK
<1>2. CASE ctl' = Returned(c, FALSE)
  BY <1>1, <1>2, ReturnedTask, InitElsewhere DEF TaskAtWork
<1>3. CASE Raise(c.task)
  BY <1>1, <1>3, IdleType, InitElsewhere DEF Raise, TaskAtWork
<1>4. CASE \E macs \in Placements(r.names) :
             ctl' = [c EXCEPT !.pc = "install", !.chain = ChainOf(a, r, macs)]
  <2>1. PICK ch : ctl' = [c EXCEPT !.pc = "install", !.chain = ch]
    BY <1>4
  <2>2. ctl'.pc = "install" /\ ctl'.task = c.task
    BY <2>1 DEF Stack
  <2>. QED
    BY <1>1, <2>2, InitElsewhere DEF TaskAtWork
<1>. QED
  BY <1>1, <1>2, <1>3, <1>4 DEF Calls

\* The requests that count as done are those that did before.
LEMMA SameRequests ==
  ASSUME IInv, [Next]_vars, Removers = {}, RequestsDone,
         ctl.task = Timer, ctl.pc \in {"init", "install"}, ctl'.app = ctl.app,
         \A q \in Nat : q < ctl'.req /\ q \notin ctl'.failed =>
            q < ctl.req /\ q \notin ctl.failed
  PROVE  RequestsDone'
<1>. SUFFICES ASSUME ctl.app \in Apps, NEW q \in 1..Len(Requests[ctl.app]),
                     q < ctl'.req, q \notin ctl'.failed,
                     NEW i \in 1..Len(Requests[ctl.app][q].names)
              PROVE  Done(ctl.app, q, i)'
  BY DEF RequestsDone
<1>1. q < ctl.req /\ q \notin ctl.failed
  BY ConstantsAssumption DEF ConstantsAssumption
<1>2. Done(ctl.app, q, i)
  BY <1>1 DEF RequestsDone
<1>. QED
  BY <1>2, DoneStays

\* A request of init() that fails.
LEMMA InitFails ==
  ASSUME IInv, [Next]_vars, InitInv, UNCHANGED app_ed, NEW c \in Stack,
         ctl.task = Timer, ctl.pc \in {"init", "install"},
         c.task = Timer, c.app = ctl.app, c.req = ctl.req, c.failed = ctl.failed,
         ctl' = Returned(c, FALSE)
  PROVE  InitInv'
<1>1. /\ ctl'.pc = "init" /\ ctl'.task = Timer /\ ctl'.app = ctl.app
      /\ ctl'.req = ctl.req + 1 /\ ctl'.failed = ctl.failed \cup {ctl.req}
  BY ReturnedTask
<1>2. TaskAtWork' /\ RequestBegun'
  BY <1>1 DEF TaskAtWork, RequestBegun
<1>. SUFFICES ASSUME Removers = {} PROVE InstalledComplete' /\ RequestsDone'
  BY <1>2 DEF InitInv
<1>3. InstalledComplete'
  BY CompleteStays DEF InitInv
<1>4. ctl.req \in Nat
  BY DEF IInv, TypeOK, TasksOK, Stack
<1>5. \A q \in Nat : q < ctl'.req /\ q \notin ctl'.failed =>
         q < ctl.req /\ q \notin ctl.failed
  <2>. TAKE q \in Nat
  <2>1. q < ctl.req + 1 /\ q # ctl.req => q < ctl.req
    BY <1>4
  <2>. QED
    BY <1>1, <2>1
<1>6. RequestsDone'
  BY <1>1, <1>5, SameRequests DEF InitInv
<1>. QED
  BY <1>3, <1>6

\* The chain of a request, element by element.
LEMMA ChainOfEach ==
  ASSUME NEW a, NEW r, NEW macs, NEW n \in Nat, n = Len(r.names)
  PROVE  /\ Len(ChainOf(a, r, macs)) = n
         /\ \A k \in 1..n : /\ ChainOf(a, r, macs)[k].app = a
                            /\ ChainOf(a, r, macs)[k].flow = r.flow
                            /\ ChainOf(a, r, macs)[k].name = r.names[k]
                            /\ ChainOf(a, r, macs)[k].mac = macs[k]
<1>1. ChainOf(a, r, macs) =
        [i \in 1..n |-> [name |-> r.names[i], app |-> a, mac |-> macs[i],
                         flow |-> r.flow, ed |-> latest + i]]
  BY DEF ChainOf
<1>2. PICK ch : ch = ChainOf(a, r, macs)
  OBVIOUS
<1>3. DOMAIN ch = 1..n
  BY <1>1, <1>2
<1>4. \A k \in 1..n : /\ ch[k].app = a /\ ch[k].flow = r.flow
                      /\ ch[k].name = r.names[k] /\ ch[k].mac = macs[k]
  BY <1>1, <1>2
<1>5. Len(ch) = n
  <2>1. PICK S : S = {ch[k] : k \in 1..n}
    OBVIOUS
  <2>2. ch = [k \in 1..n |-> ch[k]] /\ \A k \in 1..n : ch[k] \in S
    BY <1>1, <1>2, <2>1
  <2>3. ch \in [1..n -> S]
    BY <2>2
  <2>4. ch \in Seq(S)
    BY <2>3
  <2>. QED
    BY <1>3, <2>4
<1>. QED
  BY <1>2, <1>4, <1>5

LEMMA InitTimerCall ==
  ASSUME IInv, [Next]_vars, InitInv, ctl.pc = "init", NEW c \in Stack,
         c.task = Timer, c.app = ctl.app, c.req = ctl.req, c.failed = ctl.failed,
         ctl.app \in Apps, ctl.req \in 1..Len(Requests[ctl.app]),
         ApplyElem(ctl.app, Requests[ctl.app][ctl.req], c)
  PROVE  InitInv'
<1>. DEFINE a == ctl.app
            r == Requests[a][ctl.req]
<1>0. r \in Request
  BY ConstantsAssumption DEF ConstantsAssumption
<1>1. UNCHANGED app_ed /\ Calls(a, r, c)
  BY <1>0, ApplyElemCalls DEF ApplyElem, IInv, TypeOK, ElementsOK
<1>2. ctl.task = Timer
  BY DEF InitInv, TaskAtWork
<1>3. CASE ctl' = Returned(c, FALSE)
  BY <1>1, <1>2, <1>3, InitFails
<1>4. CASE Raise(c.task)
  BY <1>1, <1>4, IdleType, InitElsewhere DEF Raise, TaskAtWork
<1>5. ASSUME NEW macs \in Placements(r.names),
             ctl' = [c EXCEPT !.pc = "install", !.chain = ChainOf(a, r, macs)]
      PROVE  InitInv'
  <2>. DEFINE ch == ChainOf(a, r, macs)
              n == Len(r.names)
  <2>1. n \in Nat /\ r.names \in Seq(Names)
    BY <1>0 DEF Request
  <2>2. /\ Len(ch) = n
        /\ \A k \in 1..n : /\ ch[k].app = a /\ ch[k].flow = r.flow
                           /\ ch[k].name = r.names[k]
    BY <2>1, ChainOfEach, SMTT(30)
  <2>. HIDE DEF r, n
  <2>3. ctl' = [c EXCEPT !.pc = "install", !.chain = ch]
    BY <1>5
  <2>. HIDE DEF ch
  <2>4. /\ ctl'.pc = "install" /\ ctl'.task = Timer /\ ctl'.app = ctl.app
        /\ ctl'.req = ctl.req /\ ctl'.failed = ctl.failed /\ ctl'.chain = ch
    BY <2>3 DEF Stack
  <2>. SUFFICES ASSUME Removers = {}
                PROVE  InstalledComplete' /\ RequestsDone' /\ RequestBegun'
    BY <2>4 DEF InitInv, TaskAtWork
  <2>5. InstalledComplete'
    BY <1>1, CompleteStays DEF InitInv
  <2>6. RequestsDone'
    BY <1>2, <2>4, SameRequests DEF InitInv
  <2>7. RequestBegun'
    <3>1. n - Len(ch) = 0 /\ 1..0 = {}
      BY <2>1, <2>2
    <3>2. \A k \in 1..Len(ch) : 0 + k = k
      BY <2>1, <2>2
    <3>. QED
      BY <2>2, <2>4, <3>1, <3>2 DEF RequestBegun, n, r
  <2>. QED
    BY <2>5, <2>6, <2>7
<1>. QED
  BY <1>1, <1>3, <1>4, <1>5 DEF Calls

LEMMA InitTimerInit ==
  ASSUME IInv, [Next]_vars, InitInv, TimerInit
  PROVE  InitInv'
<1>. USE DEF IInv, TypeOK
<1>. DEFINE a == ctl.app
<1>1. ctl.pc = "init" /\ ctl.task = Timer /\ ctl \in Stack
  BY DEF TimerInit, InitInv, TaskAtWork, TasksOK
<1>2. CASE /\ ctl' = [ctl EXCEPT !.pc = "config",
                       !.todo = {ed \in Desc : application_handles[ed] # 0}]
           /\ UNCHANGED app_ed
  <2>1. PICK d : ctl' = [ctl EXCEPT !.pc = "config", !.todo = d]
    BY <1>2
  <2>2. ctl'.pc = "config"
    BY <1>1, <2>1 DEF Stack
  <2>. QED
    BY <1>2, <2>2, InitElsewhere DEF TaskAtWork
<1>3. ASSUME ctl' = NextApp(ctl) PROVE ctl'.pc = "init" /\ ctl'.task = Timer /\ ctl'.req = 1
  BY <1>1, <1>3 DEF Stack, NextApp
<1>4. CASE ctl' = NextApp(ctl) /\ UNCHANGED app_ed
  BY <1>3, <1>4, InitElsewhere DEF TaskAtWork
<1>5. CASE /\ a \in Apps /\ ctl.req > Len(Requests[a])
           /\ app_ed' = [app_ed EXCEPT ![a] = IF ctl.failed = {} THEN ctl.first ELSE 0]
           /\ ctl' = NextApp(ctl)
  <2>1. TaskAtWork' /\ RequestsDone' /\ RequestBegun'
    <3>1. ctl'.pc = "init" /\ ctl'.task = Timer /\ ctl'.req = 1
      BY <1>3, <1>5
    <3>2. TaskAtWork' /\ RequestBegun'
      BY <3>1 DEF TaskAtWork, RequestBegun
    <3>3. RequestsDone'
      BY <3>1 DEF RequestsDone
    <3>. QED
      BY <3>2, <3>3
  <2>. SUFFICES ASSUME Removers = {} PROVE InstalledComplete'
    BY <2>1 DEF InitInv
  <2>. SUFFICES ASSUME NEW b \in Apps, app_ed'[b] # 0,
                       NEW q \in 1..Len(Requests[b]),
                       NEW i \in 1..Len(Requests[b][q].names)
                PROVE  Done(b, q, i)'
    BY DEF InstalledComplete, Done
  <2>2. Done(b, q, i)
    <3>1. CASE b # a
      <4>1. app_ed[b] # 0
        BY <1>5, <3>1 DEF PolicyOK
      <4>. QED
        BY <4>1 DEF InitInv, InstalledComplete, Done
    <3>2. CASE b = a
      <4>1. ctl.failed = {}
        BY <1>5, <3>2 DEF PolicyOK
      <4>2. Len(Requests[a]) \in Nat /\ ctl.req \in Nat
        BY <1>1, <1>5, ConstantsAssumption DEF ConstantsAssumption, Stack
      <4>3. q < ctl.req
        BY <1>5, <3>2, <4>2
      <4>. QED
        BY <1>1, <1>5, <3>2, <4>1, <4>3 DEF InitInv, RequestsDone
    <3>. QED
      BY <3>1, <3>2
  <2>. QED
    BY <2>2, DoneStays
<1>6. ASSUME a \in Apps, ctl.req \in 1..Len(Requests[a]),
             ApplyElem(a, Requests[a][ctl.req],
                       IF ctl.req = 1 THEN [ctl EXCEPT !.first = latest + 1]
                                      ELSE ctl)
      PROVE  InitInv'
  <2>1. CASE ctl.req # 1
    BY <1>1, <1>6, <2>1, InitTimerCall
  <2>2. CASE ctl.req = 1
    <3>. DEFINE c == [ctl EXCEPT !.first = latest + 1]
    <3>1. latest + 1 \in Nat
      BY DEF ElementsOK
    <3>2. /\ c \in Stack /\ c.task = ctl.task /\ c.app = ctl.app
          /\ c.req = ctl.req /\ c.failed = ctl.failed
      BY <1>1, <3>1 DEF Stack
    <3>3. ApplyElem(a, Requests[a][ctl.req], c)
      BY <1>6, <2>2
    <3>. HIDE DEF c
    <3>. QED
      BY <1>1, <1>6, <3>2, <3>3, InitTimerCall
  <2>. QED
    BY <2>1, <2>2
<1>. QED
  BY <1>2, <1>4, <1>5, <1>6 DEF TimerInit, policy

\* A turn of the loop of apply_elem in an init().
LEMMA InitInstalled ==
  ASSUME IInv, [Next]_vars, InitInv, ctl.pc = "install", ctl.task = Timer,
         UNCHANGED app_ed, Installs(Head(ctl.chain)), Record(Head(ctl.chain)),
         ctl' = IF Tail(ctl.chain) = <<>> THEN Returned(ctl, TRUE)
                ELSE [ctl EXCEPT !.chain = Tail(ctl.chain)]
  PROVE  InitInv'
<1>1. PICK ch, rest : ch = ctl.chain /\ rest = Tail(ctl.chain)
  OBVIOUS
<1>2. ctl \in Stack /\ ch \in Seq(Pending) /\ ch # <<>>
  BY <1>1 DEF IInv, TypeOK, TasksOK, Stack, Unused
<1>11. /\ Len(ch) \in Nat /\ Len(ch) # 0 /\ Head(ch) = ch[1] /\ Len(rest) = Len(ch) - 1
       /\ \A k \in 1..Len(rest) : rest[k] = ch[k + 1]
  <2>1. /\ Len(ch) \in Nat /\ Len(ch) # 0 /\ Head(ch) = ch[1]
        /\ Len(Tail(ch)) = Len(ch) - 1
        /\ \A k \in 1..Len(Tail(ch)) : Tail(ch)[k] = ch[k + 1]
    BY <1>2
  <2>. QED
    BY <1>1, <2>1
<1>12. 1 \in 1..Len(ch) /\ (rest = <<>> => Len(ch) = 1)
  <2>1. Len(<<>>) = 0
    OBVIOUS
  <2>2. rest = <<>> => Len(rest) = 0
    BY <2>1
  <2>. QED
    BY <1>11, <2>2
<1>3. TaskAtWork'
  <2>1. CASE rest = <<>>
    BY <1>1, <1>2, <2>1, ReturnedTask DEF TaskAtWork
  <2>2. CASE rest # <<>>
    BY <1>1, <1>2, <2>2 DEF TaskAtWork, Stack
  <2>. QED
    BY <2>1, <2>2
<1>. SUFFICES ASSUME Removers = {}
              PROVE  InstalledComplete' /\ RequestsDone' /\ RequestBegun'
  BY <1>3 DEF InitInv
<1>4. InstalledComplete'
  BY CompleteStays DEF InitInv
<1>0. PICK a, rq, n :
        a = ctl.app /\ rq = ctl.req /\ n = Len(Requests[a][rq].names) - Len(ch)
  OBVIOUS
<1>. DEFINE r == Requests[a][rq]
<1>5. /\ a \in Apps /\ rq \in 1..Len(Requests[a]) /\ n >= 0
      /\ \A i \in 1..n : Done(a, rq, i)
      /\ \A k \in 1..Len(ch) : /\ ch[k].app = a /\ ch[k].flow = r.flow
                               /\ ch[k].name = r.names[n + k]
  BY <1>0, <1>1 DEF InitInv, RequestBegun
<1>6. Len(r.names) \in Nat /\ rq \in Nat /\ n \in Nat
  <2>1. r \in Request
    BY <1>5, ConstantsAssumption DEF ConstantsAssumption
  <2>2. Len(r.names) \in Nat
    BY <2>1 DEF Request
  <2>. QED
    BY <1>0, <1>11, <1>5, <2>2
<1>. HIDE DEF r
<1>7. Done(a, rq, n + 1)'
  <2>. DEFINE e == Head(ch)
  <2>1. e.app = a /\ e.flow = r.flow /\ e.name = r.names[n + 1]
    BY <1>5, <1>11, <1>12
  <2>2. /\ ed_to_instance'[e.ed] = [name |-> e.name, app |-> e.app, mac |-> e.mac,
                                    flow |-> e.flow]
        /\ e.ed \in Instances'
    BY <1>1, Recorded
  <2>3. PICK d : d = e.ed
    OBVIOUS
  <2>. HIDE DEF e
  <2>4. /\ d \in Instances' /\ ed_to_instance'[d].app = a
        /\ ed_to_instance'[d].flow = r.flow /\ ed_to_instance'[d].name = r.names[n + 1]
    BY <2>1, <2>2, <2>3
  <2>. QED
    BY <2>4 DEF Done, r
<1>8. \A i \in 1..(n + 1) : Done(a, rq, i)'
  <2>1. \A i \in 1..(n + 1) : i \in 1..n \/ i = n + 1
    BY <1>6
  <2>2. \A i \in 1..n : Done(a, rq, i)'
    BY <1>5, DoneStays
  <2>. QED
    BY <1>7, <2>1, <2>2
<1>9. CASE rest = <<>>
  <2>1. /\ ctl'.pc = "init" /\ ctl'.task = Timer /\ ctl'.app = a
        /\ ctl'.req = rq + 1 /\ ctl'.failed = ctl.failed
    BY <1>0, <1>1, <1>2, <1>9, ReturnedTask
  <2>2. RequestBegun'
    BY <2>1 DEF RequestBegun
  <2>3. RequestsDone'
    <3>. SUFFICES ASSUME NEW q \in 1..Len(Requests[a]), q < rq + 1,
                         q \notin ctl.failed, NEW i \in 1..Len(Requests[a][q].names)
                  PROVE  Done(a, q, i)'
      BY <2>1 DEF RequestsDone
    <3>1. CASE q = rq
      <4>1. n + 1 = Len(r.names)
        <5>1. Len(ch) = 1
          BY <1>9, <1>12
        <5>2. n = Len(r.names) - 1
          BY <1>0, <5>1 DEF r
        <5>. QED
          BY <1>6, <5>2
      <4>. QED
        BY <1>8, <3>1, <4>1 DEF r
    <3>2. CASE q # rq
      <4>1. q < rq
        BY <1>6, <3>2
      <4>2. Done(a, q, i)
        BY <1>0, <1>5, <4>1 DEF InitInv, RequestsDone
      <4>. QED
        BY <4>2, DoneStays
    <3>. QED
      BY <3>1, <3>2
  <2>. QED
    BY <1>4, <2>2, <2>3
<1>10. CASE rest # <<>>
  <2>1. /\ ctl'.pc = "install" /\ ctl'.task = Timer /\ ctl'.app = a
        /\ ctl'.req = rq /\ ctl'.failed = ctl.failed /\ ctl'.chain = rest
    BY <1>0, <1>1, <1>2, <1>10 DEF Stack
  <2>2. RequestsDone'
    BY <1>0, <2>1, SameRequests DEF InitInv
  <2>3. Len(r.names) - Len(rest) = n + 1 /\ n + 1 >= 0
    BY <1>0, <1>6, <1>11 DEF r
  <2>4. \A k \in 1..Len(rest) : /\ rest[k].app = a /\ rest[k].flow = r.flow
                                /\ rest[k].name = r.names[(n + 1) + k]
    <3>. TAKE k \in 1..Len(rest)
    <3>1. k + 1 \in 1..Len(ch) /\ rest[k] = ch[k + 1] /\ n + (k + 1) = (n + 1) + k
      BY <1>6, <1>11
    <3>. QED
      BY <1>5, <3>1
  <2>5. RequestBegun'
    <3>1. ctl'.chain = rest /\ Requests[ctl'.app][ctl'.req] = r
      BY <2>1 DEF r
    <3>. QED
      <4>1. \A i \in 1..(n + 1) : Done(ctl.app, ctl.req, i)'
        BY <1>8, <2>1 DEF Done
      <4>2. ctl'.app \in Apps /\ ctl'.req \in 1..Len(Requests[ctl'.app])
        BY <1>5, <2>1
      <4>3. Len(r.names) - Len(ctl'.chain) = n + 1
        BY <2>3, <3>1
      <4>4. \A k \in 1..Len(ctl'.chain) :
              /\ ctl'.chain[k].app = ctl'.app /\ ctl'.chain[k].flow = r.flow
              /\ ctl'.chain[k].name = r.names[(n + 1) + k]
        <5>. TAKE k \in 1..Len(ctl'.chain)
        <5>1. k \in 1..Len(rest) /\ ctl'.chain[k] = rest[k] /\ ctl'.app = a
          BY <2>1, <3>1
        <5>2. rest[k].app = a /\ rest[k].flow = r.flow /\ rest[k].name = r.names[(n + 1) + k]
          BY <2>4, <5>1
        <5>. QED
          BY <5>1, <5>2
      <4>. QED
        BY <2>3, <3>1, <4>1, <4>2, <4>3, <4>4, ZenonT(30) DEF RequestBegun
  <2>. QED
    BY <1>4, <2>2, <2>5
<1>. QED
  BY <1>9, <1>10

LEMMA InitInstallNext ==
  ASSUME IInv, [Next]_vars, InitInv, InstallNext
  PROVE  InitInv'
<1>1. ctl.pc = "install" /\ UNCHANGED app_ed /\ ctl \in Stack
  BY DEF InstallNext, policy, IInv, TypeOK, TasksOK
<1>2. CASE Raise(ctl.task)
  BY <1>1, <1>2, IdleType, InitElsewhere DEF Raise, TaskAtWork
<1>3. CASE ctl' = Returned(ctl, FALSE)
  <2>1. CASE ctl.task = Timer
    BY <1>1, <1>3, <2>1, InitFails
  <2>2. CASE ctl.task # Timer
    BY <1>1, <1>3, <2>2, ReturnedTask, InitElsewhere DEF TaskAtWork
  <2>. QED
    BY <2>1, <2>2
<1>4. CASE /\ Head(ctl.chain).mac # StrKey /\ Record(Head(ctl.chain))
           /\ ctl' = IF Tail(ctl.chain) = <<>> THEN Returned(ctl, TRUE)
                     ELSE [ctl EXCEPT !.chain = Tail(ctl.chain)]
  <2>1. CASE ctl.task # Timer
    <3>1. CASE Tail(ctl.chain) = <<>>
      BY <1>1, <1>4, <2>1, <3>1, ReturnedTask, InitElsewhere DEF TaskAtWork
    <3>2. CASE Tail(ctl.chain) # <<>>
      <4>1. ctl'.pc = "install" /\ ctl'.task = ctl.task
        BY <1>1, <1>4, <3>2 DEF Stack
      <4>. QED
        BY <1>1, <2>1, <4>1, InitElsewhere DEF TaskAtWork
    <3>. QED
      BY <3>1, <3>2
  <2>2. CASE ctl.task = Timer
    <3>1. Installs(Head(ctl.chain))
      <4>1. ASSUME UNCHANGED ed_to_instance PROVE FALSE
        <5>. DEFINE e == Head(ctl.chain)
        <5>1. /\ e \in Pending /\ ed_to_instance[e.ed] = NoInstance
          BY <1>1, HeadUnused DEF IInv
        <5>2. e.ed \in Desc /\ e.app # 0
          BY <5>1 DEF Pending, Apps
        <5>3. ed_to_instance' = [ed_to_instance EXCEPT ![e.ed] =
                [name |-> e.name, app |-> e.app, mac |-> e.mac, flow |-> e.flow]]
          BY <1>4 DEF Record, Instantiated
        <5>. HIDE DEF e
        <5>4. ed_to_instance'[e.ed].app = e.app
          BY <5>2, <5>3 DEF IInv, TypeOK, ElementsOK
        <5>. QED
          BY <4>1, <5>1, <5>2, <5>4 DEF NoInstance
      <4>. QED
        BY <4>1, InstallFoot DEF Quiet, maps
    <3>. QED
      BY <1>1, <1>4, <2>2, <3>1, InitInstalled
  <2>. QED
    BY <2>1, <2>2
<1>. QED
  BY <1>2, <1>3, <1>4 DEF InstallNext, SendRaises

(* An application is marked installed only when every element of every     *)
(* request of its init() is recorded, whichever of its apply_elem calls    *)
(* failed and were made again.                                             *)
THEOREM InstalledIsComplete == Spec => []InstalledComplete
<1>1. Init => InitInv
  <2>. SUFFICES ASSUME Init PROVE InitInv
    OBVIOUS
  <2>1. ctl = Idle /\ Idle.pc = "idle" /\ \A a \in Apps : app_ed[a] = 0
    BY IdleType DEF Init
  <2>. QED
    BY <2>1 DEF InitInv, TaskAtWork, InstalledComplete, RequestsDone, RequestBegun
<1>2. IInv /\ InitInv /\ [Next]_vars => InitInv'
  <2>. SUFFICES ASSUME IInv, InitInv, [Next]_vars PROVE InitInv'
    OBVIOUS
  <2>. USE DEF IInv, TypeOK
  <2>1. CASE TimerInit
    BY <2>1, InitTimerInit
  <2>2. CASE InstallNext
    BY <2>2, InitInstallNext
  <2>3. CASE TimerTick
    <3>1. ctl'.pc = "init" /\ ctl'.task = Timer /\ ctl'.req = 1
      BY <2>3, IdleType DEF TimerTick, Idle
    <3>. QED
      BY <2>3, <3>1, InitElsewhere DEF TimerTick, policy, TaskAtWork
  <2>4. CASE NetworkTick
    <3>1. PICK eds : \/ ctl' = Idle
                     \/ ctl' = [Idle EXCEPT !.pc = "loaded", !.task = Network,
                                            !.todo = eds]
      BY <2>4 DEF NetworkTick
    <3>2. ctl'.pc = "idle" \/ (ctl'.pc = "loaded" /\ ctl'.task = Network)
      BY <3>1, IdleType DEF Stack
    <3>. QED
      BY <2>4, <3>2, InitElsewhere DEF NetworkTick, policy, TaskAtWork
  <2>5. CASE TimerConfigure
    <3>1. ctl \in Stack /\ ctl.pc = "config" /\ UNCHANGED app_ed
      BY <2>5 DEF TasksOK, TimerConfigure, policy
    <3>2. ASSUME NEW t, Raise(t) PROVE ctl'.pc = "idle"
      BY <3>2, IdleType DEF Raise
    <3>3. ctl'.pc = "idle" \/ \E ed \in ctl.todo : ctl' = [ctl EXCEPT !.todo = @ \ {ed}]
      BY <2>5, <3>2, IdleType DEF TimerConfigure, Configure, SendRaises
    <3>4. ctl'.pc \in {"idle", "config"}
      BY <3>1, <3>3 DEF Stack
    <3>. QED
      BY <3>1, <3>4, InitElsewhere DEF TaskAtWork
  <2>6. CASE HandleLoaded
    <3>1. ctl \in Stack /\ ctl.pc = "loaded" /\ ctl.task = Network
      BY <2>6 DEF TasksOK, HandleLoaded, InitInv, TaskAtWork
    <3>2. CASE ctl' = Idle /\ UNCHANGED policy
      BY <3>2, IdleType, InitElsewhere DEF policy, TaskAtWork
    <3>3. ASSUME NEW ed \in ctl.todo, NEW old_ed \in ElemDescs(ed_to_instance[ed].name),
                 NEW c, c = [ctl EXCEPT !.todo = @ \ {ed}],
                 \/ ApplyElem(application_handles[old_ed],
                      [flow |-> ed_to_instance[old_ed].flow,
                       names |-> <<ed_to_instance[old_ed].name>>,
                       params_ok |-> TRUE], c)
                 \/ \E new_ed \in Desc : SteerTraffic(old_ed, new_ed, c)
          PROVE  InitInv'
      <4>1. c \in Stack /\ c.pc = "loaded" /\ c.task = Network /\ c.task # Timer
        BY <3>1, <3>3, SMTT(30) DEF Stack, Timer, Network
      <4>2. CASE \E new_ed \in Desc : SteerTraffic(old_ed, new_ed, c)
        <5>1. UNCHANGED app_ed /\ (ctl' = c \/ ctl' = Idle)
          BY <4>2 DEF SteerTraffic, Raise, policy
        <5>. QED
          BY <4>1, <5>1, IdleType, InitElsewhere DEF TaskAtWork
      <4>3. CASE ApplyElem(application_handles[old_ed],
                   [flow |-> ed_to_instance[old_ed].flow,
                    names |-> <<ed_to_instance[old_ed].name>>,
                    params_ok |-> TRUE], c)
        <5>1. old_ed \in Desc /\ ed_to_instance[old_ed] \in Instance
          BY <3>3 DEF ElemDescs, ElementsOK
        <5>2. application_handles[old_ed] \in Apps
          BY <5>1 DEF OwnersAgree, Instance
        <5>3. <<ed_to_instance[old_ed].name>> \in Seq(Names) \ {<<>>}
          BY <5>1 DEF Instance
        <5>4. [flow |-> ed_to_instance[old_ed].flow,
               names |-> <<ed_to_instance[old_ed].name>>,
               params_ok |-> TRUE] \in Request
          BY <5>1, <5>3 DEF Instance, Request
        <5>. QED
          BY <4>1, <4>3, <5>2, <5>4, InitOtherCall
      <4>. QED
        BY <3>3, <4>2, <4>3
    <3>4. CASE \E ed \in ctl.todo :
                 LET c == [ctl EXCEPT !.todo = @ \ {ed}]
                 IN \E old_ed \in ElemDescs(ed_to_instance[ed].name) :
                      \/ ApplyElem(application_handles[old_ed],
                           [flow |-> ed_to_instance[old_ed].flow,
                            names |-> <<ed_to_instance[old_ed].name>>,
                            params_ok |-> TRUE], c)
                      \/ \E new_ed \in Desc : SteerTraffic(old_ed, new_ed, c)
      BY <3>3, <3>4
    <3>. QED
      BY <2>6, <3>2, <3>4 DEF HandleLoaded, NotLoaded, ElemDescs
  <2>7. ASSUME NEW s \in Socks, ControllerRecv(s) PROVE InitInv'
    <3>1. CASE UNCHANGED <<ctl, app_ed>>
      BY <3>1, InitSame
    <3>2. CASE Raise(s) /\ UNCHANGED policy
      BY <3>2, IdleType, InitElsewhere DEF Raise, policy, TaskAtWork
    <3>3. ASSUME NEW ed, ed = Head(up[s]).ed, ed # 0, HasOwner(ed),
                 NEW r \in TriggerRequest[application_handles[ed]],
                 ApplyElem(application_handles[ed], r, [Idle EXCEPT !.task = s])
          PROVE  InitInv'
      <4>1. ed \in 0..MaxDesc
        <5>1. up[s] \in Seq(UpMsg) /\ up[s] # <<>>
          BY <2>7 DEF ChannelsOK, ControllerRecv
        <5>2. Head(up[s]) \in UpMsg
          BY <5>1
        <5>. QED
          BY <3>3, <5>2 DEF UpMsg
      <4>2. ed \in Desc
        BY <3>3, <4>1, ConstantsAssumption DEF Desc, ConstantsAssumption
      <4>3. application_handles[ed] \in Apps
        <5>1. application_handles[ed] \in 0..NApps
          BY <4>2 DEF ElementsOK
        <5>. QED
          BY <3>3, <5>1, ConstantsAssumption DEF HasOwner, Apps, ConstantsAssumption
      <4>4. r \in Request
        BY <3>3, <4>3, ConstantsAssumption DEF ConstantsAssumption
      <4>5. s \in Tasks /\ s # Timer
        BY ConstantsAssumption DEF Socks, Tasks, Network, Timer, ConstantsAssumption
      <4>6. /\ [Idle EXCEPT !.task = s] \in Stack
            /\ [Idle EXCEPT !.task = s].task = s
        BY <4>5, IdleType DEF Stack
      <4>. QED
        BY <3>3, <4>3, <4>4, <4>5, <4>6, InitOtherCall
    <3>4. CASE Register(s, Head(up[s]).mac)
      BY <3>1, <3>4 DEF Register, tasks, policy
    <3>5. CASE HandleTrigger(s, Head(up[s]).ed)
      BY <3>1, <3>2, <3>3, <3>5 DEF HandleTrigger, tasks, policy
    <3>. QED
      BY <2>7, <3>4, <3>5 DEF ControllerRecv
  <2>8. CASE \/ \E a \in Apps, ed \in Desc : RemoveElem(a, ed)
             \/ \E h \in Hosts : HostJoin(h) \/ HostLeave(h) \/ HostMove(h)
             \/ \E f \in Flows : FlowRemoved(f) \/ PacketIn(f)
    BY <2>8, InitSame DEF RemoveElem, HostJoin, HostLeave, HostMove, FlowRemoved,
       PacketIn, tasks, policy
  <2>9. CASE \E m \in Machines :
               ShimStart(m) \/ ShimCrash(m) \/ ShimDecode(m) \/ ShimTrigger(m)
    BY <2>9, InitSame DEF ShimStart, ShimCrash, ShimDecode, ShimTrigger, tasks, policy
  <2>10. CASE UNCHANGED vars
    BY <2>10, InitSame DEF vars, tasks, policy
  <2>11. CASE Breaks
    <3>1. UNCHANGED app_ed /\ (UNCHANGED ctl \/ ctl' = Idle)
      BY <2>11, BreaksKeeps DEF policy, tasks, Raise
    <3>. QED
      BY <3>1, IdleType, InitSame, InitElsewhere DEF TaskAtWork
  <2>. QED
    BY <2>1, <2>2, <2>3, <2>4, <2>5, <2>6, <2>7, <2>8, <2>9, <2>10, <2>11
       DEF Next, Breaks
<1>3. InitInv => InstalledComplete
  BY DEF InitInv, InstalledComplete
<1>. QED
  BY <1>1, <1>2, <1>3, Inductive, PTL DEF Spec

-----------------------------------------------------------------------------
(* The capacity of machines.                                               *)

\* Who calls apply_elem, and with what.
LEMMA ChainSteps ==
  ASSUME IInv, [Next]_vars, OneAtATime
  PROVE  \/ UNCHANGED ctl \/ ctl'.pc # "install" \/ InstallNext
         \/ /\ UNCHANGED mac_to_elems /\ ctl.pc # "install"
            /\ \E a \in Apps, r \in Request, c \in Stack :
                 ApplyElem(a, r, c) /\ (r.params_ok => Len(r.names) = 1)
<1>. USE DEF IInv, TypeOK
<1>1. ASSUME NEW t, Raise(t) PROVE ctl'.pc # "install"
  BY <1>1, IdleType DEF Raise
<1>2. ASSUME NEW a \in Apps, NEW r \in Request, NEW c \in Stack,
             ApplyElem(a, r, c), r.params_ok => Len(r.names) = 1,
             ctl.pc # "install"
      PROVE  /\ UNCHANGED mac_to_elems /\ ctl.pc # "install"
             /\ \E b \in Apps, x \in Request, d \in Stack :
                  ApplyElem(b, x, d) /\ (x.params_ok => Len(x.names) = 1)
  BY <1>2 DEF ApplyElem
<1>3. CASE TimerInit
  <2>. DEFINE a == ctl.app
  <2>1. ctl.pc = "init" /\ ctl \in Stack /\ ctl.pc # "install"
    BY <1>3 DEF TimerInit, TasksOK
  <2>2. CASE ctl' = [ctl EXCEPT !.pc = "config",
                       !.todo = {ed \in Desc : application_handles[ed] # 0}]
    <3>1. PICK d : ctl' = [ctl EXCEPT !.pc = "config", !.todo = d]
      BY <2>2
    <3>2. ctl'.pc = "config"
      BY <2>1, <3>1 DEF Stack
    <3>. QED
      BY <3>2
  <2>3. CASE ctl' = NextApp(ctl)
    <3>1. ctl'.pc = "init"
      BY <2>1, <2>3 DEF Stack, NextApp
    <3>. QED
      BY <3>1
  <2>4. CASE /\ a \in Apps /\ ctl.req \in 1..Len(Requests[a])
             /\ ApplyElem(a, Requests[a][ctl.req],
                          IF ctl.req = 1 THEN [ctl EXCEPT !.first = latest + 1]
                                         ELSE ctl)
    <3>1. Requests[a][ctl.req] \in Request
      BY <2>4, ConstantsAssumption DEF ConstantsAssumption
    <3>2. latest + 1 \in Nat
      BY DEF ElementsOK
    <3>3. [ctl EXCEPT !.first = latest + 1] \in Stack
      BY <2>1, <3>2 DEF Stack
    <3>4. PICK c \in Stack : ApplyElem(a, Requests[a][ctl.req], c)
      BY <2>1, <2>4, <3>3
    <3>5. Requests[a][ctl.req].params_ok => Len(Requests[a][ctl.req].names) = 1
      BY <2>4 DEF OneAtATime
    <3>. QED
      BY <1>2, <2>1, <2>4, <3>1, <3>4, <3>5
  <2>. QED
    BY <1>3, <2>2, <2>3, <2>4 DEF TimerInit
<1>4. CASE TimerTick \/ NetworkTick
  <2>1. CASE TimerTick
    <3>1. ctl'.pc = "init"
      BY <2>1, IdleType DEF TimerTick, Stack
    <3>. QED
      BY <3>1
  <2>2. CASE NetworkTick
    <3>1. PICK eds : \/ ctl' = Idle
                     \/ ctl' = [Idle EXCEPT !.pc = "loaded", !.task = Network,
                                            !.todo = eds]
      BY <2>2 DEF NetworkTick
    <3>2. ctl'.pc \in {"idle", "loaded"}
      BY <3>1, IdleType DEF Stack
    <3>. QED
      BY <3>2
  <2>. QED
    BY <1>4, <2>1, <2>2
<1>5. CASE TimerConfigure
  <2>1. ctl \in Stack /\ ctl.pc = "config"
    BY <1>5 DEF TasksOK, TimerConfigure
  <2>2. \/ ctl'.pc # "install"
        \/ \E ed \in ctl.todo : ctl' = [ctl EXCEPT !.todo = @ \ {ed}]
    BY <1>1, <1>5, IdleType DEF TimerConfigure, Configure, SendRaises
  <2>3. ctl'.pc # "install"
    BY <2>1, <2>2 DEF Stack
  <2>. QED
    BY <2>3
<1>6. CASE HandleLoaded
  <2>1. ctl \in Stack /\ ctl.pc = "loaded" /\ ctl.pc # "install"
    BY <1>6 DEF TasksOK, HandleLoaded
  <2>2. CASE ctl' = Idle
    BY <2>2, IdleType
  <2>3. ASSUME NEW ed \in ctl.todo, NEW old_ed \in ElemDescs(ed_to_instance[ed].name),
               NEW c, c = [ctl EXCEPT !.todo = @ \ {ed}],
               NEW r, r = [flow |-> ed_to_instance[old_ed].flow,
                           names |-> <<ed_to_instance[old_ed].name>>,
                           params_ok |-> TRUE],
               \/ ApplyElem(application_handles[old_ed], r, c)
               \/ \E new_ed \in Desc : SteerTraffic(old_ed, new_ed, c)
        PROVE  \/ ctl'.pc # "install"
               \/ /\ UNCHANGED mac_to_elems /\ ctl.pc # "install"
                  /\ \E b \in Apps, x \in Request, d \in Stack :
                       ApplyElem(b, x, d) /\ (x.params_ok => Len(x.names) = 1)
    <3>1. c \in Stack /\ c.pc = "loaded"
      BY <2>1, <2>3 DEF Stack
    <3>2. CASE \E new_ed \in Desc : SteerTraffic(old_ed, new_ed, c)
      BY <1>1, <3>1, <3>2 DEF SteerTraffic
    <3>3. CASE ApplyElem(application_handles[old_ed], r, c)
      <4>1. old_ed \in Desc /\ ed_to_instance[old_ed] \in Instance
        BY <2>3 DEF ElemDescs, ElementsOK
      <4>2. application_handles[old_ed] \in Apps
        BY <4>1 DEF OwnersAgree, Instance
      <4>3. <<ed_to_instance[old_ed].name>> \in Seq(Names) \ {<<>>}
        BY <4>1 DEF Instance
      <4>4. r \in Request
        BY <2>3, <4>1, <4>3 DEF Instance, Request
      <4>5. Len(r.names) = 1
        BY <2>3
      <4>. QED
        BY <1>2, <2>1, <3>1, <3>3, <4>2, <4>4, <4>5
    <3>. QED
      BY <2>3, <3>2, <3>3
  <2>4. CASE \E ed \in ctl.todo :
               LET c == [ctl EXCEPT !.todo = @ \ {ed}]
               IN \E old_ed \in ElemDescs(ed_to_instance[ed].name) :
                    \/ ApplyElem(application_handles[old_ed],
                         [flow |-> ed_to_instance[old_ed].flow,
                          names |-> <<ed_to_instance[old_ed].name>>,
                          params_ok |-> TRUE], c)
                    \/ \E new_ed \in Desc : SteerTraffic(old_ed, new_ed, c)
    BY <2>3, <2>4
  <2>. QED
    BY <1>6, <2>2, <2>4 DEF HandleLoaded, NotLoaded, ElemDescs
<1>7. ASSUME NEW s \in Socks, ControllerRecv(s)
      PROVE  \/ UNCHANGED ctl \/ ctl'.pc # "install"
             \/ /\ UNCHANGED mac_to_elems /\ ctl.pc # "install"
                /\ \E b \in Apps, x \in Request, d \in Stack :
                     ApplyElem(b, x, d) /\ (x.params_ok => Len(x.names) = 1)
  <2>1. ASSUME NEW ed, ed = Head(up[s]).ed, ed # 0, HasOwner(ed),
               NEW r \in TriggerRequest[application_handles[ed]],
               ApplyElem(application_handles[ed], r, [Idle EXCEPT !.task = s])
        PROVE  /\ UNCHANGED mac_to_elems /\ ctl.pc # "install"
               /\ \E b \in Apps, x \in Request, d \in Stack :
                    ApplyElem(b, x, d) /\ (x.params_ok => Len(x.names) = 1)
    <3>1. ed \in 0..MaxDesc
      <4>1. up[s] \in Seq(UpMsg) /\ up[s] # <<>>
        BY <1>7 DEF ChannelsOK, ControllerRecv
      <4>2. Head(up[s]) \in UpMsg
        BY <4>1
      <4>. QED
        BY <2>1, <4>2 DEF UpMsg
    <3>2. ed \in Desc
      BY <2>1, <3>1, ConstantsAssumption DEF Desc, ConstantsAssumption
    <3>3. application_handles[ed] \in Apps
      <4>1. application_handles[ed] \in 0..NApps
        BY <3>2 DEF ElementsOK
      <4>. QED
        BY <2>1, <4>1, ConstantsAssumption DEF HasOwner, Apps, ConstantsAssumption
    <3>4. r \in Request /\ (r.params_ok => Len(r.names) = 1)
      BY <2>1, <3>3, ConstantsAssumption DEF ConstantsAssumption, OneAtATime
    <3>5. s \in Tasks
      BY ConstantsAssumption DEF Socks, Tasks, Network, ConstantsAssumption
    <3>6. [Idle EXCEPT !.task = s] \in Stack
      BY <3>5, IdleType DEF Stack
    <3>7. ctl.pc # "install"
      BY <1>7 DEF ControllerRecv, Start
    <3>. QED
      BY <1>2, <2>1, <3>3, <3>4, <3>6, <3>7
  <2>2. CASE Register(s, Head(up[s]).mac)
    BY <2>2 DEF Register, tasks
  <2>3. CASE HandleTrigger(s, Head(up[s]).ed)
    BY <1>1, <2>1, <2>3 DEF HandleTrigger, tasks
  <2>. QED
    BY <1>7, <2>2, <2>3 DEF ControllerRecv
<1>8. CASE \/ \E a \in Apps, ed \in Desc : RemoveElem(a, ed)
           \/ \E h \in Hosts : HostJoin(h) \/ HostLeave(h) \/ HostMove(h)
           \/ \E f \in Flows : FlowRemoved(f) \/ PacketIn(f)
  BY <1>8 DEF RemoveElem, HostJoin, HostLeave, HostMove, FlowRemoved, PacketIn, tasks
<1>9. CASE \E m \in Machines :
             ShimStart(m) \/ ShimCrash(m) \/ ShimDecode(m) \/ ShimTrigger(m)
  BY <1>9 DEF ShimStart, ShimCrash, ShimDecode, ShimTrigger, tasks
<1>10. CASE UNCHANGED vars
  BY <1>10 DEF vars, tasks
<1>11. CASE Breaks
  BY <1>1, <1>11, BreaksKeeps DEF tasks
<1>. QED
  BY <1>3, <1>4, <1>5, <1>6, <1>7, <1>8, <1>9, <1>10, <1>11 DEF Next, Breaks

\* A chain of one element: nothing is left after its head.
LEMMA ChainOfOne ==
  ASSUME NEW S, NEW s \in Seq(S), Len(s) = 1
  PROVE  Tail(s) = <<>> /\ Head(s) = s[1]
<1>1. Head(s) = s[1]
  OBVIOUS
<1>2. s # <<>>
  OBVIOUS
<1>3. PICK t : t = Tail(s)
  OBVIOUS
<1>4. t \in Seq(S) /\ Len(t) = Len(s) - 1
  BY <1>2, <1>3
<1>5. Len(t) = 0
  BY <1>4
<1>6. t = <<>>
  BY <1>4, <1>5
<1>. QED
  BY <1>1, <1>3, <1>6

LEMMA ElementsFinite ==
  ASSUME IInv, NEW m \in Machines
  PROVE  IsFiniteSet(mac_to_elems[m]) /\ Cardinality(mac_to_elems[m]) \in Nat
<1>1. mac_to_elems[m] \subseteq 1..MaxDesc
  BY DEF IInv, TypeOK, ElementsOK, Desc
<1>2. IsFiniteSet(1..MaxDesc)
  BY ConstantsAssumption, FS_Interval DEF ConstantsAssumption
<1>3. IsFiniteSet(mac_to_elems[m])
  BY <1>1, <1>2, FS_Subset
<1>. QED
  BY <1>3, FS_CardinalityType

(* "Maximum number of elements per machine": it is kept by the placement   *)
(* that looks at it, for applications that ask for one element at a time   *)
(* (a chain is placed as a whole before any of its elements is recorded),  *)
(* however apply_elem, the scaling loop and the shims interleave.          *)
THEOREM CapacityIsRespected ==
  ASSUME OneAtATime
  PROVE  Spec => []CapacityRespected
<1>1. Init => CapacityInv
  <2>. SUFFICES ASSUME Init PROVE CapacityInv
    OBVIOUS
  <2>1. /\ \A m \in Machines : mac_to_elems[m] = {}
        /\ ctl.pc # "install"
    BY IdleType DEF Init
  <2>2. Cardinality({}) = 0
    BY FS_EmptySet
  <2>3. 0 <= Capacity
    BY ConstantsAssumption DEF ConstantsAssumption
  <2>. QED
    BY <2>1, <2>2, <2>3 DEF CapacityInv, CapacityRespected, RoomLeft
<1>2. IInv /\ CapacityInv /\ [Next]_vars => CapacityInv'
  <2>. SUFFICES ASSUME IInv, CapacityInv, [Next]_vars PROVE CapacityInv'
    OBVIOUS
  <2>. USE DEF CapacityInv
  <2>0. Capacity \in Nat /\ Capacity # 0
    BY ConstantsAssumption DEF ConstantsAssumption
  <2>1. ASSUME UNCHANGED mac_to_elems PROVE CapacityRespected'
    BY <2>1 DEF CapacityRespected
  <2>2. ASSUME ctl'.pc # "install" PROVE RoomLeft'
    BY <2>2 DEF RoomLeft
  <2>3. CASE UNCHANGED mac_to_elems
    <3>1. CASE UNCHANGED ctl
      BY <2>1, <2>3, <3>1 DEF RoomLeft
    <3>2. CASE ctl'.pc # "install"
      BY <2>1, <2>2, <2>3, <3>2
    <3>3. CASE InstallNext
      <4>1. ctl.pc = "install" /\ ctl \in Stack
        BY <3>3 DEF InstallNext, IInv, TypeOK, TasksOK
      <4>2. ctl.chain \in Seq(Pending) /\ Len(ctl.chain) = 1
        BY <4>1 DEF RoomLeft, Stack
      <4>3. Tail(ctl.chain) = <<>>
        BY <4>2, ChainOfOne
      <4>4. Raise(ctl.task) \/ \E b \in {TRUE, FALSE} : ctl' = Returned(ctl, b)
        BY <3>3, <4>3 DEF InstallNext, SendRaises
      <4>5. ctl'.pc # "install"
        BY <4>1, <4>4, IdleType, ReturnedType DEF Raise
      <4>. QED
        BY <2>1, <2>2, <2>3, <4>5
    <3>4. ASSUME NEW a \in Apps, NEW r \in Request, NEW c \in Stack,
                 ApplyElem(a, r, c), r.params_ok => Len(r.names) = 1,
                 ctl.pc # "install"
          PROVE  CapacityInv'
      <4>1. Calls(a, r, c)
        BY <3>4, ApplyElemCalls DEF IInv, TypeOK, ElementsOK
      <4>2. CASE ctl' = Returned(c, FALSE)
        BY <2>1, <2>2, <2>3, <4>2, ReturnedType
      <4>3. CASE Raise(c.task)
        BY <2>1, <2>2, <2>3, <4>3, IdleType DEF Raise
      <4>4. ASSUME NEW macs \in Placements(r.names), r.params_ok,
                   ctl' = [c EXCEPT !.pc = "install", !.chain = ChainOf(a, r, macs)]
            PROVE  RoomLeft'
        <5>. DEFINE ch == ChainOf(a, r, macs)
        <5>1. Len(r.names) = 1
          BY <3>4, <4>4
        <5>2. Len(ch) = 1 /\ ch[1].mac = macs[1] /\ 1 \in 1..Len(r.names)
          <6>1. Len(r.names) \in Nat /\ 1 \in 1..Len(r.names)
            BY <5>1
          <6>2. Len(ch) = Len(r.names) /\ ch[1].mac = macs[1]
            BY <6>1, ChainOfEach
          <6>. QED
            BY <5>1, <6>1, <6>2
        <5>3. macs[1] \in Candidates
          BY <4>4, <5>2 DEF Placements
        <5>4. macs[1] = StrKey \/ Cardinality(mac_to_elems[macs[1]]) < Capacity
          BY <5>3 DEF Candidates, OneAtATime, element_placement_allowed
        <5>5. macs[1] \in Machines => macs[1] # StrKey
          BY ConstantsAssumption DEF ConstantsAssumption
        <5>6. ctl'.chain = ch
          BY <4>4 DEF Stack
        <5>. HIDE DEF ch
        <5>. QED
          BY <2>3, <5>2, <5>4, <5>5, <5>6 DEF RoomLeft
      <4>. QED
        BY <2>1, <2>3, <4>1, <4>2, <4>3, <4>4 DEF Calls
    <3>. QED
      BY <3>1, <3>2, <3>3, <3>4, ChainSteps
  <2>4. CASE Registers
    <3>1. PICK s \in Socks : ControllerRecv(s) /\ Head(up[s]).type = "register"
      BY <2>4 DEF Registers
    <3>2. PICK m : mac_to_elems' = [mac_to_elems EXCEPT ![m] = {}]
      BY <3>1 DEF ControllerRecv, Register, Cleared
    <3>3. ctl' = ctl /\ ctl.pc = "idle"
      BY <3>1 DEF ControllerRecv, Register, Start, tasks
    <3>4. \A n \in Machines : mac_to_elems'[n] = {} \/ mac_to_elems'[n] = mac_to_elems[n]
      BY <3>2 DEF IInv, TypeOK, ElementsOK
    <3>5. Cardinality({}) = 0 /\ 0 <= Capacity
      BY <2>0, FS_EmptySet
    <3>6. CapacityRespected'
      BY <3>4, <3>5 DEF CapacityRespected
    <3>. QED
      BY <2>2, <3>3, <3>6
  <2>5. CASE \E a \in Apps, ed \in Desc : RemoveElem(a, ed)
    <3>1. PICK m, ed : mac_to_elems' = [mac_to_elems EXCEPT ![m] = @ \ {ed}]
      BY <2>5 DEF RemoveElem, Displaced
    <3>2. ctl' = ctl /\ ctl.pc = "idle"
      BY <2>5 DEF RemoveElem, tasks
    <3>3. \A n \in Machines : mac_to_elems'[n] \subseteq mac_to_elems[n]
      BY <3>1 DEF IInv, TypeOK, ElementsOK
    <3>4. ASSUME NEW n \in Machines PROVE Cardinality(mac_to_elems'[n]) <= Capacity
      <4>1. IsFiniteSet(mac_to_elems[n]) /\ Cardinality(mac_to_elems[n]) \in Nat
        BY ElementsFinite
      <4>2. mac_to_elems'[n] \subseteq mac_to_elems[n]
        BY <3>3
      <4>3. /\ Cardinality(mac_to_elems'[n]) <= Cardinality(mac_to_elems[n])
            /\ IsFiniteSet(mac_to_elems'[n])
        BY <4>1, <4>2, FS_Subset
      <4>4. Cardinality(mac_to_elems'[n]) \in Nat
        BY <4>3, FS_CardinalityType
      <4>5. Cardinality(mac_to_elems[n]) <= Capacity
        BY DEF CapacityRespected
      <4>. QED
        BY <2>0, <4>1, <4>3, <4>4, <4>5
    <3>. QED
      BY <2>2, <3>2, <3>4 DEF CapacityRespected
  <2>6. CASE InstallNext /\ Installs(Head(ctl.chain)) /\ Record(Head(ctl.chain))
    <3>. DEFINE e == Head(ctl.chain)
    <3>1. /\ ctl.pc = "install" /\ ctl \in Stack
          /\ e \in Pending /\ e.mac \in Machines /\ e.ed \in Desc
      BY <2>6 DEF InstallNext, Installs, IInv, TypeOK, TasksOK, Pending
    <3>2. ctl.chain \in Seq(Pending) /\ Len(ctl.chain) = 1
      BY <3>1 DEF RoomLeft, Stack
    <3>3. Tail(ctl.chain) = <<>> /\ e = ctl.chain[1]
      BY <3>2, ChainOfOne
    <3>4. ctl'.pc # "install"
      <4>1. Raise(ctl.task) \/ \E b \in {TRUE, FALSE} : ctl' = Returned(ctl, b)
        BY <2>6, <3>3 DEF InstallNext, SendRaises
      <4>. QED
        BY <3>1, <4>1, IdleType, ReturnedType DEF Raise
    <3>5. Cardinality(mac_to_elems[e.mac]) < Capacity
      BY <3>1, <3>3 DEF RoomLeft
    <3>6. mac_to_elems' = [mac_to_elems EXCEPT ![e.mac] = @ \cup {e.ed}]
      BY <2>6 DEF Record
    <3>. HIDE DEF e
    <3>7. /\ mac_to_elems'[e.mac] = mac_to_elems[e.mac] \cup {e.ed}
          /\ \A n \in Machines : n # e.mac => mac_to_elems'[n] = mac_to_elems[n]
      BY <3>1, <3>6 DEF IInv, TypeOK, ElementsOK
    <3>8. Cardinality(mac_to_elems'[e.mac]) <= Capacity
      <4>. DEFINE S == mac_to_elems[e.mac]
      <4>1. IsFiniteSet(S) /\ Cardinality(S) \in Nat /\ Cardinality(S) < Capacity
        BY <3>1, <3>5, ElementsFinite
      <4>. HIDE DEF S
      <4>2. Cardinality(S \cup {e.ed}) = IF e.ed \in S THEN Cardinality(S)
                                                       ELSE Cardinality(S) + 1
        BY <4>1, FS_AddElement
      <4>3. Cardinality(S \cup {e.ed}) <= Capacity
        BY <2>0, <4>1, <4>2
      <4>. QED
        BY <3>7, <4>3 DEF S
    <3>. QED
      BY <2>2, <3>4, <3>7, <3>8 DEF CapacityRespected
  <2>7. CASE InstallNext
    BY <2>3, <2>6, <2>7, InstallFoot DEF Quiet, maps, Installs
  <2>8. CASE Quiet \/ Tells
    BY <2>3, <2>8 DEF Quiet, Tells, maps
  <2>9. CASE \E m \in Machines :
               ShimStart(m) \/ ShimCrash(m) \/ ShimDecode(m) \/ ShimTrigger(m)
    BY <2>3, <2>9 DEF ShimStart, ShimCrash, ShimDecode, ShimTrigger, elements
  <2>. QED
    BY <2>4, <2>5, <2>7, <2>8, <2>9, Footprint
<1>3. CapacityInv => CapacityRespected
  BY DEF CapacityInv
<1>. QED
  BY <1>1, <1>2, <1>3, Inductive, PTL DEF Spec
=============================================================================
