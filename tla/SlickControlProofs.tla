------------------------- MODULE SlickControlProofs -------------------------
(***************************************************************************)
(* Proofs about SlickControl, for all values of its constants: the maps of *)
(* the controller agree (OwnersAgree) and elem_to_mac lists exactly the    *)
(* elements of the current session of each machine (SessionExact).         *)
(***************************************************************************)
EXTENDS SlickControl, TLAPS

(* Descriptors are used in order: those that apply_elem still has to       *)
(* install are the last ones of the counter, and none of them, nor any     *)
(* later one, has an instance.                                             *)
Unused ==
  /\ ctl.pc = "install" <=> ctl.chain # <<>>
  /\ \A i \in 1..Len(ctl.chain) :
       ctl.chain[i].ed = latest - Len(ctl.chain) + i
  /\ \A ed \in Desc :
       ed > latest - Len(ctl.chain) => ed_to_instance[ed] = NoInstance

(* A connection carries at most one register message, its first, and until *)
(* that is read the controller has not used the connection.                *)
RegisterOnce ==
  \A s \in Socks : \A i \in 1..Len(up[s]) :
    up[s][i].type = "register" =>
      /\ i = 1
      /\ \A m \in Machines : tcp_conn_handlers[m] # s
      /\ \A ed \in Desc : sent_on[ed] # s

(* A socket that no shim has been given yet is nowhere in use.             *)
SocketsFresh ==
  /\ \A m \in Machines : tcp_conn_handlers[m] <= nsock
  /\ \A m \in Machines : shim_sock[m] <= nsock
  /\ \A ed \in Desc : sent_on[ed] <= nsock
  /\ \A s \in Socks : s > nsock => up[s] = <<>>

IInv ==
  TypeOK /\ OwnersAgree /\ SessionExact /\ Unused /\ RegisterOnce /\ SocketsFresh

-----------------------------------------------------------------------------
(* The initial state.                                                      *)
LEMMA InitIInv == Init => IInv
<1>. SUFFICES ASSUME Init PROVE IInv
  OBVIOUS
<1>. USE ConstantsAssumption DEF ConstantsAssumption
<1>1. TypeOK
  <2>1. RegistrationOK /\ PolicyOK /\ LoadOK /\ ShimsOK
    BY DEF Init, RegistrationOK, PolicyOK, LoadOK, ShimsOK
  <2>2. ElementsOK
    BY DEF Init, ElementsOK
  <2>3. TasksOK
    BY DEF Init, TasksOK, Stack, Idle, Timer, Tasks, Network
  <2>4. ChannelsOK
    BY DEF Init, ChannelsOK
  <2>. QED
    BY <2>1, <2>2, <2>3, <2>4 DEF TypeOK
<1>2. OwnersAgree /\ SessionExact
  BY DEF Init, OwnersAgree, SessionExact, Instances, NoInstance, Desc
<1>3. Unused /\ RegisterOnce /\ SocketsFresh
  BY DEF Init, Unused, RegisterOnce, SocketsFresh, Idle, Desc, Socks
<1>. QED
  BY <1>1, <1>2, <1>3 DEF IInv

-----------------------------------------------------------------------------
(* What the operators of the model return.                                 *)
LEMMA MinusZero == \A n \in Nat : n - 0 = n
OBVIOUS

LEMMA IdleType == Idle \in Stack /\ Idle.chain = <<>> /\ Idle.pc = "idle"
BY ConstantsAssumption
   DEF ConstantsAssumption, Idle, Stack, Timer, Network, Tasks

LEMMA ReturnedType ==
  ASSUME NEW c \in Stack, NEW success \in {TRUE, FALSE}
  PROVE  /\ Returned(c, success) \in Stack
         /\ Returned(c, success).chain = <<>>
         /\ Returned(c, success).pc # "install"
<1>0. <<>> \in Seq(Pending)
  OBVIOUS
<1>1. CASE c.task = Timer
  <2>. DEFINE f == IF success THEN c.failed ELSE c.failed \cup {c.req}
  <2>1. f \in SUBSET Nat /\ c.req + 1 \in Nat
    BY DEF Stack
  <2>2. Returned(c, success) =
          [c EXCEPT !.pc = "init", !.req = c.req + 1, !.failed = f,
                    !.chain = <<>>]
    BY <1>1 DEF Returned
  <2>. HIDE DEF f
  <2>. QED
    BY <1>0, <2>1, <2>2 DEF Stack
<1>2. CASE c.task # Timer /\ c.task = Network
  <2>1. Returned(c, success) = [c EXCEPT !.pc = "loaded", !.chain = <<>>]
    BY <1>2 DEF Returned
  <2>. QED
    BY <1>0, <2>1 DEF Stack
<1>3. CASE c.task # Timer /\ c.task # Network
  BY <1>3, IdleType DEF Returned
<1>. QED
  BY <1>1, <1>2, <1>3

LEMMA SentType ==
  ASSUME NEW m \in Machines, NEW msg \in DownMsg,
         down \in [Machines -> Seq(DownMsg)]
  PROVE  Sent(m, msg) \in [Machines -> Seq(DownMsg)]
BY DEF Sent

LEMMA ChainOfType ==
  ASSUME NEW a \in Apps, NEW r \in Request,
         NEW macs \in [1..Len(r.names) -> Hosts],
         latest \in Nat, latest + Len(r.names) <= MaxDesc
  PROVE  /\ ChainOf(a, r, macs) \in Seq(Pending)
         /\ Len(ChainOf(a, r, macs)) = Len(r.names)
         /\ \A i \in 1..Len(r.names) : ChainOf(a, r, macs)[i].ed = latest + i
<1>. DEFINE n == Len(r.names)
<1>0. n \in Nat /\ r.names \in Seq(Names) /\ r.flow \in Flows
  BY DEF Request
<1>1. \A i \in 1..n : latest + i \in Desc /\ r.names[i] \in Names
  BY <1>0, ConstantsAssumption DEF ConstantsAssumption, Desc
<1>2. ChainOf(a, r, macs) \in [1..n -> Pending]
  BY <1>0, <1>1 DEF ChainOf, Pending, Hosts
<1>3. ChainOf(a, r, macs) \in Seq(Pending) /\ Len(ChainOf(a, r, macs)) = n
  BY <1>0, <1>2
<1>4. \A i \in 1..n : ChainOf(a, r, macs)[i].ed = latest + i
  BY DEF ChainOf
<1>. QED
  BY <1>3, <1>4

-----------------------------------------------------------------------------
(* Steps that leave a part of the state alone leave its invariants alone.  *)
LEMMA MapsFrame ==
  ASSUME OwnersAgree, SessionExact,
         UNCHANGED <<tcp_conn_handlers, mac_to_elems, application_handles,
                     ed_to_instance, flow_instances, sent_on>>
  PROVE  OwnersAgree' /\ SessionExact'
BY DEF OwnersAgree, SessionExact, Instances

LEMMA ChannelFrame ==
  ASSUME RegisterOnce, SocketsFresh,
         UNCHANGED <<tcp_conn_handlers, sent_on, up, nsock, shim_sock>>
  PROVE  RegisterOnce' /\ SocketsFresh'
BY DEF RegisterOnce, SocketsFresh

LEMMA UnusedFrame ==
  ASSUME Unused, TypeOK, UNCHANGED <<latest, ed_to_instance>>,
         ctl.pc # "install", ctl' \in Stack, ctl'.chain = <<>>,
         ctl'.pc # "install"
  PROVE  Unused'
BY DEF Unused, TypeOK, ElementsOK, TasksOK, Stack

LEMMA RaiseType ==
  ASSUME TasksOK, NEW t \in Tasks, Raise(t)
  PROVE  TasksOK' /\ ctl' \in Stack /\ ctl'.chain = <<>> /\ ctl'.pc # "install"
BY IdleType DEF Raise, TasksOK

LEMMA SendRaisesType ==
  ASSUME TypeOK, NEW m \in Machines, NEW t \in Tasks, SendRaises(m, t),
         UNCHANGED processes
  PROVE  ShimsOK' /\ Raise(t) /\ down' = down
BY DEF TypeOK, SendRaises, HalfOpen, ShimsOK, processes

-----------------------------------------------------------------------------
(* apply_elem up to the loop, for any caller.                              *)
LEMMA ApplyElemStep ==
  ASSUME IInv, NEW a \in Apps, NEW r \in Request, NEW c \in Stack,
         ctl.pc # "install", ApplyElem(a, r, c)
  PROVE  /\ RegistrationOK' /\ ElementsOK' /\ TasksOK' /\ LoadOK' /\ ShimsOK'
         /\ flow_to_id' \in SUBSET Flows
         /\ down' = down
         /\ UNCHANGED <<traffic, app_ed, tcp_conn_handlers, sent_on, nsock,
                         shim_sock>>
         /\ OwnersAgree' /\ SessionExact' /\ Unused'
<1>. USE DEF IInv, TypeOK
<1>1. UNCHANGED <<registration, traffic, app_ed, load, shims, down, mac_to_elems,
                  application_handles, ed_to_instance, flow_instances,
                  flow_names, sent_on>>
  BY DEF ApplyElem
<1>2. RegistrationOK' /\ LoadOK' /\ ShimsOK'
  BY <1>1 DEF RegistrationOK, LoadOK, ShimsOK, registration, load, shims
<1>3. OwnersAgree' /\ SessionExact'
  BY <1>1, MapsFrame DEF registration
<1>4. ctl.chain = <<>> /\ latest \in Nat /\ c.task \in Tasks
  BY DEF Unused, ElementsOK, Stack
<1>5. \A ed \in Desc : ed > latest => ed_to_instance[ed] = NoInstance
  BY <1>4 DEF Unused
<1>6. ASSUME UNCHANGED <<latest, dead>>, ctl' = Returned(c, FALSE)
      PROVE  ElementsOK' /\ TasksOK' /\ Unused'
  <2>1. ctl' \in Stack /\ ctl'.chain = <<>> /\ ctl'.pc # "install"
    BY <1>6, ReturnedType
  <2>2. ElementsOK' /\ TasksOK'
    BY <1>1, <1>6, <2>1 DEF ElementsOK, TasksOK
  <2>. QED
    BY <1>1, <1>6, <2>1, <2>2, UnusedFrame
<1>7. ASSUME latest' \in Nat, latest' >= latest, Raise(c.task)
      PROVE  ElementsOK' /\ TasksOK' /\ Unused'
  <2>1. TasksOK' /\ ctl'.chain = <<>> /\ ctl'.pc # "install"
    BY <1>4, <1>7, RaiseType
  <2>2. ElementsOK'
    BY <1>1, <1>7 DEF ElementsOK
  <2>3. Unused'
    <3>1. Len(ctl'.chain) = 0
      BY <2>1
    <3>2. \A ed \in Desc : ed \in Nat
      BY ConstantsAssumption DEF Desc, ConstantsAssumption
    <3>3. \A ed \in Desc : ed > latest' => ed > latest
      BY <1>4, <1>7, <3>2
    <3>0. latest' \in Nat
      BY <1>7
    <3>4. latest' - 0 = latest'
      BY <3>0, MinusZero
    <3>5. \A ed \in Desc : ed > latest' => ed_to_instance'[ed] = NoInstance
      BY <1>1, <1>5, <3>3
    <3>. QED
      BY <2>1, <3>1, <3>4, <3>5 DEF Unused
  <2>. QED
    BY <2>1, <2>2, <2>3
<1>8. ASSUME NEW macs \in Placements(r.names),
             latest + Len(r.names) <= MaxDesc,
             latest' = latest + Len(r.names),
             ctl' = [c EXCEPT !.pc = "install", !.chain = ChainOf(a, r, macs)],
             UNCHANGED dead
      PROVE  ElementsOK' /\ TasksOK' /\ Unused'
  <2>. DEFINE ch == ChainOf(a, r, macs)
  <2>0. r.names \in Seq(Names) /\ Len(r.names) \in Nat /\ Len(r.names) # 0
    BY <1>8 DEF Request
  <2>1. macs \in [1..Len(r.names) -> Hosts]
    BY <1>8 DEF Placements, Candidates, RegisteredMachines, RegistrationOK
  <2>2. /\ ch \in Seq(Pending) /\ Len(ch) = Len(r.names)
        /\ \A i \in 1..Len(r.names) : ch[i].ed = latest + i
    BY <1>4, <1>8, <2>1, ChainOfType
  <2>3. ctl' \in Stack /\ ctl'.chain = ch /\ ctl'.pc = "install"
    <3>1. ctl' = [c EXCEPT !.pc = "install", !.chain = ch]
      BY <1>8
    <3>. HIDE DEF ch
    <3>. QED
      BY <3>1, <2>2 DEF Stack
  <2>4. ElementsOK' /\ TasksOK'
    BY <1>1, <1>4, <1>8, <2>0, <2>3 DEF ElementsOK, TasksOK
  <2>5. Unused'
    <3>. HIDE DEF ch
    <3>1. ch # <<>>
      BY <2>0, <2>2
    <3>2. \A i \in 1..Len(ch) : ch[i].ed = latest' - Len(ch) + i
      BY <1>4, <1>8, <2>0, <2>2
    <3>3. \A ed \in Desc : ed > latest' - Len(ch) => ed_to_instance[ed] = NoInstance
      BY <1>4, <1>5, <1>8, <2>0, <2>2
    <3>. QED
      BY <1>1, <2>3, <3>1, <3>2, <3>3 DEF Unused
  <2>. QED
    BY <2>4, <2>5
<1>9. ElementsOK' /\ TasksOK' /\ Unused'
  <2>0. Len(r.names) \in Nat
    BY DEF Request
  <2>1. CASE UNCHANGED <<latest, dead>> /\ ctl' = Returned(c, FALSE)
    BY <1>6, <2>1
  <2>2. CASE UNCHANGED latest /\ Raise(c.task)
    BY <1>4, <1>7, <2>2
  <2>3. CASE /\ is_there_traffic /\ ~PlacementRaises
             /\ \E macs \in Placements(r.names) :
                  /\ latest + Len(r.names) <= MaxDesc
                  /\ latest' = latest + Len(r.names)
                  /\ IF r.params_ok
                       THEN /\ ctl' = [c EXCEPT !.pc = "install",
                                              !.chain = ChainOf(a, r, macs)]
                            /\ UNCHANGED dead
                       ELSE Raise(c.task)
    <3>1. PICK macs \in Placements(r.names) :
            /\ latest + Len(r.names) <= MaxDesc
            /\ latest' = latest + Len(r.names)
            /\ IF r.params_ok
                 THEN /\ ctl' = [c EXCEPT !.pc = "install",
                                        !.chain = ChainOf(a, r, macs)]
                      /\ UNCHANGED dead
                 ELSE Raise(c.task)
      BY <2>3
    <3>2. CASE r.params_ok
      BY <1>8, <3>1, <3>2
    <3>3. CASE ~(r.params_ok)
      BY <1>4, <1>7, <2>0, <3>1, <3>3
    <3>. QED
      BY <3>2, <3>3
  <2>. QED
    BY <2>1, <2>2, <2>3 DEF ApplyElem
<1>10. flow_to_id' \in SUBSET Flows
  BY DEF ApplyElem, PolicyOK, Request, Identified
<1>. QED
  BY <1>1, <1>2, <1>3, <1>9, <1>10 DEF registration, shims

-----------------------------------------------------------------------------
(* Steps of a task of the controller outside the loop that installs.       *)
LEMMA TaskStep ==
  ASSUME IInv, ctl.pc # "install", UNCHANGED <<registration, elements, shims, up>>,
         PolicyOK', LoadOK', TasksOK', down' \in [Machines -> Seq(DownMsg)],
         ctl'.chain = <<>>, ctl'.pc # "install"
  PROVE  IInv'
<1>. USE DEF IInv, TypeOK
<1>1. RegistrationOK' /\ ElementsOK' /\ ShimsOK' /\ ChannelsOK'
  BY DEF RegistrationOK, ElementsOK, ShimsOK, ChannelsOK, registration, elements,
         shims
<1>2. OwnersAgree' /\ SessionExact'
  BY MapsFrame DEF registration, elements
<1>3. RegisterOnce' /\ SocketsFresh'
  BY ChannelFrame DEF registration, elements, shims
<1>4. Unused'
  BY UnusedFrame DEF elements, TasksOK
<1>. QED
  BY <1>1, <1>2, <1>3, <1>4

(* A task is lost outside that loop.                                       *)
LEMMA LostStep ==
  ASSUME IInv, NEW t \in Tasks, Raise(t), ctl.pc # "install", ShimsOK',
         UNCHANGED <<registration, elements, policy, load, nsock, shim_sock, down, up>>
  PROVE  IInv'
<1>. USE DEF IInv, TypeOK
<1>1. TasksOK' /\ ctl' \in Stack /\ ctl'.chain = <<>> /\ ctl'.pc # "install"
  BY RaiseType
<1>2. RegistrationOK' /\ ElementsOK' /\ PolicyOK' /\ LoadOK' /\ ChannelsOK'
  BY DEF RegistrationOK, ElementsOK, PolicyOK, LoadOK, ChannelsOK, registration,
         elements, policy, load
<1>3. OwnersAgree' /\ SessionExact'
  BY MapsFrame DEF registration, elements
<1>4. RegisterOnce' /\ SocketsFresh'
  BY ChannelFrame DEF registration, elements
<1>5. Unused'
  BY <1>1, UnusedFrame DEF elements
<1>. QED
  BY <1>1, <1>2, <1>3, <1>4, <1>5

(* Steps that no task of the controller takes part in, or only one that    *)
(* returns to where it was.                                                *)
LEMMA OutsideStep ==
  ASSUME IInv, UNCHANGED <<tcp_conn_handlers, elements, tasks, nsock, shim_sock, up>>,
         RegistrationOK', PolicyOK', LoadOK', ShimsOK',
         down' \in [Machines -> Seq(DownMsg)]
  PROVE  IInv'
<1>. USE DEF IInv, TypeOK
<1>1. ElementsOK' /\ TasksOK' /\ ChannelsOK'
  BY DEF ElementsOK, TasksOK, ChannelsOK, elements, tasks
<1>2. OwnersAgree' /\ SessionExact'
  BY MapsFrame DEF elements
<1>3. RegisterOnce' /\ SocketsFresh'
  BY ChannelFrame DEF elements
<1>4. Unused'
  BY DEF Unused, elements, tasks
<1>. QED
  BY <1>1, <1>2, <1>3, <1>4

LEMMA TimerTickStep == ASSUME IInv, TimerTick PROVE IInv'
<1>. USE ConstantsAssumption DEF ConstantsAssumption
<1>1. /\ ctl.pc = "idle" /\ dead' = dead
      /\ ctl' = [Idle EXCEPT !.pc = "init", !.app = 1, !.req = 1]
      /\ UNCHANGED <<registration, elements, policy, load, shims, down, up>>
  BY DEF TimerTick, Start
<1>2. ctl' \in Stack /\ ctl'.chain = <<>> /\ ctl'.pc # "install"
  <2>1. 1 \in 0..(NApps + 1) /\ 1 \in Nat
    OBVIOUS
  <2>. QED
    BY <1>1, <2>1, IdleType DEF Stack
<1>3. PolicyOK' /\ LoadOK' /\ TasksOK' /\ down' \in [Machines -> Seq(DownMsg)]
  BY <1>1, <1>2 DEF IInv, TypeOK, PolicyOK, LoadOK, TasksOK, ChannelsOK, policy,
     load
<1>. QED
  BY <1>1, <1>2, <1>3, TaskStep

LEMMA TimerConfigureStep == ASSUME IInv, TimerConfigure PROVE IInv'
<1>. USE DEF IInv, TypeOK
<1>1. /\ ctl.pc = "config"
      /\ UNCHANGED <<registration, elements, policy, load, processes, up>>
  BY DEF TimerConfigure
<1>2. /\ ctl \in Stack /\ ctl.task \in Tasks /\ ctl.chain = <<>>
      /\ down \in [Machines -> Seq(DownMsg)]
  BY <1>1 DEF TasksOK, Stack, Unused, ChannelsOK
<1>3. PolicyOK' /\ LoadOK'
  BY <1>1 DEF PolicyOK, LoadOK, policy, load
<1>4. ASSUME UNCHANGED closed, TasksOK', ctl'.chain = <<>>, ctl'.pc # "install",
             down' \in [Machines -> Seq(DownMsg)]
      PROVE  IInv'
  <2>1. UNCHANGED shims
    BY <1>1, <1>4 DEF shims, processes
  <2>. QED
    BY <1>1, <1>3, <1>4, <2>1, TaskStep
<1>5. CASE ctl' = Idle /\ UNCHANGED <<closed, dead, down>>
  <2>1. TasksOK' /\ ctl'.chain = <<>> /\ ctl'.pc # "install"
    BY <1>5, IdleType DEF TasksOK
  <2>. QED
    BY <1>2, <1>4, <1>5, <2>1
<1>6. ASSUME NEW ed \in ctl.todo,
             LET a == application_handles[ed]
                 c == [ctl EXCEPT !.todo = @ \ {ed}]
             IN IF a \in Configuring THEN Configure(a, c)
                                     ELSE ctl' = c /\ UNCHANGED <<closed, dead, down>>
      PROVE  IInv'
  <2>. DEFINE a == application_handles[ed]
              c == [ctl EXCEPT !.todo = @ \ {ed}]
  <2>1. c \in Stack /\ c.chain = <<>> /\ c.pc = "config" /\ c.task \in Tasks
    BY <1>1, <1>2 DEF Stack
  <2>. HIDE DEF c
  <2>2. CASE ctl' = c /\ UNCHANGED <<closed, dead, down>>
    <3>1. TasksOK'
      BY <2>1, <2>2 DEF TasksOK
    <3>. QED
      BY <1>2, <1>4, <2>1, <2>2, <3>1
  <2>3. CASE Raise(c.task) /\ UNCHANGED <<down, closed>>
    <3>1. TasksOK' /\ ctl'.chain = <<>> /\ ctl'.pc # "install"
      BY <2>1, <2>3, RaiseType
    <3>. QED
      BY <1>2, <1>4, <2>3, <3>1
  <2>4. CASE \E m \in MachinesOf(app_ed[a]) : SendRaises(m, c.task)
    <3>1. PICK m \in Machines : SendRaises(m, c.task)
      BY <2>4 DEF MachinesOf
    <3>2. ShimsOK' /\ Raise(c.task) /\ down' = down
      BY <1>1, <2>1, <3>1, SendRaisesType
    <3>. QED
      BY <1>1, <2>1, <3>2, LostStep DEF processes
  <2>5. CASE /\ ctl' = c /\ UNCHANGED <<dead, closed>>
             /\ \/ UNCHANGED down
                \/ \E m \in MachinesOf(app_ed[a]) :
                     down' = Sent(m, [type |-> "configure", ed |-> app_ed[a]])
    <3>1. TasksOK'
      BY <2>1, <2>5 DEF TasksOK
    <3>2. down' \in [Machines -> Seq(DownMsg)]
      <4>1. CASE UNCHANGED down
        BY <1>2, <4>1
      <4>2. ASSUME NEW m \in MachinesOf(app_ed[a]),
                   down' = Sent(m, [type |-> "configure", ed |-> app_ed[a]])
            PROVE  down' \in [Machines -> Seq(DownMsg)]
        <5>1. m \in Machines /\ app_ed[a] \in Desc
          BY <4>2 DEF MachinesOf, ElementsOK
        <5>2. [type |-> "configure", ed |-> app_ed[a]] \in DownMsg
          BY <5>1 DEF DownMsg
        <5>. QED
          BY <1>2, <4>2, <5>1, <5>2, SentType
      <4>. QED
        BY <2>5, <4>1, <4>2
    <3>. QED
      BY <1>4, <2>1, <2>5, <3>1, <3>2
  <2>6. Configure(a, c) \/ (ctl' = c /\ UNCHANGED <<closed, dead, down>>)
    BY <1>6 DEF c
  <2>. QED
    BY <2>2, <2>3, <2>4, <2>5, <2>6 DEF Configure
<1>. QED
  BY <1>5, <1>6 DEF TimerConfigure

LEMMA NetworkTickStep == ASSUME IInv, NetworkTick PROVE IInv'
<1>. USE DEF IInv, TypeOK
<1>1. /\ ctl.pc = "idle" /\ dead' = dead
      /\ UNCHANGED <<registration, elements, policy, elem_migration,
                     migrating_flows, shims, down, up>>
  BY DEF NetworkTick, Start
<1>2. PICK eds \in SUBSET Desc :
        /\ loaded_descs' = loaded_descs \cup eds
        /\ \/ ctl' = Idle
           \/ ctl' = [Idle EXCEPT !.pc = "loaded", !.task = Network, !.todo = eds]
  BY DEF NetworkTick, LoadedElements, LoadedAfter
<1>3. ctl' \in Stack /\ ctl'.chain = <<>> /\ ctl'.pc # "install"
  <2>1. Network \in Tasks
    BY ConstantsAssumption DEF ConstantsAssumption, Tasks, Network
  <2>. QED
    BY <1>2, <2>1, IdleType DEF Stack
<1>4. PolicyOK' /\ LoadOK' /\ TasksOK' /\ down' \in [Machines -> Seq(DownMsg)]
  BY <1>1, <1>2, <1>3 DEF PolicyOK, LoadOK, TasksOK, ChannelsOK, policy
<1>. QED
  BY <1>1, <1>3, <1>4, TaskStep

-----------------------------------------------------------------------------
(* Events of the network.                                                  *)
LEMMA FlowRemovedStep == ASSUME IInv, NEW f \in Flows, FlowRemoved(f) PROVE IInv'
<1>. USE DEF IInv, TypeOK
<1>1. UNCHANGED <<registration, elements, policy, loaded_descs, tasks, shims, down, up>>
  BY DEF FlowRemoved
<1>2. RegistrationOK' /\ PolicyOK' /\ ShimsOK' /\ down' \in [Machines -> Seq(DownMsg)]
  BY <1>1 DEF RegistrationOK, PolicyOK, ShimsOK, ChannelsOK, registration, policy,
     shims
<1>3. LoadOK'
  <2>1. 0 \in 0..MaxDesc
    BY ConstantsAssumption DEF ConstantsAssumption
  <2>. QED
    BY <1>1, <2>1 DEF FlowRemoved, LoadOK
<1>. QED
  BY <1>1, <1>2, <1>3, OutsideStep DEF registration, shims

LEMMA HostStep ==
  ASSUME IInv, NEW h \in Hosts, HostJoin(h) \/ HostLeave(h) \/ HostMove(h)
  PROVE  IInv'
<1>. USE DEF IInv, TypeOK
<1>1. UNCHANGED <<tcp_conn_handlers, elements, policy, load, tasks, shims, down, up>>
  BY DEF HostJoin, HostLeave, HostMove
<1>2. PolicyOK' /\ LoadOK' /\ ShimsOK' /\ down' \in [Machines -> Seq(DownMsg)]
  BY <1>1 DEF PolicyOK, LoadOK, ShimsOK, ChannelsOK, policy, load, shims
<1>3. RegistrationOK'
  BY DEF RegistrationOK, HostJoin, HostLeave, HostMove, WithAddress, Hosts
<1>. QED
  BY <1>1, <1>2, <1>3, OutsideStep DEF shims

LEMMA PacketInStep == ASSUME IInv, NEW f \in Flows, PacketIn(f) PROVE IInv'
<1>. USE DEF IInv, TypeOK
<1>1. /\ UNCHANGED <<registration, elements, flow_to_id, app_ed, load, tasks, shims,
                     down, up>>
      /\ traffic' = traffic \cup {f}
  BY DEF PacketIn
<1>2. RegistrationOK' /\ LoadOK' /\ ShimsOK' /\ down' \in [Machines -> Seq(DownMsg)]
  BY <1>1 DEF RegistrationOK, LoadOK, ShimsOK, ChannelsOK, registration, load, shims
<1>3. PolicyOK'
  BY <1>1 DEF PolicyOK
<1>. QED
  BY <1>1, <1>2, <1>3, OutsideStep DEF registration, shims

-----------------------------------------------------------------------------
(* Shims.                                                                  *)
LEMMA ShimDecodeStep == ASSUME IInv, NEW m \in Machines, ShimDecode(m) PROVE IInv'
<1>. USE DEF IInv, TypeOK
<1>1. /\ UNCHANGED <<registration, elements, policy, load, tasks, nsock, shim_sock,
                     closed, up>>
      /\ down[m] # <<>>
      /\ down' = [down EXCEPT ![m] = Tail(down[m])]
      /\ objects' = IF Head(down[m]).type = "install"
                      THEN [objects EXCEPT ![m] = objects[m] \cup {Head(down[m]).ed}]
                      ELSE objects
  BY DEF ShimDecode, ObjectsAfter
<1>2. RegistrationOK' /\ PolicyOK' /\ LoadOK'
  BY <1>1 DEF RegistrationOK, PolicyOK, LoadOK, registration, policy, load
<1>3. down[m] \in Seq(DownMsg) /\ down \in [Machines -> Seq(DownMsg)]
  BY DEF ChannelsOK
<1>4. Head(down[m]) \in DownMsg /\ Tail(down[m]) \in Seq(DownMsg)
  BY <1>1, <1>3
<1>5. ShimsOK'
  BY <1>1, <1>4 DEF ShimsOK, DownMsg
<1>6. down' \in [Machines -> Seq(DownMsg)]
  BY <1>1, <1>3, <1>4
<1>. QED
  BY <1>1, <1>2, <1>5, <1>6, OutsideStep DEF registration

LEMMA ShimCrashStep == ASSUME IInv, NEW m \in Machines, ShimCrash(m) PROVE IInv'
<1>. USE DEF IInv, TypeOK
<1>1. /\ UNCHANGED <<registration, elements, policy, load, tasks, nsock, closed, up>>
      /\ shim_sock' = [shim_sock EXCEPT ![m] = 0]
      /\ objects' = [objects EXCEPT ![m] = {}]
      /\ down' = [down EXCEPT ![m] = <<>>]
  BY DEF ShimCrash
<1>2. RegistrationOK' /\ ElementsOK' /\ PolicyOK' /\ LoadOK' /\ TasksOK'
  BY <1>1 DEF RegistrationOK, ElementsOK, PolicyOK, LoadOK, TasksOK, registration,
     elements, policy, load, tasks
<1>3. ShimsOK' /\ ChannelsOK'
  BY <1>1, ConstantsAssumption DEF ShimsOK, ChannelsOK, ConstantsAssumption
<1>4. OwnersAgree' /\ SessionExact'
  BY <1>1, MapsFrame DEF registration, elements
<1>5. Unused' /\ RegisterOnce'
  BY <1>1 DEF Unused, RegisterOnce, registration, elements, tasks
<1>6. SocketsFresh'
  BY <1>1 DEF SocketsFresh, ShimsOK, registration, elements
<1>. QED
  BY <1>2, <1>3, <1>4, <1>5, <1>6

LEMMA ShimStartStep == ASSUME IInv, NEW m \in Machines, ShimStart(m) PROVE IInv'
<1>. USE ConstantsAssumption DEF IInv, TypeOK, ConstantsAssumption
<1>. DEFINE reg == [type |-> "register", mac |-> m, ed |-> 0]
            n == nsock + 1
<1>1. /\ UNCHANGED <<registration, elements, policy, load, tasks, objects, closed,
                     down>>
      /\ nsock < MaxSock /\ nsock' = n
      /\ shim_sock' = [shim_sock EXCEPT ![m] = n]
      /\ up' = [up EXCEPT ![n] = <<reg>>]
  BY DEF ShimStart
<1>2. RegistrationOK' /\ ElementsOK' /\ PolicyOK' /\ LoadOK' /\ TasksOK'
  BY <1>1 DEF RegistrationOK, ElementsOK, PolicyOK, LoadOK, TasksOK, registration,
     elements, policy, load, tasks
<1>3. nsock \in Nat /\ n \in 0..MaxSock /\ n \in Socks
  BY <1>1 DEF ShimsOK, Socks
<1>4. ShimsOK'
  BY <1>1, <1>3 DEF ShimsOK
<1>5. reg \in UpMsg /\ <<reg>> \in Seq(UpMsg)
  BY DEF UpMsg
<1>6. ChannelsOK'
  <2>. HIDE DEF reg, n
  <2>. QED
    BY <1>1, <1>5 DEF ChannelsOK
<1>7. OwnersAgree' /\ SessionExact'
  BY <1>1, MapsFrame DEF registration, elements
<1>8. Unused'
  BY <1>1 DEF Unused, elements, tasks
<1>9. /\ \A k \in Machines : tcp_conn_handlers[k] \in 0..MaxSock
                               /\ tcp_conn_handlers[k] <= nsock
      /\ \A ed \in Desc : sent_on[ed] \in 0..MaxSock /\ sent_on[ed] <= nsock
      /\ \A k \in Machines : shim_sock[k] \in 0..MaxSock /\ shim_sock[k] <= nsock
  BY DEF SocketsFresh, RegistrationOK, ElementsOK, ShimsOK
<1>10. /\ \A k \in Machines : tcp_conn_handlers[k] # n
       /\ \A ed \in Desc : sent_on[ed] # n
  BY <1>3, <1>9
<1>11. RegisterOnce'
  <2>. SUFFICES ASSUME NEW s \in Socks, NEW i \in 1..Len(up'[s]),
                       up'[s][i].type = "register"
                PROVE  /\ i = 1
                       /\ \A k \in Machines : tcp_conn_handlers[k] # s
                       /\ \A ed \in Desc : sent_on[ed] # s
    BY <1>1 DEF RegisterOnce, registration, elements
  <2>1. CASE s = n
    <3>1. up'[s] = <<reg>>
      BY <1>1, <1>3, <2>1 DEF ChannelsOK
    <3>2. i = 1
      BY <3>1
    <3>. QED
      BY <1>10, <2>1, <3>2
  <2>2. CASE s # n
    <3>1. up'[s] = up[s]
      BY <1>1, <2>2 DEF ChannelsOK
    <3>. QED
      BY <3>1 DEF RegisterOnce
  <2>. QED
    BY <2>1, <2>2
<1>12. SocketsFresh'
  <2>1. \A k \in Machines : shim_sock'[k] <= nsock'
    BY <1>1, <1>3, <1>9 DEF ShimsOK
  <2>2. /\ \A k \in Machines : tcp_conn_handlers'[k] <= nsock'
        /\ \A ed \in Desc : sent_on'[ed] <= nsock'
    BY <1>1, <1>3, <1>9 DEF registration, elements
  <2>3. \A s \in Socks : s > n => s > nsock /\ s # n
    BY <1>3 DEF Socks
  <2>4. \A s \in Socks : s > nsock' => up'[s] = <<>>
    BY <1>1, <2>3 DEF SocketsFresh, ChannelsOK
  <2>. QED
    BY <2>1, <2>2, <2>4 DEF SocketsFresh
<1>. QED
  BY <1>2, <1>4, <1>6, <1>7, <1>8, <1>11, <1>12

LEMMA ShimTriggerStep == ASSUME IInv, NEW m \in Machines, ShimTrigger(m) PROVE IInv'
<1>. USE ConstantsAssumption DEF IInv, TypeOK, ConstantsAssumption
<1>. DEFINE s == shim_sock[m]
<1>1. /\ UNCHANGED <<registration, elements, policy, load, tasks, shims, down>>
      /\ s # 0
  BY DEF ShimTrigger, Delivered
<1>2. PICK ed \in objects[m] \cup {0} :
        up' = [up EXCEPT ![s] = Append(up[s], [type |-> "trigger", mac |-> m, ed |-> ed])]
  BY DEF ShimTrigger, Delivered
<1>. DEFINE msg == [type |-> "trigger", mac |-> m, ed |-> ed]
<1>3. RegistrationOK' /\ ElementsOK' /\ PolicyOK' /\ LoadOK' /\ TasksOK' /\ ShimsOK'
  BY <1>1 DEF RegistrationOK, ElementsOK, PolicyOK, LoadOK, TasksOK, ShimsOK,
     registration, elements, policy, load, tasks, shims
<1>4. s \in Socks /\ s <= nsock /\ nsock \in Nat
  BY <1>1 DEF ShimsOK, Socks, SocketsFresh
<1>5. msg \in UpMsg
  BY <1>2 DEF UpMsg, ShimsOK, Desc
<1>6. up[s] \in Seq(UpMsg)
  BY <1>4 DEF ChannelsOK
<1>7. up' = [up EXCEPT ![s] = Append(up[s], msg)] /\ msg.type = "trigger"
  BY <1>2
<1>. HIDE DEF msg
<1>. HIDE DEF s
<1>8. ChannelsOK'
  <2>1. Append(up[s], msg) \in Seq(UpMsg)
    BY <1>5, <1>6
  <2>2. up' \in [Socks -> Seq(UpMsg)]
    BY <1>7, <2>1 DEF ChannelsOK
  <2>. QED
    BY <1>1, <2>2 DEF ChannelsOK
<1>9. OwnersAgree' /\ SessionExact'
  BY <1>1, MapsFrame DEF registration, elements
<1>10. Unused'
  BY <1>1 DEF Unused, elements, tasks
<1>11. RegisterOnce'
  <2>. SUFFICES ASSUME NEW t \in Socks, NEW i \in 1..Len(up'[t]),
                       up'[t][i].type = "register"
                PROVE  up[t][i].type = "register" /\ i \in 1..Len(up[t])
    BY <1>1 DEF RegisterOnce, registration, elements
  <2>1. CASE t = s
    <3>1. up'[t] = Append(up[s], msg)
      BY <1>4, <1>7, <2>1 DEF ChannelsOK
    <3>2. i # Len(up[s]) + 1
      BY <1>5, <1>6, <1>7, <3>1
    <3>. QED
      BY <1>5, <1>6, <2>1, <3>1, <3>2
  <2>2. CASE t # s
    BY <1>7, <2>2 DEF ChannelsOK
  <2>. QED
    BY <2>1, <2>2
<1>12. SocketsFresh'
  <2>1. \A t \in Socks : t > nsock => t # s
    BY <1>4 DEF Socks
  <2>. QED
    BY <1>1, <1>7, <2>1 DEF SocketsFresh, ChannelsOK, registration, elements, shims
<1>. QED
  BY <1>3, <1>8, <1>9, <1>10, <1>11, <1>12

-----------------------------------------------------------------------------
(* The callers of apply_elem.                                              *)

(* A step that calls apply_elem and reads at most a message.               *)
LEMMA CallStep ==
  ASSUME IInv, NEW a \in Apps, NEW r \in Request, NEW c \in Stack,
         ctl.pc # "install", ApplyElem(a, r, c), UNCHANGED up
  PROVE  IInv'
<1>. USE DEF IInv, TypeOK
<1>1. /\ RegistrationOK' /\ ElementsOK' /\ TasksOK' /\ LoadOK' /\ ShimsOK'
      /\ flow_to_id' \in SUBSET Flows /\ down' = down
      /\ UNCHANGED <<traffic, app_ed, tcp_conn_handlers, sent_on, nsock, shim_sock>>
      /\ OwnersAgree' /\ SessionExact' /\ Unused'
  BY ApplyElemStep
<1>2. PolicyOK' /\ ChannelsOK'
  BY <1>1 DEF PolicyOK, ChannelsOK
<1>3. RegisterOnce' /\ SocketsFresh'
  BY <1>1, ChannelFrame
<1>. QED
  BY <1>1, <1>2, <1>3

LEMMA TimerInitStep == ASSUME IInv, TimerInit PROVE IInv'
<1>. USE ConstantsAssumption DEF IInv, TypeOK, ConstantsAssumption
<1>. DEFINE a == ctl.app
<1>1. ctl.pc = "init" /\ UNCHANGED up
  BY DEF TimerInit
<1>2. ctl \in Stack /\ ctl.chain = <<>> /\ a \in 0..(NApps + 1)
  BY <1>1 DEF TasksOK, Stack, Unused
<1>3. CASE /\ ctl' = [ctl EXCEPT !.pc = "config",
                       !.todo = {ed \in Desc : application_handles[ed] # 0}]
           /\ UNCHANGED <<registration, elements, policy, load, dead, shims, down>>
  <2>. DEFINE d == {ed \in Desc : application_handles[ed] # 0}
  <2>1. d \in SUBSET Desc
    OBVIOUS
  <2>2. ctl' = [ctl EXCEPT !.pc = "config", !.todo = d]
    BY <1>3
  <2>. HIDE DEF d
  <2>3. ctl' \in Stack /\ ctl'.chain = <<>> /\ ctl'.pc # "install"
    BY <1>2, <2>1, <2>2 DEF Stack
  <2>4. PolicyOK' /\ LoadOK' /\ TasksOK' /\ down' \in [Machines -> Seq(DownMsg)]
    BY <1>3, <2>3 DEF PolicyOK, LoadOK, TasksOK, ChannelsOK, policy, load
  <2>. QED
    BY <1>1, <1>3, <2>3, <2>4, TaskStep
<1>4. CASE /\ a \in Apps /\ ctl' = NextApp(ctl)
           /\ \/ UNCHANGED app_ed
              \/ app_ed' = [app_ed EXCEPT ![a] = IF ctl.failed = {} THEN ctl.first
                                                                    ELSE 0]
           /\ UNCHANGED <<registration, elements, flow_to_id, traffic, load, dead,
                          shims, down>>
  <2>1. a + 1 \in 0..(NApps + 1) /\ ctl.first \in Nat
    BY <1>2, <1>4 DEF Apps, Stack
  <2>2. ctl' = [ctl EXCEPT !.app = a + 1, !.req = 1, !.failed = {}, !.first = 0]
    BY <1>4 DEF NextApp
  <2>3. ctl' \in Stack /\ ctl'.chain = <<>> /\ ctl'.pc # "install"
    BY <1>1, <1>2, <2>1, <2>2 DEF Stack
  <2>4. PolicyOK'
    <3>. DEFINE v == IF ctl.failed = {} THEN ctl.first ELSE 0
    <3>1. v \in Nat
      BY <2>1
    <3>2. app_ed' = app_ed \/ app_ed' = [app_ed EXCEPT ![a] = v]
      BY <1>4
    <3>. HIDE DEF v
    <3>. QED
      BY <1>4, <3>1, <3>2 DEF PolicyOK
  <2>5. LoadOK' /\ TasksOK' /\ down' \in [Machines -> Seq(DownMsg)]
    BY <1>4, <2>3 DEF LoadOK, TasksOK, ChannelsOK, load
  <2>. QED
    BY <1>1, <1>4, <2>3, <2>4, <2>5, TaskStep
<1>5. CASE /\ a \in Apps /\ ctl.req \in 1..Len(Requests[a])
           /\ ApplyElem(a, Requests[a][ctl.req],
                        IF ctl.req = 1 THEN [ctl EXCEPT !.first = latest + 1]
                                       ELSE ctl)
  <2>1. Requests[a][ctl.req] \in Request
    BY <1>5
  <2>2. latest + 1 \in Nat
    BY DEF ElementsOK
  <2>3. [ctl EXCEPT !.first = latest + 1] \in Stack
    BY <1>2, <2>2 DEF Stack
  <2>4. PICK c \in Stack : ApplyElem(a, Requests[a][ctl.req], c)
    BY <1>2, <1>5, <2>3
  <2>. QED
    BY <1>1, <1>5, <2>1, <2>4, CallStep
<1>. QED
  BY <1>1, <1>3, <1>4, <1>5 DEF TimerInit, policy

LEMMA HandleLoadedStep == ASSUME IInv, HandleLoaded PROVE IInv'
<1>. USE DEF IInv, TypeOK
<1>1. ctl.pc = "loaded" /\ UNCHANGED up
  BY DEF HandleLoaded
<1>2. ctl \in Stack /\ ctl.chain = <<>>
  BY <1>1 DEF TasksOK, Stack, Unused
<1>3. CASE /\ ctl' = Idle
           /\ UNCHANGED <<registration, elements, policy, load, dead, shims, down>>
  <2>1. PolicyOK' /\ LoadOK' /\ TasksOK' /\ down' \in [Machines -> Seq(DownMsg)]
    BY <1>3, IdleType DEF PolicyOK, LoadOK, TasksOK, ChannelsOK, policy, load
  <2>. QED
    BY <1>1, <1>3, <2>1, IdleType, TaskStep
<1>4. ASSUME NEW c \in Stack, c.chain = <<>>, c.pc = "loaded",
             NEW old_ed \in Desc, ed_to_instance[old_ed] # NoInstance,
             \/ ApplyElem(application_handles[old_ed],
                  [flow |-> ed_to_instance[old_ed].flow,
                   names |-> <<ed_to_instance[old_ed].name>>,
                   params_ok |-> TRUE], c)
             \/ \E new_ed \in Desc : SteerTraffic(old_ed, new_ed, c)
      PROVE  IInv'
  <2>1. /\ ed_to_instance[old_ed] \in Instance
        /\ application_handles[old_ed] = ed_to_instance[old_ed].app
    BY <1>4 DEF ElementsOK, OwnersAgree
  <2>2. /\ ed_to_instance[old_ed].flow \in Flows
        /\ ed_to_instance[old_ed].name \in Names
        /\ application_handles[old_ed] \in Apps
    BY <2>1 DEF Instance
  <2>3. CASE ApplyElem(application_handles[old_ed],
               [flow |-> ed_to_instance[old_ed].flow,
                names |-> <<ed_to_instance[old_ed].name>>, params_ok |-> TRUE], c)
    <3>1. <<ed_to_instance[old_ed].name>> \in Seq(Names) \ {<<>>}
      BY <2>2
    <3>2. [flow |-> ed_to_instance[old_ed].flow,
           names |-> <<ed_to_instance[old_ed].name>>, params_ok |-> TRUE]
            \in Request
      BY <2>2, <3>1, Zenon DEF Request
    <3>. QED
      BY <1>1, <1>4, <2>2, <2>3, <3>2, CallStep
  <2>4. CASE \E new_ed \in Desc : SteerTraffic(old_ed, new_ed, c)
    <3>1. PICK new_ed \in Desc : SteerTraffic(old_ed, new_ed, c)
      BY <2>4
    <3>2. UNCHANGED <<registration, elements, policy, loaded_descs, shims, down>>
      BY <3>1 DEF SteerTraffic
    <3>3. PolicyOK' /\ down' \in [Machines -> Seq(DownMsg)] /\ c.task \in Tasks
      BY <3>2 DEF PolicyOK, ChannelsOK, policy, Stack
    <3>4. old_ed \in 0..MaxDesc /\ new_ed \in 0..MaxDesc
      BY ConstantsAssumption DEF ConstantsAssumption, Desc
    <3>5. LoadOK'
      BY <2>2, <3>1, <3>2, <3>4 DEF SteerTraffic, Migrated, LoadOK
    <3>6. TasksOK' /\ ctl'.chain = <<>> /\ ctl'.pc # "install"
      <4>1. CASE Raise(c.task)
        BY <3>3, <4>1, RaiseType
      <4>2. CASE ctl' = c /\ UNCHANGED dead
        BY <1>4, <4>2 DEF TasksOK
      <4>. QED
        BY <3>1, <4>1, <4>2 DEF SteerTraffic
    <3>. QED
      BY <1>1, <3>2, <3>3, <3>5, <3>6, TaskStep
  <2>. QED
    BY <1>4, <2>3, <2>4
<1>5. \A ed \in ctl.todo :
        /\ [ctl EXCEPT !.todo = @ \ {ed}] \in Stack
        /\ [ctl EXCEPT !.todo = @ \ {ed}].chain = <<>>
        /\ [ctl EXCEPT !.todo = @ \ {ed}].pc = "loaded"
  BY <1>1, <1>2 DEF Stack
<1>. QED
  BY <1>3, <1>4, <1>5 DEF HandleLoaded, ElemDescs, NotLoaded

-----------------------------------------------------------------------------
(* Reading a message from a shim.                                          *)

(* What is left of the channel after a message is read holds no register   *)
(* message, and no other channel changes.                                  *)
LEMMA ReadStep ==
  ASSUME ChannelsOK, RegisterOnce, NEW s \in Socks, up[s] # <<>>,
         up' = [up EXCEPT ![s] = Tail(up[s])]
  PROVE  /\ up' \in [Socks -> Seq(UpMsg)] /\ Head(up[s]) \in UpMsg
         /\ \A t \in Socks : up[t] = <<>> => up'[t] = <<>>
         /\ \A t \in Socks : \A i \in 1..Len(up'[t]) :
              up'[t][i].type = "register" =>
                t # s /\ i \in 1..Len(up[t]) /\ up[t][i].type = "register"
<1>1. up[s] \in Seq(UpMsg) /\ up \in [Socks -> Seq(UpMsg)]
  BY DEF ChannelsOK
<1>2. /\ Tail(up[s]) \in Seq(UpMsg) /\ Head(up[s]) \in UpMsg
      /\ Len(Tail(up[s])) = Len(up[s]) - 1
      /\ \A i \in 1..Len(Tail(up[s])) : Tail(up[s])[i] = up[s][i + 1]
  BY <1>1
<1>3. up'[s] = Tail(up[s]) /\ \A t \in Socks : t # s => up'[t] = up[t]
  BY <1>1
<1>4. up' \in [Socks -> Seq(UpMsg)]
  BY <1>1, <1>2
<1>5. ASSUME NEW i \in 1..Len(up'[s]) PROVE up'[s][i].type # "register"
  <2>1. i + 1 \in 1..Len(up[s]) /\ i + 1 # 1 /\ up'[s][i] = up[s][i + 1]
    BY <1>1, <1>2, <1>3
  <2>. QED
    BY <2>1 DEF RegisterOnce
<1>. QED
  BY <1>2, <1>3, <1>4, <1>5

LEMMA ControllerRecvStep ==
  ASSUME IInv, NEW s \in Socks, ControllerRecv(s)
  PROVE  IInv'
<1>. USE ConstantsAssumption DEF IInv, TypeOK, ConstantsAssumption
<1>1. /\ ctl.pc = "idle" /\ up[s] # <<>>
      /\ up' = [up EXCEPT ![s] = Tail(up[s])]
  BY DEF ControllerRecv, Start, Received
<1>2. /\ up' \in [Socks -> Seq(UpMsg)] /\ Head(up[s]) \in UpMsg
      /\ \A t \in Socks : up[t] = <<>> => up'[t] = <<>>
      /\ \A t \in Socks : \A i \in 1..Len(up'[t]) :
           up'[t][i].type = "register" =>
             t # s /\ i \in 1..Len(up[t]) /\ up[t][i].type = "register"
  BY <1>1, ReadStep
<1>3. s \in Tasks /\ s \in 0..MaxSock
  BY DEF Socks, Tasks, Network
<1>4. ASSUME UNCHANGED <<tcp_conn_handlers, sent_on, nsock, shim_sock>>
      PROVE  RegisterOnce' /\ SocketsFresh'
  <2>1. RegisterOnce'
    BY <1>2, <1>4 DEF RegisterOnce
  <2>2. SocketsFresh'
    BY <1>2, <1>4 DEF SocketsFresh
  <2>. QED
    BY <2>1, <2>2
<1>5. CASE Head(up[s]).type = "register"
  <2>. DEFINE m == Head(up[s]).mac
  <2>1. m \in Machines /\ Register(s, m)
    BY <1>2, <1>5 DEF UpMsg, ControllerRecv
  <2>2. /\ tcp_conn_handlers' = [tcp_conn_handlers EXCEPT ![m] = s]
        /\ mac_to_ip' = mac_to_ip \cup {m}
        /\ mac_to_elems' = [mac_to_elems EXCEPT ![m] = {}]
        /\ UNCHANGED <<hosts, latest, application_handles, ed_to_instance,
                       flow_instances, flow_names, sent_on, policy, load, tasks,
                       shims, down>>
    BY <2>1 DEF Register, WithAddress, Cleared
  <2>3. /\ \A k \in Machines : tcp_conn_handlers[k] # s
        /\ \A ed \in Desc : sent_on[ed] # s
    <3>1. up[s] \in Seq(UpMsg)
      BY DEF ChannelsOK
    <3>2. 1 \in 1..Len(up[s]) /\ up[s][1].type = "register"
      BY <1>1, <1>5, <3>1
    <3>. QED
      BY <3>2 DEF RegisterOnce
  <2>. HIDE DEF m
  <2>4. RegistrationOK' /\ ElementsOK'
    BY <1>3, <2>1, <2>2 DEF RegistrationOK, ElementsOK, Hosts
  <2>5. PolicyOK' /\ LoadOK' /\ TasksOK' /\ ShimsOK' /\ ChannelsOK'
    BY <1>2, <2>2 DEF PolicyOK, LoadOK, TasksOK, ShimsOK, ChannelsOK, policy, load,
       tasks, shims
  <2>6. /\ mac_to_elems'[m] = {} /\ tcp_conn_handlers'[m] = s
        /\ \A k \in Machines \ {m} : /\ mac_to_elems'[k] = mac_to_elems[k]
                                     /\ tcp_conn_handlers'[k] = tcp_conn_handlers[k]
    BY <2>1, <2>2 DEF RegistrationOK, ElementsOK
  <2>7. OwnersAgree'
    BY <2>2, <2>6 DEF OwnersAgree, Instances
  <2>8. SessionExact'
    BY <2>2, <2>3, <2>6 DEF SessionExact, Instances
  <2>9. Unused'
    BY <2>2 DEF Unused, tasks
  <2>10. RegisterOnce'
    BY <1>2, <2>2, <2>6 DEF RegisterOnce
  <2>11. SocketsFresh'
    <3>1. s <= nsock
      BY <1>1 DEF SocketsFresh, Socks, ShimsOK
    <3>. QED
      BY <1>2, <2>2, <2>6, <3>1 DEF SocketsFresh, shims
  <2>. QED
    BY <2>4, <2>5, <2>7, <2>8, <2>9, <2>10, <2>11
<1>6. CASE Head(up[s]).type # "register"
  <2>. DEFINE ed == Head(up[s]).ed
  <2>1. ed \in 0..MaxDesc /\ HandleTrigger(s, ed)
    BY <1>2, <1>6 DEF UpMsg, ControllerRecv
  <2>. HIDE DEF ed
  <2>2. ASSUME \/ UNCHANGED tasks
               \/ Raise(s),
               UNCHANGED <<registration, elements, policy, load, shims, down>>
        PROVE  IInv'
    <3>1. TasksOK' /\ Unused'
      <4>1. CASE UNCHANGED tasks
        BY <2>2, <4>1 DEF TasksOK, Unused, tasks, elements
      <4>2. CASE Raise(s)
        <5>1. TasksOK' /\ ctl' \in Stack /\ ctl'.chain = <<>> /\ ctl'.pc # "install"
          BY <1>3, <4>2, RaiseType
        <5>. QED
          BY <1>1, <2>2, <5>1, UnusedFrame DEF elements
      <4>. QED
        BY <2>2, <4>1, <4>2
    <3>2. RegistrationOK' /\ ElementsOK' /\ PolicyOK' /\ LoadOK' /\ ShimsOK' /\ ChannelsOK'
      BY <1>2, <2>2 DEF RegistrationOK, ElementsOK, PolicyOK, LoadOK, ShimsOK,
         ChannelsOK, registration, elements, policy, load, shims
    <3>3. OwnersAgree' /\ SessionExact'
      BY <2>2, MapsFrame DEF registration, elements
    <3>4. RegisterOnce' /\ SocketsFresh'
      BY <1>4, <2>2 DEF registration, elements, shims
    <3>. QED
      BY <3>1, <3>2, <3>3, <3>4
  <2>3. CASE /\ ed # 0 /\ application_handles[ed] # 0
             /\ \E r \in TriggerRequest[application_handles[ed]] :
                  ApplyElem(application_handles[ed], r, [Idle EXCEPT !.task = s])
    <3>1. application_handles[ed] \in Apps
      BY <2>1, <2>3 DEF ElementsOK, Desc, Apps
    <3>2. PICK r \in Request :
            ApplyElem(application_handles[ed], r, [Idle EXCEPT !.task = s])
      BY <2>3, <3>1
    <3>3. [Idle EXCEPT !.task = s] \in Stack
      BY <1>3, IdleType DEF Stack
    <3>4. /\ RegistrationOK' /\ ElementsOK' /\ TasksOK' /\ LoadOK' /\ ShimsOK'
          /\ flow_to_id' \in SUBSET Flows /\ down' = down
          /\ UNCHANGED <<traffic, app_ed, tcp_conn_handlers, sent_on, nsock, shim_sock>>
          /\ OwnersAgree' /\ SessionExact' /\ Unused'
      BY <1>1, <3>1, <3>2, <3>3, ApplyElemStep
    <3>5. PolicyOK' /\ ChannelsOK'
      BY <1>2, <3>4 DEF PolicyOK, ChannelsOK
    <3>. QED
      BY <1>4, <3>4, <3>5
  <2>. QED
    BY <2>1, <2>2, <2>3 DEF HandleTrigger, HasOwner
<1>. QED
  BY <1>5, <1>6

-----------------------------------------------------------------------------
(* remove_elem.                                                            *)
LEMMA RemoveElemStep ==
  ASSUME IInv, NEW a \in Apps, NEW ed \in Desc, RemoveElem(a, ed)
  PROVE  IInv'
<1>. USE DEF IInv, TypeOK
<1>1. /\ flow_instances' = [f \in Flows |-> flow_instances[f] \ {ed}]
      /\ application_handles' = [application_handles EXCEPT ![ed] = 0]
      /\ ed_to_instance' = [ed_to_instance EXCEPT ![ed] = NoInstance]
      /\ UNCHANGED <<registration, latest, flow_names, sent_on, policy, load, tasks,
                     shims, up>>
  BY DEF RemoveElem, Unlisted, Forgotten
<1>2. PICK m \in MachinesOf(ed) :
        /\ down' = Sent(m, [type |-> "remove", ed |-> ed])
        /\ mac_to_elems' = [mac_to_elems EXCEPT ![m] = mac_to_elems[m] \ {ed}]
  BY DEF RemoveElem, Displaced
<1>3. m \in Machines /\ ed \in mac_to_elems[m]
  BY DEF MachinesOf
<1>4. ed_to_instance[ed].mac = m /\ \A n \in Machines \ {m} : ed \notin mac_to_elems[n]
  BY <1>3 DEF OwnersAgree
<1>5. RegistrationOK' /\ PolicyOK' /\ LoadOK' /\ TasksOK' /\ ShimsOK'
  BY <1>1 DEF RegistrationOK, PolicyOK, LoadOK, TasksOK, ShimsOK, registration,
     policy, load, tasks, shims
<1>6. ElementsOK'
  <2>1. 0 \in 0..NApps
    BY ConstantsAssumption DEF ConstantsAssumption
  <2>2. application_handles' \in [Desc -> 0..NApps]
    BY <1>1, <2>1 DEF ElementsOK
  <2>3. mac_to_elems' \in [Machines -> SUBSET Desc]
    BY <1>2, <1>3 DEF ElementsOK
  <2>4. ed_to_instance' \in [Desc -> Instance \cup {NoInstance}]
    BY <1>1 DEF ElementsOK
  <2>. QED
    BY <1>1, <2>2, <2>3, <2>4 DEF ElementsOK
<1>7. ChannelsOK'
  <2>1. [type |-> "remove", ed |-> ed] \in DownMsg
    BY DEF DownMsg
  <2>. QED
    BY <1>1, <1>2, <1>3, <2>1, SentType DEF ChannelsOK
<1>8. /\ ed_to_instance'[ed] = NoInstance /\ application_handles'[ed] = 0
      /\ \A d \in Desc \ {ed} : /\ ed_to_instance'[d] = ed_to_instance[d]
                                /\ application_handles'[d] = application_handles[d]
      /\ \A n \in Machines : mac_to_elems'[n] = mac_to_elems[n] \ {ed}
  BY <1>1, <1>2, <1>3, <1>4 DEF ElementsOK
<1>9. OwnersAgree'
  <2>. SUFFICES ASSUME NEW d \in Desc
                PROVE  /\ application_handles'[d] = ed_to_instance'[d].app
                       /\ {f \in Flows : d \in flow_instances'[f]} =
                            {f \in Flows : /\ ed_to_instance'[d] # NoInstance
                                           /\ f = ed_to_instance'[d].flow}
                       /\ \A n \in Machines : d \in mac_to_elems'[n] =>
                            /\ ed_to_instance'[d] # NoInstance
                            /\ ed_to_instance'[d].mac = n
    BY DEF OwnersAgree, Instances
  <2>1. CASE d = ed
    BY <1>1, <1>8, <2>1 DEF NoInstance
  <2>2. CASE d # ed
    BY <1>1, <1>8, <2>2 DEF OwnersAgree, Instances
  <2>. QED
    BY <2>1, <2>2
<1>10. SessionExact'
  BY <1>1, <1>8 DEF SessionExact, Instances, registration
<1>11. Unused'
  BY <1>1, <1>8 DEF Unused, tasks
<1>12. RegisterOnce' /\ SocketsFresh'
  BY <1>1, ChannelFrame DEF registration, shims
<1>. QED
  BY <1>5, <1>6, <1>7, <1>9, <1>10, <1>11, <1>12

LEMMA RemoveRaisesStep ==
  ASSUME IInv, NEW a \in Apps, NEW ed \in Desc, RemoveRaises(a, ed)
  PROVE  IInv'
<1>1. /\ ctl.pc = "idle"
      /\ UNCHANGED <<registration, elements, policy, load, processes, up>>
  BY DEF RemoveRaises
<1>2. PICK t \in Tasks :
        \/ Raise(t) /\ UNCHANGED <<down, closed>>
        \/ \E m \in Machines : SendRaises(m, t)
  BY DEF RemoveRaises, MachinesOf
<1>3. ShimsOK' /\ Raise(t) /\ down' = down
  <2>1. CASE Raise(t) /\ UNCHANGED <<down, closed>>
    BY <1>1, <2>1 DEF IInv, TypeOK, ShimsOK, processes
  <2>2. CASE \E m \in Machines : SendRaises(m, t)
    BY <1>1, <2>2, SendRaisesType DEF IInv
  <2>. QED
    BY <1>2, <2>1, <2>2
<1>. QED
  BY <1>1, <1>3, LostStep DEF processes

LEMMA ControllerEofStep ==
  ASSUME IInv, NEW s \in Socks, ControllerEof(s)
  PROVE  IInv'
<1>1. /\ closed' = closed \cup {s}
      /\ UNCHANGED <<registration, elements, policy, load, tasks, processes, down, up>>
  BY DEF ControllerEof
<1>2. ShimsOK' /\ RegistrationOK' /\ PolicyOK' /\ LoadOK'
  BY <1>1 DEF IInv, TypeOK, ShimsOK, RegistrationOK, PolicyOK, LoadOK, processes,
     registration, policy, load
<1>. QED
  BY <1>1, <1>2, OutsideStep DEF registration, processes, IInv, TypeOK, ChannelsOK

-----------------------------------------------------------------------------
(* One turn of the loop that installs a chain: its first element has the   *)
(* lowest descriptor that is not in use.                                   *)
LEMMA HeadUnused ==
  ASSUME TypeOK, Unused, ctl.pc = "install"
  PROVE  LET e == Head(ctl.chain)
             rest == Tail(ctl.chain)
         IN /\ e \in Pending /\ rest \in Seq(Pending)
            /\ Len(rest) = Len(ctl.chain) - 1
            /\ e.ed = latest - Len(rest)
            /\ ed_to_instance[e.ed] = NoInstance
            /\ \A i \in 1..Len(rest) : rest[i].ed = latest - Len(rest) + i
            /\ \A ed \in Desc : ed > latest - Len(rest) =>
                 ed # e.ed /\ ed_to_instance[ed] = NoInstance
            /\ \A ed \in Desc : ed > latest => ed_to_instance[ed] = NoInstance
<1>. DEFINE ch == ctl.chain
            e == Head(ch)
            rest == Tail(ch)
            n == Len(ch)
<1>1. ch \in Seq(Pending) /\ ch # <<>> /\ latest \in Nat
  BY DEF Unused, TypeOK, TasksOK, Stack, ElementsOK
<1>2. \A i \in 1..n : ch[i].ed = latest - n + i
  BY DEF Unused
<1>3. \A ed \in Desc : ed > latest - n => ed_to_instance[ed] = NoInstance
  BY DEF Unused
<1>. HIDE DEF ch
<1>4. /\ n \in Nat /\ n >= 1 /\ e \in Pending /\ e = ch[1]
      /\ rest \in Seq(Pending) /\ Len(rest) = n - 1
      /\ \A i \in 1..Len(rest) : rest[i] = ch[i + 1]
  BY <1>1
<1>. HIDE DEF e, rest, n
<1>5. e.ed = latest - n + 1 /\ e.ed \in Desc
  BY <1>2, <1>4 DEF Pending
<1>6. \A ed \in Desc : ed \in Int
  BY DEF Desc
<1>7. e.ed = latest - Len(rest)
  BY <1>1, <1>4, <1>5
<1>8. ed_to_instance[e.ed] = NoInstance
  BY <1>1, <1>3, <1>4, <1>5
<1>9. \A i \in 1..Len(rest) : rest[i].ed = latest - Len(rest) + i
  <2>. SUFFICES ASSUME NEW i \in 1..Len(rest) PROVE rest[i].ed = latest - Len(rest) + i
    OBVIOUS
  <2>1. i + 1 \in 1..n /\ rest[i] = ch[i + 1]
    BY <1>4
  <2>2. rest[i].ed = latest - n + (i + 1)
    BY <1>2, <2>1
  <2>. QED
    BY <1>1, <1>4, <2>2
<1>10. \A ed \in Desc : ed > latest - Len(rest) =>
         ed # e.ed /\ ed_to_instance[ed] = NoInstance
  BY <1>1, <1>3, <1>4, <1>6, <1>7
<1>11. \A ed \in Desc : ed > latest => ed_to_instance[ed] = NoInstance
  BY <1>1, <1>3, <1>4, <1>6
<1>. QED
  BY <1>4, <1>7, <1>8, <1>9, <1>10, <1>11 DEF ch, e, rest, n

(* What Record(e) does to the maps when e's descriptor is not in use.      *)
LEMMA RecordStep ==
  ASSUME IInv, NEW e \in Pending, e.mac \in Machines,
         ed_to_instance[e.ed] = NoInstance, Record(e),
         UNCHANGED <<tcp_conn_handlers, latest>>,
         sent_on' = [sent_on EXCEPT ![e.ed] = tcp_conn_handlers[e.mac]]
  PROVE  /\ ElementsOK' /\ OwnersAgree' /\ SessionExact'
         /\ \A d \in Desc \ {e.ed} : ed_to_instance'[d] = ed_to_instance[d]
<1>. USE DEF IInv, TypeOK
<1>. DEFINE x == [name |-> e.name, app |-> e.app, mac |-> e.mac, flow |-> e.flow]
<1>0. e.ed \in Desc /\ e.flow \in Flows /\ e.name \in Names /\ e.app \in Apps
  BY DEF Pending
<1>1. x \in Instance /\ x # NoInstance
  <2>1. x \in Instance
    BY <1>0 DEF Instance
  <2>2. x.app # 0 /\ NoInstance.app = 0
    BY <1>0 DEF Apps, NoInstance
  <2>. QED
    BY <2>1, <2>2
<1>2. x.app = e.app /\ x.mac = e.mac /\ x.flow = e.flow
  OBVIOUS
<1>. HIDE DEF x
<1>3. /\ mac_to_elems' = [mac_to_elems EXCEPT ![e.mac] = mac_to_elems[e.mac] \cup {e.ed}]
      /\ flow_names' = [flow_names EXCEPT ![e.flow] = Listed(flow_names[e.flow], e.name)]
      /\ flow_instances' =
           [flow_instances EXCEPT ![e.flow] = flow_instances[e.flow] \cup {e.ed}]
      /\ application_handles' = [application_handles EXCEPT ![e.ed] = e.app]
      /\ ed_to_instance' = [ed_to_instance EXCEPT ![e.ed] = x]
  BY DEF Record, Owned, InstanceListed, Instantiated, x
<1>4. /\ \A d \in Desc \ {e.ed} : /\ ed_to_instance'[d] = ed_to_instance[d]
                                  /\ application_handles'[d] = application_handles[d]
                                  /\ sent_on'[d] = sent_on[d]
      /\ ed_to_instance'[e.ed] = x /\ application_handles'[e.ed] = e.app
      /\ sent_on'[e.ed] = tcp_conn_handlers[e.mac]
  BY <1>0, <1>3 DEF ElementsOK
<1>5. /\ mac_to_elems'[e.mac] = mac_to_elems[e.mac] \cup {e.ed}
      /\ \A m \in Machines \ {e.mac} : mac_to_elems'[m] = mac_to_elems[m]
      /\ flow_instances'[e.flow] = flow_instances[e.flow] \cup {e.ed}
      /\ \A f \in Flows \ {e.flow} : flow_instances'[f] = flow_instances[f]
  BY <1>0, <1>3 DEF ElementsOK
<1>6. /\ \A m \in Machines : e.ed \notin mac_to_elems[m]
      /\ \A f \in Flows : e.ed \notin flow_instances[f]
  BY <1>0 DEF OwnersAgree, Instances
<1>7. ElementsOK'
  <2>1. Listed(flow_names[e.flow], e.name) \in Seq(Names)
    BY <1>0 DEF Listed, ElementsOK
  <2>2. flow_names' \in [Flows -> Seq(Names)]
    BY <1>3, <2>1 DEF ElementsOK
  <2>3. /\ mac_to_elems' \in [Machines -> SUBSET Desc]
        /\ flow_instances' \in [Flows -> SUBSET Desc]
    BY <1>0, <1>3 DEF ElementsOK
  <2>4. ed_to_instance' \in [Desc -> Instance \cup {NoInstance}]
    BY <1>1, <1>3 DEF ElementsOK
  <2>5. e.app \in 0..NApps
    BY <1>0, ConstantsAssumption DEF ConstantsAssumption, Apps
  <2>6. application_handles' \in [Desc -> 0..NApps]
    BY <1>3, <2>5 DEF ElementsOK
  <2>7. sent_on' \in [Desc -> 0..MaxSock]
    BY DEF ElementsOK, RegistrationOK
  <2>. QED
    BY <2>2, <2>3, <2>4, <2>6, <2>7 DEF ElementsOK
<1>8. OwnersAgree'
  <2>. SUFFICES ASSUME NEW d \in Desc
                PROVE  /\ application_handles'[d] = ed_to_instance'[d].app
                       /\ {f \in Flows : d \in flow_instances'[f]} =
                            {f \in Flows : /\ ed_to_instance'[d] # NoInstance
                                           /\ f = ed_to_instance'[d].flow}
                       /\ \A n \in Machines : d \in mac_to_elems'[n] =>
                            /\ ed_to_instance'[d] # NoInstance
                            /\ ed_to_instance'[d].mac = n
    BY DEF OwnersAgree, Instances
  <2>1. CASE d = e.ed
    <3>1. \A f \in Flows : e.ed \in flow_instances'[f] <=> f = e.flow
      BY <1>5, <1>6
    <3>2. \A n \in Machines : e.ed \in mac_to_elems'[n] => n = e.mac
      BY <1>5, <1>6
    <3>. QED
      BY <1>1, <1>2, <1>4, <2>1, <3>1, <3>2
  <2>2. CASE d # e.ed
    <3>1. \A f \in Flows : d \in flow_instances'[f] <=> d \in flow_instances[f]
      BY <1>5, <2>2
    <3>2. \A n \in Machines : d \in mac_to_elems'[n] <=> d \in mac_to_elems[n]
      BY <1>5, <2>2
    <3>. QED
      BY <1>4, <2>2, <3>1, <3>2 DEF OwnersAgree, Instances
  <2>. QED
    BY <2>1, <2>2
<1>9. SessionExact'
  <2>. SUFFICES ASSUME NEW m \in Machines, NEW d \in Desc
                PROVE  d \in mac_to_elems'[m] <=>
                         /\ ed_to_instance'[d] # NoInstance
                         /\ ed_to_instance'[d].mac = m
                         /\ sent_on'[d] = tcp_conn_handlers[m]
    BY DEF SessionExact, Instances
  <2>1. CASE d = e.ed
    BY <1>1, <1>2, <1>4, <1>5, <1>6, <2>1
  <2>2. CASE d # e.ed
    BY <1>4, <1>5, <2>2 DEF SessionExact, Instances
  <2>. QED
    BY <2>1, <2>2
<1>. QED
  BY <1>4, <1>7, <1>8, <1>9

LEMMA InstallNextStep == ASSUME IInv, InstallNext PROVE IInv'
<1>. USE DEF IInv, TypeOK
<1>. DEFINE e == Head(ctl.chain)
            rest == Tail(ctl.chain)
            msg == [type |-> "install", ed |-> e.ed]
<1>1. /\ ctl.pc = "install"
      /\ UNCHANGED <<registration, policy, load, processes, up, latest>>
  BY DEF InstallNext
<1>2. /\ e \in Pending /\ rest \in Seq(Pending)
      /\ Len(rest) = Len(ctl.chain) - 1
      /\ e.ed = latest - Len(rest)
      /\ ed_to_instance[e.ed] = NoInstance
      /\ \A i \in 1..Len(rest) : rest[i].ed = latest - Len(rest) + i
      /\ \A ed \in Desc : ed > latest - Len(rest) =>
           ed # e.ed /\ ed_to_instance[ed] = NoInstance
      /\ \A ed \in Desc : ed > latest => ed_to_instance[ed] = NoInstance
  BY <1>1, HeadUnused
<1>3. /\ ctl \in Stack /\ ctl.task \in Tasks /\ latest \in Nat
      /\ e.ed \in Desc /\ e.mac \in Machines \cup {StrKey}
  BY <1>2 DEF TasksOK, Stack, ElementsOK, Pending
<1>0. UNCHANGED closed \/ (e.mac \in Machines /\ SendRaises(e.mac, ctl.task))
  BY <1>3 DEF InstallNext
<1>4. RegistrationOK' /\ PolicyOK' /\ LoadOK' /\ ShimsOK'
  <2>1. RegistrationOK' /\ PolicyOK' /\ LoadOK'
    BY <1>1 DEF RegistrationOK, PolicyOK, LoadOK, registration, policy, load
  <2>2. CASE UNCHANGED closed
    BY <1>1, <2>1, <2>2 DEF ShimsOK, processes
  <2>3. CASE e.mac \in Machines /\ SendRaises(e.mac, ctl.task)
    BY <1>1, <1>3, <2>1, <2>3, SendRaisesType
  <2>. QED
    BY <1>0, <2>2, <2>3
(* The task leaves the loop: no chain is left.                             *)
<1>5. ASSUME TasksOK', ctl'.chain = <<>>, ctl'.pc # "install",
             \A d \in Desc \ {e.ed} : ed_to_instance'[d] = ed_to_instance[d],
             ed_to_instance' = ed_to_instance \/ rest = <<>>
      PROVE  Unused'
  <2>1. \A ed \in Desc : ed > latest => ed_to_instance'[ed] = NoInstance
    <3>1. CASE ed_to_instance' = ed_to_instance
      BY <1>2, <3>1
    <3>2. CASE rest = <<>>
      <4>1. \A ed \in Desc : ed > latest => ed # e.ed
        BY <1>2, <1>3, <3>2
      <4>. QED
        BY <1>2, <1>5, <4>1
    <3>. QED
      BY <1>5, <3>1, <3>2
  <2>2. Len(ctl'.chain) = 0 /\ latest' = latest
    BY <1>1, <1>5
  <2>3. latest - 0 = latest
    BY <1>3, MinusZero
  <2>. QED
    BY <1>5, <2>1, <2>2, <2>3 DEF Unused
(* Its descriptor may be marked as sent without any map recording it.      *)
<1>6. ASSUME UNCHANGED <<mac_to_elems, flow_names, flow_instances,
                         application_handles, ed_to_instance>>,
             \/ UNCHANGED sent_on
             \/ /\ e.mac \in Machines
                /\ sent_on' = [sent_on EXCEPT ![e.ed] = tcp_conn_handlers[e.mac]]
      PROVE  ElementsOK' /\ OwnersAgree' /\ SessionExact'
  <2>1. OwnersAgree'
    BY <1>6 DEF OwnersAgree, Instances
  <2>2. ElementsOK'
    BY <1>1, <1>3, <1>6 DEF ElementsOK, RegistrationOK
  <2>3. \A d \in Desc \ {e.ed} : sent_on'[d] = sent_on[d]
    BY <1>3, <1>6 DEF ElementsOK
  <2>4. \A m \in Machines : e.ed \notin mac_to_elems[m]
    BY <1>2, <1>3 DEF OwnersAgree, Instances
  <2>5. SessionExact'
    BY <1>1, <1>2, <1>6, <2>3, <2>4 DEF SessionExact, Instances, registration
  <2>. QED
    BY <2>1, <2>2, <2>5
(* The message goes to a connection that has registered.                   *)
<1>7. ASSUME \/ UNCHANGED sent_on
             \/ /\ e.mac \in Machines
                /\ sent_on' = [sent_on EXCEPT ![e.ed] = tcp_conn_handlers[e.mac]]
      PROVE  RegisterOnce' /\ SocketsFresh'
  <2>1. \A d \in Desc : \/ sent_on'[d] = sent_on[d]
                        \/ \E m \in Machines : sent_on'[d] = tcp_conn_handlers[m]
    BY <1>3, <1>7 DEF ElementsOK
  <2>2. RegisterOnce'
    BY <1>1, <2>1 DEF RegisterOnce, registration
  <2>3. SocketsFresh'
    BY <1>1, <2>1 DEF SocketsFresh, registration, processes
  <2>. QED
    BY <2>2, <2>3
<1>8. ASSUME down' = down \/ (e.mac \in Machines /\ down' = Sent(e.mac, msg))
      PROVE  ChannelsOK'
  <2>1. msg \in DownMsg
    BY <1>3 DEF DownMsg
  <2>. HIDE DEF msg
  <2>. QED
    BY <1>1, <1>8, <2>1, SentType DEF ChannelsOK
<1>9. CASE /\ ctl' = Returned(ctl, FALSE)
           /\ UNCHANGED <<dead, down, sent_on, mac_to_elems, flow_names,
                          flow_instances, application_handles, ed_to_instance>>
  <2>1. TasksOK' /\ ctl'.chain = <<>> /\ ctl'.pc # "install"
    BY <1>3, <1>9, ReturnedType DEF TasksOK
  <2>. QED
    BY <1>4, <1>5, <1>6, <1>7, <1>8, <1>9, <2>1
<1>10. CASE /\ Raise(ctl.task)
            /\ UNCHANGED <<mac_to_elems, flow_names, flow_instances,
                           application_handles, ed_to_instance>>
            /\ \/ UNCHANGED <<down, sent_on>>
               \/ /\ e.mac \in Machines /\ down' = Sent(e.mac, msg)
                  /\ sent_on' = [sent_on EXCEPT ![e.ed] = tcp_conn_handlers[e.mac]]
  <2>. HIDE DEF msg
  <2>1. TasksOK' /\ ctl'.chain = <<>> /\ ctl'.pc # "install"
    BY <1>3, <1>10, RaiseType
  <2>2. Unused'
    BY <1>5, <1>10, <2>1
  <2>3. ElementsOK' /\ OwnersAgree' /\ SessionExact'
    BY <1>6, <1>10
  <2>4. RegisterOnce' /\ SocketsFresh' /\ ChannelsOK'
    BY <1>7, <1>8, <1>10
  <2>. QED
    BY <1>4, <2>1, <2>2, <2>3, <2>4
<1>11. CASE /\ e.mac \in Machines /\ down' = Sent(e.mac, msg)
            /\ sent_on' = [sent_on EXCEPT ![e.ed] = tcp_conn_handlers[e.mac]]
            /\ ctl' = IF rest = <<>> THEN Returned(ctl, TRUE)
                                     ELSE [ctl EXCEPT !.chain = rest]
            /\ UNCHANGED dead
            /\ Record(e)
  <2>. HIDE DEF msg
  <2>1. /\ ElementsOK' /\ OwnersAgree' /\ SessionExact'
        /\ \A d \in Desc \ {e.ed} : ed_to_instance'[d] = ed_to_instance[d]
    <3>1. UNCHANGED <<tcp_conn_handlers, latest>>
      BY <1>1 DEF registration
    <3>. QED
      BY <1>2, <1>11, <3>1, RecordStep
  <2>2. RegisterOnce' /\ SocketsFresh' /\ ChannelsOK'
    BY <1>7, <1>8, <1>11
  <2>3. TasksOK' /\ Unused'
    <3>1. CASE rest = <<>>
      <4>1. TasksOK' /\ ctl'.chain = <<>> /\ ctl'.pc # "install"
        BY <1>3, <1>11, <3>1, ReturnedType DEF TasksOK
      <4>. QED
        BY <1>5, <2>1, <3>1, <4>1
    <3>2. CASE rest # <<>>
      <4>1. ctl' = [ctl EXCEPT !.chain = rest]
        BY <1>11, <3>2
      <4>. HIDE DEF rest
      <4>2. ctl' \in Stack /\ ctl'.chain = rest /\ ctl'.pc = "install"
        BY <1>1, <1>2, <1>3, <4>1 DEF Stack
      <4>3. \A ed \in Desc : ed > latest - Len(rest) => ed_to_instance'[ed] = NoInstance
        BY <1>2, <2>1
      <4>4. TasksOK'
        BY <1>11, <4>2 DEF TasksOK
      <4>5. Unused'
        BY <1>1, <1>2, <3>2, <4>2, <4>3 DEF Unused
      <4>. QED
        BY <4>4, <4>5
    <3>. QED
      BY <3>1, <3>2
  <2>. QED
    BY <1>4, <2>1, <2>2, <2>3
<1>. QED
  BY <1>3, <1>9, <1>10, <1>11 DEF InstallNext, SendRaises

-----------------------------------------------------------------------------
(* The theorems.                                                           *)

(* IInv is an inductive invariant: whatever the number of machines,        *)
(* applications, connections and messages, and in whatever order the       *)
(* controller's tasks, the network and the shims take their steps.         *)
THEOREM Inductive == Spec => []IInv
<1>1. Init => IInv
  BY InitIInv
<1>2. IInv /\ [Next]_vars => IInv'
  <2>. SUFFICES ASSUME IInv, [Next]_vars PROVE IInv'
    OBVIOUS
  <2>1. CASE UNCHANGED vars
    <3>1. UNCHANGED <<registration, elements, policy, load, tasks, shims, down, up>>
      BY <2>1 DEF vars
    <3>2. RegistrationOK' /\ PolicyOK' /\ LoadOK' /\ ShimsOK' /\ ChannelsOK'
      BY <3>1 DEF IInv, TypeOK, RegistrationOK, PolicyOK, LoadOK, ShimsOK, ChannelsOK,
         registration, policy, load, shims
    <3>. QED
      BY <3>1, <3>2, OutsideStep DEF registration, shims, ChannelsOK
  <2>2. CASE TimerTick \/ NetworkTick \/ TimerInit \/ TimerConfigure \/ HandleLoaded
    BY <2>2, TimerTickStep, NetworkTickStep, TimerInitStep, TimerConfigureStep,
       HandleLoadedStep
  <2>3. CASE InstallNext
    BY <2>3, InstallNextStep
  <2>4. CASE \E s \in Socks : ControllerRecv(s) \/ ControllerEof(s)
    BY <2>4, ControllerRecvStep, ControllerEofStep
  <2>5. CASE \E a \in Apps, ed \in Desc : RemoveElem(a, ed) \/ RemoveRaises(a, ed)
    BY <2>5, RemoveElemStep, RemoveRaisesStep
  <2>6. CASE \E h \in Hosts : HostJoin(h) \/ HostLeave(h) \/ HostMove(h)
    BY <2>6, HostStep
  <2>7. CASE \E f \in Flows : FlowRemoved(f) \/ PacketIn(f)
    BY <2>7, FlowRemovedStep, PacketInStep
  <2>8. CASE \E m \in Machines :
               ShimStart(m) \/ ShimCrash(m) \/ ShimDecode(m) \/ ShimTrigger(m)
    BY <2>8, ShimStartStep, ShimCrashStep, ShimDecodeStep, ShimTriggerStep
  <2>. QED
    BY <2>1, <2>2, <2>3, <2>4, <2>5, <2>6, <2>7, <2>8 DEF Next
<1>. QED
  BY <1>1, <1>2, PTL DEF Spec

(* The type invariant: no handler of the controller or of a shim ever      *)
(* leaves a machine, a descriptor, a flow space or a message that is none. *)
THEOREM TypeCorrect == Spec => []TypeOK
<1>1. IInv => TypeOK
  BY DEF IInv
<1>. QED
  BY <1>1, Inductive, PTL

(* elem_to_app, elem_to_mac, flow_to_element_instance_mapping and          *)
(* network_model agree about every descriptor in every reachable state.    *)
THEOREM MapsAgree == Spec => []OwnersAgree
<1>1. IInv => OwnersAgree
  BY DEF IInv
<1>. QED
  BY <1>1, Inductive, PTL

(* elem_to_mac lists for a machine exactly the elements whose install      *)
(* message went to the connection it registered last, however often shims  *)
(* crash, come back and register.                                          *)
THEOREM SessionsExact == Spec => []SessionExact
<1>1. IInv => SessionExact
  BY DEF IInv
<1>. QED
  BY <1>1, Inductive, PTL
=============================================================================
