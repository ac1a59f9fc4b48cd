---------------------------- MODULE RecocoProofs ----------------------------
(* For any set of tasks: what POX's scheduler promises its tasks.          *)
EXTENDS Recoco, TLAPS

(* The scheduler runs a task in these places of its loop only.             *)
CurInv == cur # None <=> sched \in {"run", "ping"}

(* What the hub has in hand: it empties its list before it looks again,    *)
(* and has given select() only what waits with it.                         *)
HubInv ==
  /\ hub \in {"scan", "select", "ended"} => rets = {}
  /\ hub \in {"expire", "select"} => rl \subseteq tasks /\ timeoutTask \in tasks \cup {None}
  /\ hub = "pong" => pinged

(* Only tasks that wait are readable or late.                              *)
WaitInv == readable \cup late \subseteq Waiting

(* No wake-up of the hub is lost, wherever it is but between pongAll and   *)
(* emptying the queue.                                                     *)
WakeInv ==
  /\ sched = "wait" /\ ready # << >> => event \/ setting # {}
  /\ hub # "drain" /\ incoming # << >> => pinged \/ sched = "ping"

IInv == TypeOK /\ CurInv /\ HubInv /\ WaitInv /\ WakeInv /\ OnePlace

-----------------------------------------------------------------------------
(* Queues without repetition.                                              *)

Distinct(s) == \A i, j \in DOMAIN s : s[i] = s[j] => i = j

LEMMA AppendDistinct ==
  ASSUME NEW S, NEW s \in Seq(S), NEW x \in S
  PROVE  /\ Append(s, x) \in Seq(S) /\ Append(s, x) # << >>
         /\ ToSet(Append(s, x)) = ToSet(s) \cup {x}
         /\ Distinct(s) /\ x \notin ToSet(s) => Distinct(Append(s, x))
  <1>1. /\ Append(s, x) \in Seq(S) /\ DOMAIN s = 1 .. Len(s) /\ Len(s) \in Nat
        /\ DOMAIN Append(s, x) = 1 .. Len(s) + 1
        /\ Append(s, x)[Len(s) + 1] = x
        /\ \A i \in 1 .. Len(s) : Append(s, x)[i] = s[i]
    OBVIOUS
  <1>2. ToSet(Append(s, x)) = ToSet(s) \cup {x}
    <2> DEFINE t == Append(s, x)
    <2>1. \A i \in 1 .. Len(s) + 1 : i \in 1 .. Len(s) \/ i = Len(s) + 1  BY <1>1
    <2>2. Len(s) + 1 \in 1 .. Len(s) + 1 /\ 1 .. Len(s) \subseteq 1 .. Len(s) + 1  BY <1>1
    <2> QED  BY <1>1, <2>1, <2>2 DEF ToSet
  <1>3. Distinct(s) /\ x \notin ToSet(s) => Distinct(Append(s, x))
    BY <1>1 DEF Distinct, ToSet
  <1> QED  BY <1>1, <1>2, <1>3

LEMMA EmptySet == ToSet(<< >>) = {}
  BY DEF ToSet

(* _ready, as a queue of tasks.                                            *)
ReadyDistinct == \A i, j \in DOMAIN ready : ready[i].task = ready[j].task => i = j
Entries == [task : Tasks, start : BOOLEAN]

LEMMA ReadyAppend ==
  ASSUME ready \in Seq(Entries), NEW t \in Tasks, NEW b \in BOOLEAN,
         ready' = Append(ready, [task |-> t, start |-> b])
  PROVE  /\ ready' \in Seq(Entries) /\ ready' # << >> /\ Ready' = Ready \cup {t}
         /\ ReadyDistinct /\ t \notin Ready => ReadyDistinct'
  <1> DEFINE x == [task |-> t, start |-> b]
  <1>1. x \in Entries /\ x.task = t  BY DEF Entries
  <1>2. /\ ready' \in Seq(Entries) /\ DOMAIN ready = 1 .. Len(ready) /\ Len(ready) \in Nat
        /\ DOMAIN ready' = 1 .. Len(ready) + 1
        /\ ready'[Len(ready) + 1] = x
        /\ \A i \in 1 .. Len(ready) : ready'[i] = ready[i]
    <2>1. ready' = Append(ready, x)  OBVIOUS
    <2> HIDE DEF x
    <2> QED  BY <1>1, <2>1
  <1> HIDE DEF x
  <1>3. Ready' = Ready \cup {t}
    <2>1. \A i \in 1 .. Len(ready) + 1 : i \in 1 .. Len(ready) \/ i = Len(ready) + 1  BY <1>2
    <2>2. Len(ready) + 1 \in 1 .. Len(ready) + 1 /\ 1 .. Len(ready) \subseteq 1 .. Len(ready) + 1
      BY <1>2
    <2> QED  BY <1>1, <1>2, <2>1, <2>2 DEF Ready
  <1>4. ReadyDistinct /\ t \notin Ready => ReadyDistinct'
    BY <1>1, <1>2 DEF ReadyDistinct, Ready
  <1>5. ready' # << >>  BY <1>2
  <1> QED  BY <1>2, <1>3, <1>4, <1>5

LEMMA ReadyTail ==
  ASSUME ready \in Seq(Entries), ready # << >>, ready' = Tail(ready), ReadyDistinct
  PROVE  /\ ready' \in Seq(Entries) /\ ReadyDistinct'
         /\ Head(ready).task \in Ready /\ Head(ready).task \in Tasks
         /\ Ready' = Ready \ {Head(ready).task}
  <1>1. /\ ready' \in Seq(Entries) /\ DOMAIN ready = 1 .. Len(ready) /\ Len(ready) \in Nat \ {0}
        /\ DOMAIN ready' = 1 .. Len(ready) - 1 /\ Head(ready) = ready[1]
        /\ \A i \in 1 .. Len(ready) - 1 : ready'[i] = ready[i + 1]
    OBVIOUS
  <1>2. 1 \in DOMAIN ready /\ ready[1].task \in Tasks
    <2>1. ready[1] \in Entries  BY <1>1
    <2> QED  BY <1>1, <2>1 DEF Entries
  <1>3. \A i \in DOMAIN ready' : i + 1 \in DOMAIN ready /\ i + 1 # 1  BY <1>1
  <1>4. \A i \in DOMAIN ready : i = 1 \/ (i - 1 \in DOMAIN ready' /\ ready'[i - 1] = ready[i])
    BY <1>1
  <1>5. ReadyDistinct'  BY <1>1, <1>3 DEF ReadyDistinct
  <1>6. Ready' = Ready \ {ready[1].task}
    <2>1. Ready' \subseteq Ready  BY <1>1, <1>3 DEF Ready
    <2>2. ready[1].task \notin Ready'  BY <1>1, <1>2, <1>3 DEF Ready, ReadyDistinct
    <2>3. ASSUME NEW i \in DOMAIN ready  PROVE ready[i].task \in Ready' \cup {ready[1].task}
      <3>1. CASE i = 1  BY <3>1
      <3>2. CASE i - 1 \in DOMAIN ready' /\ ready'[i - 1] = ready[i]
        <4>1. ready'[i - 1].task \in Ready'  BY <3>2 DEF Ready
        <4> QED  BY <3>2, <4>1
      <3> QED  BY <1>4, <3>1, <3>2
    <2>4. Ready \subseteq Ready' \cup {ready[1].task}  BY <2>3 DEF Ready
    <2> QED  BY <2>1, <2>2, <2>4
  <1> QED  BY <1>1, <1>2, <1>5, <1>6 DEF Ready

(* A ScheduleTask gives way to its task.                                   *)
LEMMA ReadyStart ==
  ASSUME ready \in Seq(Entries), ready # << >>, ReadyDistinct,
         ready' = <<Entry(Head(ready).task)>> \o Tail(ready)
  PROVE  ready' \in Seq(Entries) /\ ReadyDistinct' /\ Ready' = Ready /\ ready' # << >>
  <1> DEFINE x == Entry(Head(ready).task)
  <1>1. Head(ready) \in Entries /\ Head(ready) = ready[1] /\ Tail(ready) \in Seq(Entries)
    OBVIOUS
  <1>2. x \in Entries /\ x.task = ready[1].task  BY <1>1 DEF Entry, Entries
  <1> HIDE DEF x
  <1>3. /\ ready' \in Seq(Entries) /\ DOMAIN ready = 1 .. Len(ready) /\ Len(ready) \in Nat \ {0}
        /\ DOMAIN ready' = 1 .. Len(ready) /\ ready'[1] = x
        /\ \A i \in 2 .. Len(ready) : ready'[i] = ready[i]
    <2>1. ready' = <<x>> \o Tail(ready)  BY DEF x
    <2>2. /\ Len(Tail(ready)) = Len(ready) - 1 /\ Len(ready) \in Nat \ {0} /\ <<x>> \in Seq(Entries)
          /\ \A i \in 1 .. Len(ready) - 1 : Tail(ready)[i] = ready[i + 1]
      BY <1>2
    <2>3. ready' \in Seq(Entries) /\ Len(ready') = Len(ready)  BY <1>1, <2>1, <2>2
    <2>4. ready'[1] = x  BY <1>1, <2>1, <2>2
    <2>5. ASSUME NEW i \in 2 .. Len(ready)  PROVE ready'[i] = ready[i]
      <3>1. i - 1 \in 1 .. Len(ready) - 1 /\ i = (i - 1) + 1  BY <2>2
      <3>2. ready'[i] = Tail(ready)[i - 1]  BY <1>1, <2>1, <2>2, <3>1
      <3> QED  BY <2>2, <3>1, <3>2
    <2> QED  BY <2>2, <2>3, <2>4, <2>5
  <1>4. \A i \in DOMAIN ready : ready'[i].task = ready[i].task
    <2>1. \A i \in DOMAIN ready : i = 1 \/ i \in 2 .. Len(ready)  BY <1>3
    <2> QED  BY <1>2, <1>3, <2>1
  <1>5. DOMAIN ready' = DOMAIN ready  BY <1>3
  <1>6. Ready' = Ready  BY <1>4, <1>5 DEF Ready
  <1>7. ReadyDistinct'  BY <1>4, <1>5 DEF ReadyDistinct
  <1>8. ready' # << >>  BY <1>3
  <1> QED  BY <1>3, <1>6, <1>7, <1>8

(* Six sets with no member in common.                                      *)
Disjoint(a, b, c, d, e, f) ==
  \A t : /\ t \in a => t \notin b /\ t \notin c /\ t \notin d /\ t \notin e /\ t \notin f
         /\ t \in b => t \notin c /\ t \notin d /\ t \notin e /\ t \notin f
         /\ t \in c => t \notin d /\ t \notin e /\ t \notin f
         /\ t \in d => t \notin e /\ t \notin f
         /\ t \in e => t \notin f

LEMMA DisjointTuple ==
  ASSUME NEW a, NEW b, NEW c, NEW d, NEW e, NEW f
  PROVE  (\A i, j \in DOMAIN <<a, b, c, d, e, f>> :
            i # j => <<a, b, c, d, e, f>>[i] \cap <<a, b, c, d, e, f>>[j] = {})
         <=> Disjoint(a, b, c, d, e, f)
  <1> DEFINE p == <<a, b, c, d, e, f>>
  <1>1. /\ DOMAIN p = 1 .. 6
        /\ p[1] = a /\ p[2] = b /\ p[3] = c /\ p[4] = d /\ p[5] = e /\ p[6] = f
    OBVIOUS
  <1> HIDE DEF p
  <1>2. (\A i, j \in 1 .. 6 : i # j => p[i] \cap p[j] = {}) <=>
        /\ p[1] \cap p[2] = {} /\ p[1] \cap p[3] = {} /\ p[1] \cap p[4] = {}
        /\ p[1] \cap p[5] = {} /\ p[1] \cap p[6] = {} /\ p[2] \cap p[3] = {}
        /\ p[2] \cap p[4] = {} /\ p[2] \cap p[5] = {} /\ p[2] \cap p[6] = {}
        /\ p[3] \cap p[4] = {} /\ p[3] \cap p[5] = {} /\ p[3] \cap p[6] = {}
        /\ p[4] \cap p[5] = {} /\ p[4] \cap p[6] = {} /\ p[5] \cap p[6] = {}
    OBVIOUS
  <1>3. (\A i, j \in 1 .. 6 : i # j => p[i] \cap p[j] = {}) <=> Disjoint(a, b, c, d, e, f)
    BY <1>1, <1>2 DEF Disjoint
  <1> QED  BY <1>1, <1>3 DEF p

-----------------------------------------------------------------------------
(* What the steps do to _ready and to _incoming.                           *)

USE DEF Entry, ScheduleTask

LEMMA Facts ==
  ASSUME IInv
  PROVE  /\ ready \in Seq(Entries) /\ incoming \in Seq(Tasks) /\ ReadyDistinct /\ Distinct(incoming)
         /\ sched = "run" => cur \in Tasks /\ Running = {cur}
         /\ sched # "run" => Running = {}
         /\ Disjoint(fresh, Running, ToSet(incoming), tasks, rets, Ready)
  <1>1. ready \in Seq(Entries) /\ incoming \in Seq(Tasks) /\ ReadyDistinct /\ Distinct(incoming)
    BY DEF IInv, TypeOK, OnePlace, Entries, ReadyDistinct, Distinct
  <1>2. /\ sched = "run" => cur \in Tasks /\ Running = {cur}
        /\ sched # "run" => Running = {}
    BY RecocoAssumption DEF IInv, TypeOK, CurInv, Running
  <1>3. Disjoint(fresh, Running, ToSet(incoming), tasks, rets, Ready)
    BY DisjointTuple DEF IInv, OnePlace, Places
  <1> QED  BY <1>1, <1>2, <1>3

LEMMA CycleEffect ==
  ASSUME IInv, Cycle
  PROVE  /\ ready' \in Seq(Entries) /\ ReadyDistinct' /\ event' \in BOOLEAN
         /\ cur = None /\ (event => event')
         /\ \/ Ready' = Ready /\ sched' = "check" /\ cur' = None
            \/ \E t \in Tasks : /\ t \in Ready /\ Ready' = Ready \ {t}
                                /\ sched' = "run" /\ cur' = t
  <1>1. ready \in Seq(Entries) /\ ReadyDistinct /\ event \in BOOLEAN  BY Facts DEF IInv, TypeOK
  <1>2. cur = None  BY DEF IInv, CurInv, Cycle
  <1>3. CASE ready = << >> /\ sched' = "check" /\ UNCHANGED <<cur, ready, event>>
    BY <1>1, <1>2, <1>3 DEF Ready, ReadyDistinct
  <1>4. CASE /\ ready # << >> /\ ready' = Tail(ready) /\ UNCHANGED event
             /\ cur' = Head(ready).task /\ sched' = "run"
    BY <1>1, <1>2, <1>4, ReadyTail
  <1>5. CASE /\ ready # << >> /\ sched' = "check" /\ UNCHANGED cur
             /\ ready' = <<Entry(Head(ready).task)>> \o Tail(ready) /\ event' = TRUE
    BY <1>1, <1>2, <1>5, ReadyStart
  <1>6. ~(ready # << >> /\ Contains(Tail(ready), Entry(Head(ready).task)))
    <2> SUFFICES ASSUME ready # << >>, Contains(Tail(ready), Entry(Head(ready).task))
                 PROVE  FALSE
      OBVIOUS
    <2>1. /\ Len(ready) \in Nat \ {0} /\ DOMAIN ready = 1 .. Len(ready)
          /\ Len(Tail(ready)) = Len(ready) - 1 /\ Head(ready) = ready[1]
          /\ \A i \in 1 .. Len(ready) - 1 : Tail(ready)[i] = ready[i + 1]
      BY <1>1
    <2>2. PICK i \in 1 .. Len(ready) - 1 : ready[i + 1] = Entry(ready[1].task)
      <3>1. PICK i \in 1 .. Len(Tail(ready)) : Tail(ready)[i] = Entry(Head(ready).task)
        BY DEF Contains
      <3> QED  BY <2>1, <3>1
    <2>3. ready[i + 1].task = ready[1].task /\ i + 1 \in DOMAIN ready /\ 1 \in DOMAIN ready
      BY <2>1, <2>2
    <2>4. i + 1 = 1  BY <1>1, <2>3 DEF ReadyDistinct
    <2> QED  BY <2>1, <2>4
  <1> QED  BY <1>3, <1>4, <1>5, <1>6 DEF Cycle

(* A task is added to _ready.                                              *)
Added(t) == /\ ready' \in Seq(Entries) /\ ready' # << >> /\ Ready' = Ready \cup {t}
            /\ t \notin Ready => ReadyDistinct'

LEMMA SpawnEffect ==
  ASSUME IInv, NEW t \in Tasks, Spawn(t) \/ StartTask(t)
  PROVE  Added(t) /\ t \in fresh /\ fresh' = fresh \ {t}
  <1>1. \E b \in BOOLEAN : ready' = Append(ready, [task |-> t, start |-> b])
    BY DEF Spawn, StartTask
  <1>2. Added(t)  BY <1>1, Facts, ReadyAppend DEF Added
  <1> QED  BY <1>2 DEF Spawn, StartTask

LEMMA RescheduleEffect ==
  ASSUME IInv, Reschedule
  PROVE  cur \in Tasks /\ Added(cur)
  <1>1. cur \in Tasks  BY Facts DEF Reschedule
  <1>2. ready' = Append(ready, [task |-> cur, start |-> FALSE])  BY DEF Reschedule
  <1> QED  BY <1>1, <1>2, Facts, ReadyAppend DEF Added

LEMMA ReturnEffect ==
  ASSUME IInv, Return
  PROVE  \E t \in Tasks : t \in rets /\ rets' = rets \ {t} /\ Added(t)
  <1>1. PICK t \in rets : rets' = rets \ {t} /\ ready' = Append(ready, Entry(t))
    BY DEF Return
  <1>2. t \in Tasks  BY DEF IInv, TypeOK
  <1>3. Added(t)  BY <1>1, <1>2, Facts, ReadyAppend DEF Added
  <1> QED  BY <1>1, <1>2, <1>3

LEMMA BlockEffect ==
  ASSUME IInv, Block
  PROVE  /\ cur \in Tasks /\ incoming' \in Seq(Tasks) /\ incoming' # << >>
         /\ ToSet(incoming)' = ToSet(incoming) \cup {cur}
         /\ cur \notin ToSet(incoming) => Distinct(incoming)'
  <1>1. cur \in Tasks /\ incoming \in Seq(Tasks) /\ Distinct(incoming)  BY Facts DEF Block
  <1>2. incoming' = Append(incoming, cur)  BY DEF Block
  <1>3. ToSet(incoming') = ToSet(incoming) \cup {cur} /\ incoming' \in Seq(Tasks) /\ incoming' # << >>
        /\ (cur \notin ToSet(incoming) => Distinct(incoming'))
    BY <1>1, <1>2, AppendDistinct
  <1>4. ToSet(incoming)' = ToSet(incoming')  BY DEF ToSet
  <1>5. Distinct(incoming)' <=> Distinct(incoming')  BY DEF Distinct
  <1> QED  BY <1>1, <1>3, <1>4, <1>5

-----------------------------------------------------------------------------
(* The invariant is inductive.                                             *)

LEMMA InitIInv == Init => IInv
  <1> SUFFICES ASSUME Init PROVE IInv  OBVIOUS
  <1>1. TypeOK
    <2>1. << >> \in Seq(Entries) /\ << >> \in Seq(Tasks)  OBVIOUS
    <2> QED  BY <2>1 DEF Init, TypeOK, Entries
  <1>2. CurInv /\ HubInv /\ WaitInv /\ WakeInv  BY DEF Init, CurInv, HubInv, WaitInv, WakeInv
  <1>3. ToSet(incoming) = {} /\ Ready = {} /\ Running = {}
    BY EmptySet DEF Init, Ready, Running
  <1>4. Disjoint(fresh, Running, ToSet(incoming), tasks, rets, Ready)
    BY <1>3 DEF Init, Disjoint
  <1>5. OnePlace
    <2>1. \A i, j \in DOMAIN Places : i # j => Places[i] \cap Places[j] = {}
      BY <1>4, DisjointTuple DEF Places
    <2>2. DOMAIN incoming = {} /\ DOMAIN ready = {}  BY DEF Init
    <2> QED  BY <2>1, <2>2 DEF OnePlace
  <1> QED  BY <1>1, <1>2, <1>5 DEF IInv

LEMMA NextTypeOK ==
  ASSUME IInv, Next
  PROVE  TypeOK'
  <1>0. TypeOK  BY DEF IInv
  <1>1. CASE Check \/ Wait \/ WaitTimeout \/ Clear \/ Ping \/ End \/ Final \/ Quit
    BY <1>0, <1>1 DEF Check, Wait, WaitTimeout, Clear, Ping, End, Final, Quit, TypeOK,
                      hubVars, shared, world
  <1>2. CASE Cycle
    <2>1. ready' \in Seq(Entries) /\ event' \in BOOLEAN /\ cur' \in Tasks \cup {None}
          /\ sched' \in {"check", "run"}
      BY <1>2, CycleEffect
    <2> QED  BY <1>0, <1>2, <2>1 DEF Cycle, TypeOK, Entries, hubVars, world
  <1>3. ASSUME NEW t \in Tasks, Spawn(t)  PROVE TypeOK'
    <2>1. ready' \in Seq(Entries)  BY <1>3, SpawnEffect DEF Added
    <2> QED  BY <1>0, <1>3, <2>1 DEF Spawn, TypeOK, Entries, schedVars, hubVars
  <1>4. ASSUME NEW t \in Tasks, StartTask(t)  PROVE TypeOK'
    <2>1. ready' \in Seq(Entries)  BY <1>4, SpawnEffect DEF Added
    <2> QED  BY <1>0, <1>4, <2>1 DEF StartTask, TypeOK, Entries, Threads, schedVars, hubVars
  <1>5. CASE Block
    <2>1. cur \in Tasks /\ incoming' \in Seq(Tasks)  BY <1>5, BlockEffect
    <2> QED  BY <1>0, <1>5, <2>1 DEF Block, TypeOK, hubVars
  <1>6. CASE Reschedule
    <2>1. ready' \in Seq(Entries)  BY <1>6, RescheduleEffect DEF Added
    <2> QED  BY <1>0, <1>6, <2>1 DEF Reschedule, TypeOK, Entries, hubVars, world
  <1>7. CASE Scan
    BY <1>0, <1>7 DEF Scan, Returning, TypeOK, schedVars, shared
  <1>8. CASE SelectTimeout
    <2>1. timeoutTask \in late => timeoutTask \in Tasks  BY <1>0 DEF TypeOK
    <2> QED  BY <1>0, <1>8, <2>1 DEF SelectTimeout, Returning, TypeOK, schedVars, shared
  <1>9. CASE Select
    BY <1>0, <1>9 DEF Select, Returning, TypeOK, schedVars, shared
  <1>10. CASE PongAll
    BY <1>0, <1>10 DEF PongAll, TypeOK, schedVars, world
  <1>11. CASE Drain
    <2>1. ToSet(incoming) \subseteq Tasks /\ << >> \in Seq(Tasks)  BY <1>0 DEF TypeOK, ToSet
    <2> QED  BY <1>0, <1>11, <2>1 DEF Drain, TypeOK, schedVars, world
  <1>12. CASE Return
    <2>1. ready' \in Seq(Entries) /\ rets' \subseteq rets  BY <1>12, ReturnEffect DEF Added
    <2> QED  BY <1>0, <1>12, <2>1 DEF Return, TypeOK, Entries, Threads, schedVars, world
  <1>13. ASSUME NEW th \in Threads, Set(th)  PROVE TypeOK'
    BY <1>0, <1>13 DEF Set, TypeOK, schedVars, hubVars, world
  <1>14. ASSUME NEW t \in Tasks, Arrive(t) \/ Pass(t)  PROVE TypeOK'
    BY <1>0, <1>14 DEF Arrive, Pass, TypeOK, schedVars, hubVars, shared
  <1> QED
    BY <1>1, <1>2, <1>3, <1>4, <1>5, <1>6, <1>7, <1>8, <1>9, <1>10, <1>11, <1>12, <1>13, <1>14
       DEF Next, SchedulerStep, HubStep

LEMMA NextCurInv ==
  ASSUME IInv, Next
  PROVE  CurInv'
  <1>0. TypeOK /\ CurInv  BY DEF IInv
  <1>1. CASE UNCHANGED <<sched, cur>>  BY <1>0, <1>1 DEF CurInv
  <1>2. CASE Cycle  BY <1>2, CycleEffect, RecocoAssumption DEF CurInv
  <1>3. CASE Check \/ Wait \/ WaitTimeout \/ Clear \/ Block \/ Ping \/ Reschedule \/ End \/ Final
    BY <1>0, <1>3 DEF Check, Wait, WaitTimeout, Clear, Block, Ping, Reschedule, End, Final, CurInv
  <1>4. CASE HubStep \/ Quit
    BY <1>1, <1>4 DEF HubStep, Scan, SelectTimeout, Select, PongAll, Drain, Return, Quit, schedVars
  <1>5. ASSUME NEW th \in Threads, Set(th)  PROVE CurInv'
    BY <1>1, <1>5 DEF Set, schedVars
  <1>6. ASSUME NEW t \in Tasks, Spawn(t) \/ StartTask(t) \/ Arrive(t) \/ Pass(t)  PROVE CurInv'
    BY <1>1, <1>6 DEF Spawn, StartTask, Arrive, Pass, schedVars
  <1> QED  BY <1>2, <1>3, <1>4, <1>5, <1>6 DEF Next, SchedulerStep

LEMMA NextHubInv ==
  ASSUME IInv, Next
  PROVE  HubInv'
  <1>0. TypeOK /\ HubInv  BY DEF IInv
  <1>1. CASE UNCHANGED hubVars /\ (pinged => pinged')
    BY <1>0, <1>1 DEF HubInv, hubVars
  <1>2. CASE SchedulerStep \/ WaitTimeout \/ Quit
    BY <1>1, <1>2 DEF SchedulerStep, Check, Wait, WaitTimeout, Clear, Cycle, Block, Ping,
                      Reschedule, End, Final, Quit, shared
  <1>3. ASSUME NEW th \in Threads, Set(th)  PROVE HubInv'
    BY <1>1, <1>3 DEF Set
  <1>4. ASSUME NEW t \in Tasks, Spawn(t) \/ StartTask(t) \/ Arrive(t) \/ Pass(t)  PROVE HubInv'
    BY <1>1, <1>4 DEF Spawn, StartTask, Arrive, Pass, shared
  <1>5. CASE Scan
    BY <1>0, <1>5 DEF Scan, Returning, HubInv, TypeOK, shared
  <1>6. CASE SelectTimeout
    BY <1>0, <1>6 DEF SelectTimeout, Returning, HubInv, TypeOK, shared
  <1>7. CASE Select
    BY <1>0, <1>7 DEF Select, Returning, HubInv, TypeOK, shared
  <1>8. CASE PongAll \/ Drain
    BY <1>0, <1>8 DEF PongAll, Drain, HubInv, TypeOK
  <1>9. CASE Return
    BY <1>0, <1>9 DEF Return, HubInv, TypeOK
  <1> QED
    BY <1>2, <1>3, <1>4, <1>5, <1>6, <1>7, <1>8, <1>9 DEF Next, HubStep

LEMMA NextWakeInv ==
  ASSUME IInv, Next
  PROVE  WakeInv'
  <1>0. TypeOK /\ WakeInv /\ HubInv  BY DEF IInv
  <1>2. CASE Check \/ Wait \/ WaitTimeout \/ Clear \/ Final \/ End
    BY <1>0, <1>2 DEF Check, Wait, WaitTimeout, Clear, Final, End, WakeInv, hubVars, shared, world
  <1>3. CASE Cycle
    BY <1>0, <1>3, CycleEffect DEF Cycle, WakeInv, hubVars
  <1>4. CASE Block \/ Ping \/ Reschedule \/ Quit
    BY <1>0, <1>4 DEF Block, Ping, Reschedule, Quit, WakeInv, hubVars, shared
  <1>5. CASE Scan \/ SelectTimeout \/ Select
    BY <1>0, <1>5 DEF Scan, SelectTimeout, Select, WakeInv, schedVars, shared
  <1>6. CASE PongAll \/ Drain
    BY <1>0, <1>6 DEF PongAll, Drain, WakeInv, schedVars
  <1>7. CASE Return
    <2>1. setting' # {} /\ hub # "drain"  BY <1>7 DEF Return
    <2> QED  BY <1>0, <1>7, <2>1 DEF Return, WakeInv, schedVars
  <1>8. ASSUME NEW th \in Threads, Set(th)  PROVE WakeInv'
    BY <1>0, <1>8 DEF Set, WakeInv, schedVars, hubVars
  <1>9. ASSUME NEW t \in Tasks, Spawn(t) \/ StartTask(t)  PROVE WakeInv'
    BY <1>0, <1>9 DEF Spawn, StartTask, WakeInv, schedVars, hubVars
  <1>10. ASSUME NEW t \in Tasks, Arrive(t) \/ Pass(t)  PROVE WakeInv'
    BY <1>0, <1>10 DEF Arrive, Pass, WakeInv, schedVars, hubVars, shared
  <1> QED
    BY <1>2, <1>3, <1>4, <1>5, <1>6, <1>7, <1>8, <1>9, <1>10 DEF Next, SchedulerStep, HubStep

LEMMA NextWaitInv ==
  ASSUME IInv, Next
  PROVE  WaitInv'
  <1>0. TypeOK /\ WaitInv /\ HubInv  BY DEF IInv
  <1>1. ASSUME ToSet(incoming)' = ToSet(incoming), UNCHANGED <<tasks, readable, late>>
        PROVE  WaitInv'
    BY <1>0, <1>1 DEF WaitInv, Waiting
  <1>2. ASSUME UNCHANGED <<incoming, tasks, readable, late>>  PROVE WaitInv'
    <2>1. ToSet(incoming)' = ToSet(incoming)  BY <1>2 DEF ToSet
    <2> QED  BY <1>1, <1>2, <2>1
  <1>3. CASE \/ Check \/ Wait \/ WaitTimeout \/ Clear \/ Cycle \/ Ping
             \/ Reschedule \/ End \/ Final \/ Quit
    BY <1>2, <1>3 DEF Check, Wait, WaitTimeout, Clear, Cycle, Ping, Reschedule, End, Final, Quit,
                      hubVars, shared, world
  <1>4. CASE Block
    <2>1. ToSet(incoming)' = ToSet(incoming) \cup {cur}  BY <1>4, BlockEffect
    <2>2. UNCHANGED <<tasks, late>> /\ readable' \subseteq readable \cup {cur}
      BY <1>4 DEF Block, hubVars
    <2> QED  BY <1>0, <2>1, <2>2 DEF WaitInv, Waiting
  <1>5. ASSUME NEW ts, Returning(ts), UNCHANGED incoming  PROVE WaitInv'
    <2>1. ToSet(incoming)' = ToSet(incoming)  BY <1>5 DEF ToSet
    <2> QED  BY <1>0, <1>5, <2>1 DEF Returning, WaitInv, Waiting
  <1>6. CASE Scan
    <2>1. UNCHANGED incoming  BY <1>6 DEF Scan, shared
    <2>2. CASE hasQuit  BY <1>2, <1>6, <2>1, <2>2 DEF Scan
    <2>3. CASE ~hasQuit
      <3>1. Returning(tasks \cap Timed \cap late)  BY <1>6, <2>3 DEF Scan
      <3> QED  BY <1>5, <2>1, <3>1
    <2> QED  BY <2>2, <2>3
  <1>7. CASE SelectTimeout
    <2>1. UNCHANGED incoming  BY <1>7 DEF SelectTimeout, shared
    <2>2. Returning({timeoutTask}) \/ UNCHANGED <<tasks, readable, late>>
      BY <1>7 DEF SelectTimeout
    <2> QED  BY <1>2, <1>5, <2>1, <2>2
  <1>8. CASE Select
    <2>1. Returning(rl \cap readable) /\ UNCHANGED incoming  BY <1>8 DEF Select, shared
    <2> QED  BY <1>5, <2>1
  <1>9. CASE PongAll \/ Return
    BY <1>2, <1>9 DEF PongAll, Return, world
  <1>10. CASE Drain
    <2>1. Waiting' = Waiting
      <3>1. tasks' = tasks \cup ToSet(incoming) /\ incoming' = << >>  BY <1>10 DEF Drain
      <3>2. ToSet(incoming)' = {}  BY <3>1, EmptySet
      <3> QED  BY <3>1, <3>2 DEF Waiting
    <2> QED  BY <1>0, <1>10, <2>1 DEF Drain, WaitInv, world
  <1>11. ASSUME NEW th \in Threads, Set(th)  PROVE WaitInv'
    BY <1>2, <1>11 DEF Set, hubVars, world
  <1>12. ASSUME NEW t \in Tasks, Spawn(t) \/ StartTask(t)  PROVE WaitInv'
    BY <1>2, <1>12 DEF Spawn, StartTask, hubVars
  <1>13. ASSUME NEW t \in Tasks, Arrive(t) \/ Pass(t)  PROVE WaitInv'
    <2>1. Waiting' = Waiting  BY <1>13 DEF Arrive, Pass, Waiting, ToSet, hubVars, shared
    <2>2. t \in Waiting /\ readable' \subseteq readable \cup {t} /\ late' \subseteq late \cup {t}
      BY <1>13 DEF Arrive, Pass
    <2> QED  BY <1>0, <2>1, <2>2 DEF WaitInv
  <1> QED
    BY <1>3, <1>4, <1>6, <1>7, <1>8, <1>9, <1>10, <1>11, <1>12, <1>13
       DEF Next, SchedulerStep, HubStep

(* OnePlace of the next state, from the six sets.                          *)
LEMMA NextDisjoint ==
  ASSUME Distinct(incoming)', ReadyDistinct',
         Disjoint(fresh', Running', ToSet(incoming)', tasks', rets', Ready')
  PROVE  OnePlace'
  <1>1. Places' = <<fresh', Running', ToSet(incoming)', tasks', rets', Ready'>>  BY DEF Places
  <1>2. (\A i, j \in DOMAIN Places : i # j => Places[i] \cap Places[j] = {})'
    BY <1>1, DisjointTuple
  <1> QED  BY <1>2 DEF OnePlace, Distinct, ReadyDistinct

LEMMA NextOnePlace ==
  ASSUME IInv, Next
  PROVE  OnePlace'
  <1> DEFINE inc == ToSet(incoming)
  <1>0. /\ TypeOK /\ CurInv /\ HubInv /\ ReadyDistinct /\ Distinct(incoming)
        /\ Disjoint(fresh, Running, inc, tasks, rets, Ready)
    BY Facts DEF IInv
  <1>1. ASSUME UNCHANGED ready  PROVE Ready' = Ready /\ ReadyDistinct'
    BY <1>0, <1>1 DEF Ready, ReadyDistinct
  <1>2. ASSUME UNCHANGED incoming  PROVE inc' = inc /\ Distinct(incoming)'
    BY <1>0, <1>2 DEF ToSet, Distinct
  <1>3. ASSUME UNCHANGED <<fresh, tasks, rets, ready, incoming>>, Running' \subseteq Running
        PROVE  OnePlace'
    <2>1. Disjoint(fresh', Running', inc', tasks', rets', Ready')
      BY <1>0, <1>1, <1>2, <1>3 DEF Disjoint
    <2> QED  BY <1>1, <1>2, <1>3, <2>1, NextDisjoint
  <1>4. CASE Check \/ Wait \/ WaitTimeout \/ Clear \/ Ping \/ End \/ Final \/ Quit
    <2>1. UNCHANGED <<fresh, tasks, rets, ready, incoming>>
      BY <1>4 DEF Check, Wait, WaitTimeout, Clear, Ping, End, Final, Quit, hubVars, shared, world
    <2>2. Running' \subseteq Running
      BY <1>0, <1>4 DEF Check, Wait, WaitTimeout, Clear, Ping, End, Final, Quit, Running, CurInv
    <2> QED  BY <1>3, <2>1, <2>2
  <1>5. CASE Cycle
    <2>1. UNCHANGED <<fresh, tasks, rets, incoming>>  BY <1>5 DEF Cycle, hubVars, world
    <2>2. ReadyDistinct' /\ Running' \cup Ready' = Ready /\ Running' \cap Ready' = {}
      <3>1. CASE Ready' = Ready /\ sched' = "check" /\ cur' = None
        BY <1>5, <3>1, CycleEffect DEF Running
      <3>2. CASE \E t \in Tasks : /\ t \in Ready /\ Ready' = Ready \ {t}
                                  /\ sched' = "run" /\ cur' = t
        BY <1>5, <3>2, CycleEffect, RecocoAssumption DEF Running
      <3> QED  BY <1>5, <3>1, <3>2, CycleEffect
    <2>3. Disjoint(fresh', Running', inc', tasks', rets', Ready')
      BY <1>0, <1>2, <2>1, <2>2 DEF Disjoint
    <2> QED  BY <1>2, <2>1, <2>2, <2>3, NextDisjoint
  <1>6. ASSUME NEW t \in Tasks, Spawn(t) \/ StartTask(t)  PROVE OnePlace'
    <2>1. UNCHANGED <<tasks, rets, incoming>> /\ Running' = Running
      BY <1>6 DEF Spawn, StartTask, hubVars, schedVars, Running
    <2>2. /\ t \in fresh /\ fresh' = fresh \ {t} /\ Ready' = Ready \cup {t}
          /\ t \notin Ready => ReadyDistinct'
      BY <1>6, SpawnEffect DEF Added
    <2>3. t \notin Ready  BY <1>0, <2>2 DEF Disjoint
    <2>4. Disjoint(fresh', Running', inc', tasks', rets', Ready')
      BY <1>0, <1>2, <2>1, <2>2 DEF Disjoint
    <2> QED  BY <1>2, <2>1, <2>2, <2>3, <2>4, NextDisjoint
  <1>7. CASE Reschedule
    <2>1. UNCHANGED <<fresh, tasks, rets, incoming>> /\ Running' = {}
      BY <1>7 DEF Reschedule, hubVars, world, Running
    <2>2. Running = {cur}  BY <1>7, Facts DEF Reschedule
    <2>3. Ready' = Ready \cup {cur} /\ (cur \notin Ready => ReadyDistinct')
      BY <1>7, RescheduleEffect DEF Added
    <2>4. cur \notin Ready  BY <1>0, <2>2 DEF Disjoint
    <2>5. Disjoint(fresh', Running', inc', tasks', rets', Ready')
      BY <1>0, <1>2, <2>1, <2>2, <2>3 DEF Disjoint
    <2> QED  BY <1>2, <2>1, <2>3, <2>4, <2>5, NextDisjoint
  <1>8. CASE Block
    <2>1. UNCHANGED <<fresh, tasks, rets, ready>> /\ Running' = {}
      BY <1>8 DEF Block, hubVars, Running
    <2>2. Running = {cur}  BY <1>8, Facts DEF Block
    <2>3. inc' = inc \cup {cur} /\ (cur \notin inc => Distinct(incoming)')
      BY <1>8, BlockEffect
    <2>4. cur \notin inc  BY <1>0, <2>2 DEF Disjoint
    <2>5. Disjoint(fresh', Running', inc', tasks', rets', Ready')
      BY <1>0, <1>1, <2>1, <2>2, <2>3 DEF Disjoint
    <2> QED  BY <1>1, <2>1, <2>3, <2>4, <2>5, NextDisjoint
  <1>9. ASSUME NEW ts, Returning(ts), ts \subseteq tasks, rets = {},
               UNCHANGED <<fresh, ready, incoming, sched, cur>>
        PROVE  OnePlace'
    <2>1. Running' = Running  BY <1>9 DEF Running
    <2>2. Disjoint(fresh', Running', inc', tasks', rets', Ready')
      BY <1>0, <1>1, <1>2, <1>9, <2>1 DEF Disjoint, Returning
    <2> QED  BY <1>1, <1>2, <1>9, <2>2, NextDisjoint
  <1>10. CASE Scan
    <2>1. UNCHANGED <<fresh, ready, incoming, sched, cur>> /\ rets = {}
      BY <1>0, <1>10 DEF Scan, HubInv, schedVars, shared
    <2>2. CASE hasQuit
      <3>1. UNCHANGED <<tasks, rets>> /\ Running' = Running  BY <1>10, <2>1, <2>2 DEF Scan, Running
      <3> QED  BY <1>3, <2>1, <3>1
    <2>3. CASE ~hasQuit
      <3>1. Returning(tasks \cap Timed \cap late)  BY <1>10, <2>3 DEF Scan
      <3> QED  BY <1>9, <2>1, <3>1
    <2> QED  BY <2>2, <2>3
  <1>11. CASE SelectTimeout
    <2>1. UNCHANGED <<fresh, ready, incoming, sched, cur>> /\ rets = {}
      BY <1>0, <1>11 DEF SelectTimeout, HubInv, schedVars, shared
    <2>2. CASE timeoutTask \in late /\ Returning({timeoutTask})
      <3>1. timeoutTask \in tasks
        BY <1>0, <1>11, <2>2, RecocoAssumption DEF SelectTimeout, HubInv, TypeOK
      <3> QED  BY <1>9, <2>1, <2>2, <3>1
    <2>3. CASE UNCHANGED <<tasks, rets>>
      <3>1. Running' = Running  BY <2>1 DEF Running
      <3> QED  BY <1>3, <2>1, <2>3, <3>1
    <2> QED  BY <1>11, <2>2, <2>3 DEF SelectTimeout
  <1>12. CASE Select
    <2>1. UNCHANGED <<fresh, ready, incoming, sched, cur>> /\ rets = {} /\ rl \subseteq tasks
      BY <1>0, <1>12 DEF Select, HubInv, schedVars, shared
    <2>2. Returning(rl \cap readable)  BY <1>12 DEF Select
    <2> QED  BY <1>9, <2>1, <2>2
  <1>13. CASE PongAll
    BY <1>3, <1>13 DEF PongAll, schedVars, world, Running
  <1>14. CASE Drain
    <2>1. UNCHANGED <<fresh, ready, rets>> /\ Running' = Running
      BY <1>14 DEF Drain, schedVars, world, Running
    <2>2. tasks' = tasks \cup inc /\ incoming' = << >>  BY <1>14 DEF Drain
    <2>3. inc' = {} /\ Distinct(incoming)'  BY <2>2, EmptySet DEF Distinct
    <2>4. Disjoint(fresh', Running', inc', tasks', rets', Ready')
      BY <1>0, <1>1, <2>1, <2>2, <2>3 DEF Disjoint
    <2> QED  BY <1>1, <2>1, <2>3, <2>4, NextDisjoint
  <1>15. CASE Return
    <2>1. UNCHANGED <<fresh, tasks, incoming>> /\ Running' = Running
      BY <1>15 DEF Return, schedVars, world, Running
    <2>2. PICK t \in Tasks : t \in rets /\ rets' = rets \ {t} /\ Added(t)
      BY <1>15, ReturnEffect
    <2>3. t \notin Ready  BY <1>0, <2>2 DEF Disjoint
    <2>4. Disjoint(fresh', Running', inc', tasks', rets', Ready')
      BY <1>0, <1>2, <2>1, <2>2 DEF Disjoint, Added
    <2> QED  BY <1>2, <2>1, <2>2, <2>3, <2>4, NextDisjoint DEF Added
  <1>16. ASSUME NEW th \in Threads, Set(th)  PROVE OnePlace'
    BY <1>3, <1>16 DEF Set, schedVars, hubVars, world, Running
  <1>17. ASSUME NEW t \in Tasks, Arrive(t) \/ Pass(t)  PROVE OnePlace'
    BY <1>3, <1>17 DEF Arrive, Pass, schedVars, hubVars, shared, Running
  <1> QED
    BY <1>4, <1>5, <1>6, <1>7, <1>8, <1>10, <1>11, <1>12, <1>13, <1>14, <1>15, <1>16, <1>17
       DEF Next, SchedulerStep, HubStep

LEMMA NextIInv == IInv /\ [Next]_vars => IInv'
  <1> SUFFICES ASSUME IInv, [Next]_vars PROVE IInv'  OBVIOUS
  <1>1. CASE Next
    BY <1>1, NextTypeOK, NextCurInv, NextHubInv, NextWaitInv, NextWakeInv, NextOnePlace DEF IInv
  <1>2. CASE UNCHANGED vars
    BY <1>2 DEF vars, schedVars, hubVars, shared, world, IInv, TypeOK, CurInv, HubInv, WaitInv,
                WakeInv, OnePlace, Places, Running, Ready, Waiting, ToSet
  <1> QED  BY <1>1, <1>2

(* What the other facts follow from.                                       *)
THEOREM Inductive == Spec => []IInv
  BY InitIInv, NextIInv, PTL DEF Spec

(* The scheduler's and the hub's variables keep their types.               *)
THEOREM Types == Spec => []TypeOK
  <1>1. IInv => TypeOK  BY DEF IInv
  <1> QED  BY <1>1, Inductive, PTL

(* A task is in one place at a time, so the assertions of fast_schedule    *)
(* and of the hub never end a thread.                                      *)
THEOREM TasksInOnePlace == Spec => []OnePlace
  <1>1. IInv => OnePlace  BY DEF IInv
  <1> QED  BY <1>1, Inductive, PTL

(* Neither thread misses a wake-up: fast_schedule with _event, and         *)
(* SelectHub._cycle with the pipe.                                         *)
THEOREM WakeUpsArrive == Spec => []NeverAsleep
  <1>1. IInv => NeverAsleep  BY DEF IInv, WakeInv, NeverAsleep
  <1> QED  BY <1>1, Inductive, PTL

-----------------------------------------------------------------------------
(* The refinement.                                                         *)

(* Place, as an operator of the sets it depends on.                        *)
PlaceIn(t, new, run, wait, now, back) ==
  CASE t \in new -> "new"
    [] t \in run -> "running"
    [] t \in wait -> IF t \in now THEN "due" ELSE "waiting"
    [] t \in back -> "due"
    [] OTHER -> "gone"

Back == Ready \cup rets
Now  == readable \cup late

LEMMA PlaceSets ==
  ASSUME NEW t, NEW new, NEW run, NEW wait, NEW now, NEW back,
         t \in new => t \notin run /\ t \notin wait /\ t \notin back,
         t \in run => t \notin wait /\ t \notin back,
         t \in wait => t \notin back
  PROVE  LET p == PlaceIn(t, new, run, wait, now, back) IN
         /\ t \in new => p = "new"
         /\ t \in run => p = "running"
         /\ t \in wait /\ t \in now => p = "due"
         /\ t \in wait /\ t \notin now => p = "waiting"
         /\ t \in back => p = "due"
         /\ t \notin new \cup run \cup wait \cup back => p = "gone"
  BY DEF PlaceIn

(* The sets of a state that OnePlace holds in.                             *)
LEMMA PlaceNow ==
  ASSUME IInv, NEW t \in Tasks
  PROVE  /\ t \in fresh => Place(t) = "new"
         /\ t \in Running => Place(t) = "running"
         /\ t \in Waiting /\ t \in Now => Place(t) = "due"
         /\ t \in Waiting /\ t \notin Now => Place(t) = "waiting"
         /\ t \in Back => Place(t) = "due"
         /\ t \notin fresh \cup Running \cup Waiting \cup Back => Place(t) = "gone"
  <1>1. Place(t) = PlaceIn(t, fresh, Running, Waiting, Now, Back)
    BY DEF Place, PlaceIn, Now, Back
  <1>2. /\ t \in fresh => t \notin Running /\ t \notin Waiting /\ t \notin Back
        /\ t \in Running => t \notin Waiting /\ t \notin Back
        /\ t \in Waiting => t \notin Back
    BY Facts DEF Disjoint, Waiting, Back
  <1> QED  BY <1>1, <1>2, PlaceSets

LEMMA PlaceThen ==
  ASSUME IInv', NEW t \in Tasks
  PROVE  /\ t \in fresh' => Place(t)' = "new"
         /\ t \in Running' => Place(t)' = "running"
         /\ t \in Waiting' /\ t \in Now' => Place(t)' = "due"
         /\ t \in Waiting' /\ t \notin Now' => Place(t)' = "waiting"
         /\ t \in Back' => Place(t)' = "due"
         /\ t \notin fresh' \cup Running' \cup Waiting' \cup Back' => Place(t)' = "gone"
  <1>1. Place(t)' = PlaceIn(t, fresh', Running', Waiting', Now', Back')
    BY DEF Place, PlaceIn, Now, Back
  <1>2. Disjoint(fresh', Running', ToSet(incoming)', tasks', rets', Ready')
    <2>1. Places' = <<fresh', Running', ToSet(incoming)', tasks', rets', Ready'>>  BY DEF Places
    <2>2. \A i, j \in DOMAIN Places' : i # j => Places'[i] \cap Places'[j] = {}
      BY DEF IInv, OnePlace
    <2> QED  BY <2>1, <2>2, DisjointTuple
  <1>3. /\ t \in fresh' => t \notin Running' /\ t \notin Waiting' /\ t \notin Back'
        /\ t \in Running' => t \notin Waiting' /\ t \notin Back'
        /\ t \in Waiting' => t \notin Back'
    BY <1>2 DEF Disjoint, Waiting, Back
  <1> QED  BY <1>1, <1>3, PlaceSets

PlaceFn == [t \in Tasks |-> Place(t)]

(* A task keeps its place if it is in the same sets, or goes from where it *)
(* waits, due, to where it is returned.                                    *)
LEMMA PlaceStays ==
  ASSUME IInv, IInv', NEW t \in Tasks,
         t \in fresh' <=> t \in fresh, t \in Running' <=> t \in Running,
         \/ /\ t \in Waiting' <=> t \in Waiting
            /\ t \in Now' <=> t \in Now
            /\ t \in Back' <=> t \in Back
         \/ t \in Waiting /\ t \in Now /\ t \in Back'
  PROVE  Place(t)' = Place(t)
  BY PlaceNow, PlaceThen

LEMMA AllStay ==
  ASSUME \A t \in Tasks : Place(t)' = Place(t)
  PROVE  PlaceFn' = PlaceFn
  BY DEF PlaceFn

LEMMA OneMoves ==
  ASSUME NEW t \in Tasks, \A u \in Tasks \ {t} : Place(u)' = Place(u)
  PROVE  PlaceFn' = [PlaceFn EXCEPT ![t] = Place(t)']
  BY DEF PlaceFn

LEMMA TurnStep ==
  ASSUME IInv, IInv', [Next]_vars
  PROVE  Pool!Next \/ PlaceFn' = PlaceFn
  <1>0. /\ TypeOK /\ CurInv /\ HubInv /\ WaitInv
        /\ Disjoint(fresh, Running, ToSet(incoming), tasks, rets, Ready)
    BY Facts DEF IInv
  <1>1. ASSUME UNCHANGED incoming  PROVE ToSet(incoming)' = ToSet(incoming)
    BY <1>1 DEF ToSet
  <1>2. ASSUME UNCHANGED ready  PROVE Ready' = Ready
    BY <1>2 DEF Ready
  <1>3. ASSUME UNCHANGED fresh, Running' = Running, Waiting' = Waiting, Now' = Now, Back' = Back
        PROVE  PlaceFn' = PlaceFn
    <2>1. \A t \in Tasks : Place(t)' = Place(t)  BY <1>3, PlaceStays
    <2> QED  BY <2>1, AllStay
  <1>4. ASSUME UNCHANGED <<fresh, incoming, tasks, readable, late, ready, rets>>, Running' = Running
        PROVE  PlaceFn' = PlaceFn
    <2>1. Waiting' = Waiting /\ Now' = Now /\ Back' = Back
      BY <1>1, <1>2, <1>4 DEF Waiting, Now, Back
    <2> QED  BY <1>3, <1>4, <2>1
  <1>5. CASE UNCHANGED vars
    BY <1>4, <1>5 DEF vars, schedVars, hubVars, shared, world, Running
  <1>6. CASE Check \/ Wait \/ WaitTimeout \/ Clear \/ Ping \/ Final \/ Quit
    <2>1. Running' = Running
      BY <1>0, <1>6 DEF Check, Wait, WaitTimeout, Clear, Ping, Final, Quit, Running, CurInv
    <2> QED  BY <1>4, <1>6, <2>1 DEF Check, Wait, WaitTimeout, Clear, Ping, Final, Quit,
                                     hubVars, shared, world
  <1>7. CASE PongAll
    BY <1>4, <1>7 DEF PongAll, schedVars, world, Running
  <1>8. ASSUME NEW th \in Threads, Set(th)  PROVE PlaceFn' = PlaceFn
    BY <1>4, <1>8 DEF Set, schedVars, hubVars, world, Running
  <1>9. CASE Drain
    <2>1. tasks' = tasks \cup ToSet(incoming) /\ incoming' = << >>  BY <1>9 DEF Drain
    <2>2. ToSet(incoming)' = {}  BY <2>1, EmptySet
    <2>3. Waiting' = Waiting  BY <2>1, <2>2 DEF Waiting
    <2>4. UNCHANGED <<fresh, readable, late, ready, rets>> /\ Running' = Running
      BY <1>9 DEF Drain, schedVars, world, Running
    <2> QED  BY <1>2, <1>3, <2>3, <2>4 DEF Now, Back
  <1>10. CASE Return
    <2>1. PICK t \in Tasks : t \in rets /\ rets' = rets \ {t} /\ Ready' = Ready \cup {t}
      BY <1>10, ReturnEffect DEF Added
    <2>2. UNCHANGED <<fresh, tasks, incoming, readable, late>> /\ Running' = Running
      BY <1>10 DEF Return, schedVars, world, Running
    <2>3. Back' = Back /\ Waiting' = Waiting /\ Now' = Now
      BY <1>1, <2>1, <2>2 DEF Back, Waiting, Now
    <2> QED  BY <1>3, <2>2, <2>3
  <1>11. ASSUME NEW ts, Returning(ts), ts \subseteq tasks, ts \subseteq Now, rets = {},
                UNCHANGED <<fresh, ready, incoming, sched, cur>>
         PROVE  PlaceFn' = PlaceFn
    <2>1. /\ Running' = Running /\ Back' = Back \cup ts /\ Now' = Now \ ts
          /\ Waiting' = (tasks \ ts) \cup ToSet(incoming)
      BY <1>1, <1>2, <1>11 DEF Running, Back, Now, Waiting, Returning
    <2>2. ASSUME NEW t \in Tasks  PROVE Place(t)' = Place(t)
      <3>1. CASE t \in ts
        <4>1. t \in Waiting /\ t \in Now /\ t \in Back'  BY <1>11, <2>1, <3>1 DEF Waiting
        <4> QED  BY <1>11, <2>1, <4>1, PlaceStays
      <3>2. CASE t \notin ts
        <4>1. /\ t \in Waiting' <=> t \in Waiting
              /\ t \in Now' <=> t \in Now
              /\ t \in Back' <=> t \in Back
          BY <2>1, <3>2 DEF Waiting
        <4> QED  BY <1>11, <2>1, <4>1, PlaceStays
      <3> QED  BY <3>1, <3>2
    <2> QED  BY <2>2, AllStay
  <1>12. CASE Scan
    <2>1. UNCHANGED <<fresh, ready, incoming, sched, cur>> /\ rets = {}
      BY <1>0, <1>12 DEF Scan, HubInv, schedVars, shared
    <2>2. CASE hasQuit
      <3>1. UNCHANGED <<tasks, rets, readable, late>> /\ Running' = Running
        BY <1>12, <2>1, <2>2 DEF Scan, Running
      <3> QED  BY <1>4, <2>1, <3>1
    <2>3. CASE ~hasQuit
      <3>1. Returning(tasks \cap Timed \cap late)  BY <1>12, <2>3 DEF Scan
      <3>2. tasks \cap Timed \cap late \subseteq tasks /\ tasks \cap Timed \cap late \subseteq Now
        BY DEF Now
      <3> QED  BY <1>11, <2>1, <3>1, <3>2
    <2> QED  BY <2>2, <2>3
  <1>13. CASE SelectTimeout
    <2>1. UNCHANGED <<fresh, ready, incoming, sched, cur>> /\ rets = {}
      BY <1>0, <1>13 DEF SelectTimeout, HubInv, schedVars, shared
    <2>2. CASE timeoutTask \in late /\ Returning({timeoutTask})
      <3>1. timeoutTask \in tasks
        BY <1>0, <1>13, <2>2, RecocoAssumption DEF SelectTimeout, HubInv, TypeOK
      <3>2. {timeoutTask} \subseteq tasks /\ {timeoutTask} \subseteq Now  BY <2>2, <3>1 DEF Now
      <3> QED  BY <1>11, <2>1, <2>2, <3>2
    <2>3. CASE UNCHANGED <<tasks, rets, readable, late>>
      <3>1. Running' = Running  BY <2>1 DEF Running
      <3> QED  BY <1>4, <2>1, <2>3, <3>1
    <2> QED  BY <1>13, <2>2, <2>3 DEF SelectTimeout
  <1>14. CASE Select
    <2>1. UNCHANGED <<fresh, ready, incoming, sched, cur>> /\ rets = {} /\ rl \subseteq tasks
      BY <1>0, <1>14 DEF Select, HubInv, schedVars, shared
    <2>2. Returning(rl \cap readable)  BY <1>14 DEF Select
    <2>3. rl \cap readable \subseteq tasks /\ rl \cap readable \subseteq Now  BY <2>1 DEF Now
    <2> QED  BY <1>11, <2>1, <2>2, <2>3
  <1>15. ASSUME NEW t \in Tasks, \A u \in Tasks \ {t} : Place(u)' = Place(u),
                \/ Place(t) = "new" /\ Place(t)' = "due"
                \/ Place(t) = "waiting" /\ Place(t)' = "due"
                \/ Place(t) = "running" /\ Place(t)' \in {"waiting", "due", "gone"}
         PROVE  Pool!Next
    <2>1. PlaceFn' = [PlaceFn EXCEPT ![t] = Place(t)'] /\ PlaceFn[t] = Place(t)
      BY <1>15, OneMoves DEF PlaceFn
    <2>2. CASE Place(t) = "new" /\ Place(t)' = "due"
      <3>1. Pool!Start(t)  BY <2>1, <2>2 DEF Pool!Start, Pool!To, PlaceFn
      <3> QED  BY <3>1 DEF Pool!Next
    <2>3. CASE Place(t) = "waiting" /\ Place(t)' = "due"
      <3>1. Pool!Happen(t)  BY <2>1, <2>3 DEF Pool!Happen, Pool!To, PlaceFn
      <3> QED  BY <3>1 DEF Pool!Next
    <2>4. CASE Place(t) = "running" /\ Place(t)' \in {"waiting", "due"}
      <3>1. Pool!Block(t)  BY <2>1, <2>4 DEF Pool!Block, Pool!To, PlaceFn
      <3> QED  BY <3>1 DEF Pool!Next
    <2>5. CASE Place(t) = "running" /\ Place(t)' = "gone"
      <3>1. Pool!End(t)  BY <2>1, <2>5 DEF Pool!End, Pool!To, PlaceFn
      <3> QED  BY <3>1 DEF Pool!Next
    <2> QED  BY <1>15, <2>2, <2>3, <2>4, <2>5
  <1>16. CASE Cycle
    <2>1. UNCHANGED <<fresh, tasks, rets, incoming, readable, late>> /\ Running = {}
      BY <1>0, <1>16 DEF Cycle, hubVars, world, Running, CurInv
    <2>2. Waiting' = Waiting /\ Now' = Now  BY <1>1, <2>1 DEF Waiting, Now
    <2>3. CASE Ready' = Ready /\ sched' = "check" /\ cur' = None
      <3>1. Running' = Running /\ Back' = Back  BY <2>1, <2>3 DEF Running, Back
      <3> QED  BY <1>3, <2>1, <2>2, <3>1
    <2>4. ASSUME NEW t \in Tasks, t \in Ready, Ready' = Ready \ {t}, sched' = "run", cur' = t
          PROVE  Pool!Next
      <3>1. Running' = {t} /\ \A u \in Tasks \ {t} : u \in Back' <=> u \in Back
        BY <2>1, <2>4, RecocoAssumption DEF Running, Back
      <3>2. \A u \in Tasks \ {t} : Place(u)' = Place(u)
        BY <2>1, <2>2, <3>1, PlaceStays
      <3>3. Place(t) = "due" /\ Place(t)' = "running"
        BY <2>4, <3>1, PlaceNow, PlaceThen DEF Back
      <3>4. \A u \in Tasks : Place(u) # "running"
        <4> SUFFICES ASSUME NEW u \in Tasks PROVE Place(u) # "running"  OBVIOUS
        <4> QED  BY <2>1, PlaceNow
      <3>5. PlaceFn' = [PlaceFn EXCEPT ![t] = "running"] /\ PlaceFn[t] = "due"
        BY <3>2, <3>3, OneMoves DEF PlaceFn
      <3>6. Pool!Run(t)  BY <3>4, <3>5 DEF Pool!Run, Pool!To, PlaceFn
      <3> QED  BY <3>6 DEF Pool!Next
    <2> QED  BY <1>16, <2>3, <2>4, CycleEffect
  <1>17. ASSUME NEW t \in Tasks, Spawn(t) \/ StartTask(t)  PROVE Pool!Next
    <2>1. UNCHANGED <<tasks, rets, incoming, readable, late>> /\ Running' = Running
      BY <1>17 DEF Spawn, StartTask, hubVars, schedVars, Running
    <2>2. t \in fresh /\ fresh' = fresh \ {t} /\ Ready' = Ready \cup {t}
      BY <1>17, SpawnEffect DEF Added
    <2>3. Waiting' = Waiting /\ Now' = Now /\ Back' = Back \cup {t}
      BY <1>1, <2>1, <2>2 DEF Waiting, Now, Back
    <2>4. \A u \in Tasks \ {t} : Place(u)' = Place(u)  BY <2>1, <2>2, <2>3, PlaceStays
    <2>5. Place(t) = "new" /\ Place(t)' = "due"  BY <2>2, <2>3, PlaceNow, PlaceThen
    <2> QED  BY <1>15, <2>4, <2>5
  <1>18. CASE Block
    <2>1. PICK t \in Tasks : t = cur /\ Running = {t}  BY <1>18, Facts DEF Block
    <2>2. /\ UNCHANGED <<fresh, tasks, rets, ready, late>> /\ Running' = {}
          /\ readable' \ {t} = readable \ {t}
      BY <1>18, <2>1 DEF Block, hubVars, Running
    <2>3. ToSet(incoming)' = ToSet(incoming) \cup {t}  BY <1>18, <2>1, BlockEffect
    <2>4. /\ Waiting' = Waiting \cup {t} /\ Back' = Back
          /\ \A u \in Tasks \ {t} : u \in Now' <=> u \in Now
      BY <1>2, <2>2, <2>3 DEF Waiting, Now, Back
    <2>5. \A u \in Tasks \ {t} : Place(u)' = Place(u)
      BY <2>1, <2>2, <2>4, PlaceStays
    <2>6. Place(t) = "running" /\ Place(t)' \in {"waiting", "due"}
      BY <2>1, <2>4, PlaceNow, PlaceThen
    <2> QED  BY <1>15, <2>5, <2>6
  <1>19. CASE Reschedule \/ End
    <2>1. PICK t \in Tasks : t = cur /\ Running = {t}  BY <1>19, Facts DEF Reschedule, End
    <2>2. UNCHANGED <<fresh, tasks, rets, incoming, readable, late>> /\ Running' = {}
      BY <1>19 DEF Reschedule, End, hubVars, shared, world, Running
    <2>3. Waiting' = Waiting /\ Now' = Now  BY <1>1, <2>2 DEF Waiting, Now
    <2>4. Back' = Back \/ Back' = Back \cup {t}
      <3>1. CASE Reschedule
        BY <2>1, <2>2, <3>1, RescheduleEffect DEF Added, Back
      <3>2. CASE End
        BY <1>2, <2>2, <3>2 DEF End, shared, Back
      <3> QED  BY <1>19, <3>1, <3>2
    <2>5. \A u \in Tasks \ {t} : Place(u)' = Place(u)
      BY <2>1, <2>2, <2>3, <2>4, PlaceStays
    <2>6. Place(t) = "running"  BY <2>1, PlaceNow
    <2>7. t \notin fresh /\ t \notin Waiting  BY <1>0, <2>1 DEF Disjoint, Waiting
    <2>8. Place(t)' \in {"due", "gone"}
      BY <2>2, <2>3, <2>7, PlaceThen
    <2> QED  BY <1>15, <2>5, <2>6, <2>8
  <1>20. ASSUME NEW t \in Tasks, Arrive(t) \/ Pass(t)
         PROVE  Pool!Next \/ PlaceFn' = PlaceFn
    <2>1. UNCHANGED <<fresh, tasks, rets, incoming, ready>> /\ Running' = Running
      BY <1>20 DEF Arrive, Pass, schedVars, hubVars, shared, Running
    <2>2. t \in Waiting /\ Now' = Now \cup {t}  BY <1>20 DEF Arrive, Pass, Now
    <2>3. Waiting' = Waiting /\ Back' = Back  BY <1>1, <1>2, <2>1 DEF Waiting, Back
    <2>4. \A u \in Tasks \ {t} : Place(u)' = Place(u)
      BY <2>1, <2>2, <2>3, PlaceStays
    <2>5. Place(t)' = "due" /\ Place(t) \in {"waiting", "due"}
      BY <2>2, <2>3, PlaceNow, PlaceThen
    <2>6. CASE Place(t) = "waiting"  BY <1>15, <2>4, <2>5, <2>6
    <2>7. CASE Place(t) = "due"
      <3>1. \A u \in Tasks : Place(u)' = Place(u)  BY <2>4, <2>5, <2>7
      <3> QED  BY <3>1, AllStay
    <2> QED  BY <2>5, <2>6, <2>7
  <1> QED
    BY <1>5, <1>6, <1>7, <1>8, <1>9, <1>10, <1>12, <1>13, <1>14, <1>16, <1>17, <1>18, <1>19, <1>20
       DEF Next, SchedulerStep, HubStep

(* For the tasks, the two threads of recoco are one that lets them take    *)
(* turns: none runs before what it waits for, none while another runs.     *)
THEOREM SchedulerTakesTurns == Spec => TasksInTurn
  <1>1. Init => Pool!Init
    <2> SUFFICES ASSUME Init PROVE Pool!Init  OBVIOUS
    <2>1. IInv  BY InitIInv
    <2>2. \A t \in Tasks : Place(t) = "new"
      <3> SUFFICES ASSUME NEW t \in Tasks PROVE Place(t) = "new"  OBVIOUS
      <3>1. t \in fresh  BY DEF Init
      <3> QED  BY <2>1, <3>1, PlaceNow
    <2> QED  BY <2>2 DEF Pool!Init
  <1>2. IInv /\ IInv' /\ [Next]_vars => [Pool!Next]_PlaceFn  BY TurnStep
  <1> QED
    BY <1>1, <1>2, Inductive, PTL DEF Spec, TasksInTurn, Pool!Spec, PlaceFn
=============================================================================
