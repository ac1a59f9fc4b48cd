------------------------------- MODULE Recoco -------------------------------
(***************************************************************************)
(* POX's co-operative scheduler, on which everything in the controller     *)
(* runs: the timers, the task of each connection to a shim, the one that   *)
(* accepts them, and the one that reads from the switches.                 *)
(*                                                                         *)
(* Two threads work hand in hand.  The scheduler's runs the tasks that are *)
(* in _ready, one after the other.  The hub's waits in one select() for    *)
(* the sockets and deadlines of all blocked tasks.  Tasks go to the hub    *)
(* through a queue and a pipe (_incoming, _pinger), and come back through  *)
(* a deque and an Event (_ready, _event).  Other threads start tasks.  A   *)
(* step is what one thread does to a shared object: the interpreter lock   *)
(* makes each such operation atomic.                                       *)
(***************************************************************************)
EXTENDS Naturals, Sequences, SequencesExt

CONSTANTS Tasks,        \* tasks
          Reads, Timed, \* those that wait for a socket, for a deadline
          Spawned,      \* those started by other tasks, not by another thread
          None          \* no task

ASSUME RecocoAssumption ==
  /\ Reads \subseteq Tasks /\ Timed \subseteq Tasks /\ Tasks \subseteq Reads \cup Timed
  /\ Spawned \subseteq Tasks /\ None \notin Tasks

VARIABLES
  sched,        \* where the scheduler's thread is
  cur,          \* the task it runs, or None
  hasQuit,      \* _hasQuit
  ready,        \* _ready: tasks, and ScheduleTasks for them
  event,        \* _event
  incoming,     \* SelectHub._incoming
  pinged,       \* is there something to read from _pinger?
  hub,          \* where the hub's thread is
  tasks,        \* its tasks
  rl,           \* the ones whose sockets it has given to select()
  timeoutTask,  \* the one whose deadline is the time-out of select()
  rets,         \* tasks it is about to return (expired, rets)
  setting,      \* threads between append and set() of fast_schedule
  fresh,        \* tasks not started yet
  readable,     \* tasks that wait and whose socket has something to read
  late          \* tasks that wait and whose deadline has passed

schedVars == <<sched, cur, hasQuit>>
hubVars   == <<hub, tasks, rl, timeoutTask, rets>>
shared    == <<ready, event, incoming, pinged, setting>>
world     == <<fresh, readable, late>>
vars      == <<schedVars, hubVars, shared, world>>

Threads == {"hub", "other"}

\* An entry of _ready: a task, or the ScheduleTask that is to schedule it.
Entry(t)        == [task |-> t, start |-> FALSE]
ScheduleTask(t) == [task |-> t, start |-> TRUE]

Init == /\ sched = "check" /\ cur = None /\ hasQuit = FALSE
        /\ ready = << >> /\ event = FALSE /\ incoming = << >> /\ pinged = FALSE
        /\ hub = "scan" /\ tasks = {} /\ rl = {} /\ timeoutTask = None /\ rets = {}
        /\ setting = {} /\ fresh = Tasks /\ readable = {} /\ late = {}

\* Where a task is.  On its last step, Ping, it is with the hub already.
Running == IF sched = "ping" THEN {} ELSE {cur} \ {None}
Waiting == tasks \cup ToSet(incoming)
Ready   == {ready[i].task : i \in DOMAIN ready}
Place(t) == CASE t \in fresh -> "new"
              [] t \in Running -> "running"
              [] t \in Waiting -> IF t \in readable \cup late THEN "due" ELSE "waiting"
              [] t \in Ready \cup rets -> "due"
              [] OTHER -> "gone"

-----------------------------------------------------------------------------
(* The scheduler's thread: run and cycle.                                  *)

\* run: the head of its loop, while there is nothing to do.
Check ==
  /\ sched = "check" /\ (hasQuit \/ ready = << >>)
  /\ sched' = IF hasQuit THEN "final" ELSE "wait"
  /\ UNCHANGED <<cur, hasQuit, hubVars, shared, world>>

Wait ==
  /\ sched = "wait" /\ event
  /\ sched' = "clear"
  /\ UNCHANGED <<cur, hasQuit, hubVars, shared, world>>

\* ... or CYCLE_MAXIMUM seconds have passed.
WaitTimeout ==
  /\ sched = "wait" /\ ~event
  /\ sched' = "clear"
  /\ UNCHANGED <<cur, hasQuit, hubVars, shared, world>>

Clear ==
  /\ sched = "clear"
  /\ event' = FALSE
  /\ sched' = IF hasQuit THEN "final" ELSE "cycle"
  /\ UNCHANGED <<cur, hasQuit, hubVars, ready, incoming, pinged, setting, world>>

\* cycle: the next task; all have priority 1.  A ScheduleTask runs here whole.
Cycle ==
  /\ sched = "cycle" \/ (sched = "check" /\ ~hasQuit /\ ready # << >>)
  /\ \/ /\ ready = << >>
        /\ sched' = "check"
        /\ UNCHANGED <<cur, ready, event>>
     \/ /\ ready # << >> /\ ~Head(ready).start
        /\ cur' = Head(ready).task /\ sched' = "run"
        /\ ready' = Tail(ready)
        /\ UNCHANGED event
     \/ /\ ready # << >> /\ Head(ready).start
        /\ sched' = "check"
        /\ IF Contains(Tail(ready), Entry(Head(ready).task))
           THEN ready' = Tail(ready) /\ UNCHANGED event
           ELSE ready' = <<Entry(Head(ready).task)>> \o Tail(ready) /\ event' = TRUE
        /\ UNCHANGED cur
  /\ UNCHANGED <<hasQuit, hubVars, incoming, pinged, setting, world>>

\* A task that runs may start others (TCPTransport.run does): schedule from
\* the scheduler's own thread.
Spawn(t) ==
  /\ sched = "run" /\ t \in fresh \cap Spawned
  /\ fresh' = fresh \ {t}
  /\ ready' = Append(ready, Entry(t)) /\ event' = TRUE
  /\ UNCHANGED <<schedVars, hubVars, incoming, pinged, setting, readable, late>>

\* scheduler.quit is called (core.quit).
Quit ==
  /\ sched = "run"
  /\ hasQuit' = TRUE
  /\ UNCHANGED <<sched, cur, hubVars, shared, world>>

\* The task yields Recv, Select or Sleep: registerSelect, registerTimer.  It
\* may have left something to read, and more may have arrived meanwhile.
Block ==
  /\ sched = "run"
  /\ incoming' = Append(incoming, cur)
  /\ readable' \in {readable, readable \cup ({cur} \cap Reads)}
  /\ sched' = "ping"
  /\ UNCHANGED <<cur, hasQuit, hubVars, ready, event, pinged, setting, fresh, late>>

\* SelectHub._cycle, the last thing a step of a task does.
Ping ==
  /\ sched = "ping"
  /\ pinged' = TRUE /\ sched' = "check" /\ cur' = None
  /\ UNCHANGED <<hasQuit, hubVars, ready, event, incoming, setting, world>>

\* It yields a Sleep whose time has come already.
Reschedule ==
  /\ sched = "run" /\ cur \in Timed \ Reads
  /\ ready' = Append(ready, Entry(cur)) /\ event' = TRUE
  /\ sched' = "check" /\ cur' = None
  /\ UNCHANGED <<hasQuit, hubVars, incoming, pinged, setting, world>>

\* It returns, raises, or yields False, and is not seen again.
End ==
  /\ sched = "run"
  /\ sched' = "check" /\ cur' = None
  /\ UNCHANGED <<hasQuit, hubVars, shared, world>>

\* The finally of run: the hub is woken to see _hasQuit.
Final ==
  /\ sched = "final"
  /\ hasQuit' = TRUE /\ pinged' = TRUE
  /\ sched' = "done"
  /\ UNCHANGED <<cur, hubVars, ready, event, incoming, setting, world>>

-----------------------------------------------------------------------------
(* The hub's thread: _threadProc.                                          *)

\* del tasks[t], and the task is put in a list of those to return.
Returning(ts) == /\ tasks' = tasks \ ts /\ rets' = ts
                 /\ readable' = readable \ ts /\ late' = late \ ts

\* The lists for select().  Tasks whose deadline has passed are returned at
\* once; the next deadline is the time-out.
Scan ==
  /\ hub = "scan" /\ "hub" \notin setting
  /\ IF hasQuit THEN hub' = "ended" /\ UNCHANGED <<tasks, rl, timeoutTask, rets, readable, late>>
     ELSE LET expired == tasks \cap Timed \cap late
              waiting == (tasks \cap Timed) \ late
          IN  /\ timeoutTask' \in IF waiting = {} THEN {None} ELSE waiting
              /\ Returning(expired)
              /\ rl' = tasks' \cap Reads
              /\ hub' = IF expired = {} THEN "select" ELSE "expire"
  /\ UNCHANGED <<schedVars, shared, fresh>>

\* Mutant: nothing to read is taken for a deadline.
SelectTimeoutAny ==
  /\ hub = "select" /\ "hub" \notin setting /\ rl \cap readable = {} /\ ~pinged
  /\ timeoutTask \in late \cup {None}
  /\ Returning({timeoutTask})
  /\ hub' = "return"
  /\ rl' = {} /\ timeoutTask' = None
  /\ UNCHANGED <<schedVars, shared, fresh>>

\* select() returns: a deadline, or nothing for CYCLE_MAXIMUM seconds, ...
SelectTimeout ==
  /\ hub = "select" /\ "hub" \notin setting /\ rl \cap readable = {} /\ ~pinged
  /\ \/ /\ timeoutTask \in late
        /\ Returning({timeoutTask})
        /\ hub' = "return"
     \/ /\ timeoutTask = None
        /\ hub' = "scan"
        /\ UNCHANGED <<tasks, rets, readable, late>>
  /\ rl' = {} /\ timeoutTask' = None
  /\ UNCHANGED <<schedVars, shared, fresh>>

\* Mutant: the tasks that are returned stay in tasks.
SelectKeeps ==
  /\ hub = "select" /\ "hub" \notin setting /\ (pinged \/ rl \cap readable # {})
  /\ rets' = rl \cap readable
  /\ hub' = IF pinged THEN "pong" ELSE "return"
  /\ rl' = {} /\ timeoutTask' = None
  /\ UNCHANGED <<schedVars, shared, world, tasks>>

\* Mutant: whatever the pipe says, all tasks are returned.
SelectAll ==
  /\ hub = "select" /\ "hub" \notin setting /\ (pinged \/ rl \cap readable # {})
  /\ Returning(rl)
  /\ hub' = IF pinged THEN "pong" ELSE "return"
  /\ rl' = {} /\ timeoutTask' = None
  /\ UNCHANGED <<schedVars, shared, fresh>>

\* ... or sockets, and the pipe.  An error of a socket counts as data.
Select ==
  /\ hub = "select" /\ "hub" \notin setting /\ (pinged \/ rl \cap readable # {})
  /\ Returning(rl \cap readable)
  /\ hub' = IF pinged THEN "pong" ELSE "return"
  /\ rl' = {} /\ timeoutTask' = None
  /\ UNCHANGED <<schedVars, shared, fresh>>

PongAll ==
  /\ hub = "pong"
  /\ pinged' = FALSE /\ hub' = "drain"
  /\ UNCHANGED <<schedVars, tasks, rl, timeoutTask, rets, ready, event, incoming, setting, world>>

\* Mutant: one entry of the queue is taken for every wake-up.
DrainOne ==
  /\ hub = "drain"
  /\ tasks' = tasks \cup (IF incoming = << >> THEN {} ELSE {Head(incoming)})
  /\ incoming' = IF incoming = << >> THEN << >> ELSE Tail(incoming)
  /\ hub' = IF rets = {} THEN "scan" ELSE "return"
  /\ UNCHANGED <<schedVars, rl, timeoutTask, rets, ready, event, pinged, setting, world>>

\* Everything in the queue; what is put there later comes with a ping.
Drain ==
  /\ hub = "drain"
  /\ tasks' = tasks \cup ToSet(incoming) /\ incoming' = << >>
  /\ hub' = IF rets = {} THEN "scan" ELSE "return"
  /\ UNCHANGED <<schedVars, rl, timeoutTask, rets, ready, event, pinged, setting, world>>

\* _return and fast_schedule; the loop goes on when all are returned.
Return ==
  /\ hub \in {"expire", "return"} /\ "hub" \notin setting
  /\ \E t \in rets :
       /\ rets' = rets \ {t}
       /\ ready' = Append(ready, Entry(t))
  /\ setting' = setting \cup {"hub"}
  /\ hub' = IF rets' # {} THEN hub ELSE IF hub = "expire" THEN "select" ELSE "scan"
  /\ UNCHANGED <<schedVars, tasks, rl, timeoutTask, event, incoming, pinged, world>>

\* The end of fast_schedule in a thread other than the scheduler's.
Set(th) ==
  /\ th \in setting
  /\ event' = TRUE /\ setting' = setting \ {th}
  /\ UNCHANGED <<schedVars, hubVars, ready, incoming, pinged, world>>

-----------------------------------------------------------------------------
(* Another thread, such as the main one.                                   *)

\* Mutant: the scheduler is not woken.
StartTaskSilent(t) ==
  /\ "other" \notin setting /\ ~hasQuit /\ t \in fresh \ Spawned
  /\ fresh' = fresh \ {t}
  /\ ready' = Append(ready, ScheduleTask(t))
  /\ UNCHANGED <<schedVars, hubVars, event, incoming, pinged, setting, readable, late>>

\* schedule: the task is started by a ScheduleTask.
StartTask(t) ==
  /\ "other" \notin setting /\ ~hasQuit /\ t \in fresh \ Spawned
  /\ fresh' = fresh \ {t}
  /\ ready' = Append(ready, ScheduleTask(t))
  /\ setting' = setting \cup {"other"}
  /\ UNCHANGED <<schedVars, hubVars, event, incoming, pinged, readable, late>>

\* Data arrive, a deadline passes.
Arrive(t) ==
  /\ ~hasQuit /\ t \in Reads \ readable /\ t \in Waiting
  /\ readable' = readable \cup {t}
  /\ UNCHANGED <<schedVars, hubVars, shared, fresh, late>>

Pass(t) ==
  /\ ~hasQuit /\ t \in Timed \ late /\ t \in Waiting
  /\ late' = late \cup {t}
  /\ UNCHANGED <<schedVars, hubVars, shared, fresh, readable>>

-----------------------------------------------------------------------------
SchedulerStep == \/ Check \/ Wait \/ Clear \/ Cycle \/ Block \/ Ping
                 \/ Reschedule \/ End \/ Final
HubStep       == Scan \/ SelectTimeout \/ Select \/ PongAll \/ Drain \/ Return

Next == \/ SchedulerStep \/ WaitTimeout \/ HubStep \/ Quit
        \/ \E th \in Threads : Set(th)
        \/ \E t \in Tasks : Spawn(t) \/ StartTask(t) \/ Arrive(t) \/ Pass(t)

Spec == Init /\ [][Next]_vars

\* Threads run, and a task that runs gives way.  Nothing is assumed of the
\* time-out of _event.wait.  Time passes.
Fairness == /\ WF_vars(SchedulerStep) /\ WF_vars(HubStep)
            /\ \A th \in Threads : WF_vars(Set(th))
            /\ \A t \in Tasks : WF_vars(Pass(t))
FairSpec == Spec /\ Fairness

-----------------------------------------------------------------------------
(* Properties.                                                             *)

TypeOK ==
  /\ sched \in {"check", "wait", "clear", "cycle", "run", "ping", "final", "done"}
  /\ hub \in {"scan", "expire", "select", "pong", "drain", "return", "ended"}
  /\ cur \in Tasks \cup {None} /\ timeoutTask \in Tasks \cup {None}
  /\ hasQuit \in BOOLEAN /\ event \in BOOLEAN /\ pinged \in BOOLEAN
  /\ ready \in Seq([task : Tasks, start : BOOLEAN]) /\ incoming \in Seq(Tasks)
  /\ tasks \subseteq Tasks /\ rl \subseteq Tasks /\ rets \subseteq Tasks
  /\ fresh \subseteq Tasks /\ readable \subseteq Tasks /\ late \subseteq Tasks
  /\ setting \subseteq Threads

Places == <<fresh, Running, ToSet(incoming), tasks, rets, Ready>>

\* A task is in one place at a time: new, running, on its way to the hub,
\* waiting there, on its way back, or in _ready, and only once in each.  So the
\* assertions of fast_schedule and of the hub never fail; either would end its
\* thread.
OnePlace ==
  /\ \A i, j \in DOMAIN Places : i # j => Places[i] \cap Places[j] = {}
  /\ \A i, j \in DOMAIN incoming : incoming[i] = incoming[j] => i = j
  /\ \A i, j \in DOMAIN ready : ready[i].task = ready[j].task => i = j

\* No wake-up is lost: neither thread sleeps while there is something for it,
\* unless the thread that put it there is about to wake it.  The time-outs of
\* wait() and select() are not needed, and that of select() would not help.
NeverAsleep ==
  /\ sched = "wait" /\ ready # << >> => event \/ setting # {}
  /\ hub \in {"scan", "expire", "select"} /\ incoming # << >> => pinged \/ sched = "ping"

\* For the tasks all this is taking turns.
Pool == INSTANCE TaskPool WITH state <- [t \in Tasks |-> Place(t)]

TasksInTurn == Pool!Spec

\* A task whose socket has something to read or whose deadline has passed runs
\* in the end, however busy the other sockets are.
DueRuns ==
  \A t \in Tasks : (Place(t) = "due") ~> (cur = t \/ hasQuit)
=============================================================================
