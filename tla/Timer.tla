------------------------------- MODULE Timer -------------------------------
(***************************************************************************)
(* core/timer.c and the cancelling half of tolua/timertolua.c: a list of   *)
(* tasks sorted by due time, which the timer thread works off, holding     *)
(* timermgr->lock while it runs their callbacks.  Scripts create and       *)
(* cancel timers, from other threads (Clients) or from within a callback,  *)
(* where the recursive mutex lets them in again.                           *)
(*                                                                         *)
(* A timer has a number for the script, which is never used again          *)
(* (luataskdata is never freed), and a timertask, whose address the pool   *)
(* gives out again as soon as it is freed.                                 *)
(*                                                                         *)
(* The clock is datetime_lastDt of utils/datetime.c, which a thread of its *)
(* own overwrites without a lock and without a pause: first with a time in *)
(* the year 0, then with the time it is.  Whoever reads it can find either.*)
(***************************************************************************)
EXTENDS Integers, FiniteSets, SequencesExt, RecursiveLock

CONSTANTS
  Tmr,        \* the timer thread
  Clients,    \* the other threads that run scripts
  Tasks,      \* the addresses the pool can give a timertask
  Null,       \* the null pointer
  Delays,     \* bound: the delays scripts ask for
  Periods,    \* bound: the intervals scripts ask for; 0: once
  Second,     \* the milliseconds of a second, 1000 in datetime.c
  StartTime,  \* when the program starts, in milliseconds since 1970
  AgesAgo,    \* bound: how long before 1970 the year 0 is, one time for all of it
  EndTime,    \* bound: when the clock stops
  MaxTimers   \* bound: how many timers the scripts create

Threads == Clients \cup {Tmr}
Timers == 1 .. MaxTimers

ASSUME TimerAssumption ==
  /\ Tmr \notin Clients /\ Nobody \notin Threads /\ Null \notin Tasks
  /\ Delays \subseteq Nat /\ Periods \subseteq Nat
  /\ Second \in Nat \ {0}
  /\ StartTime \in Nat /\ EndTime \in Nat /\ StartTime >= Second /\ StartTime <= EndTime
  /\ MaxTimers \in Nat
  /\ AgesAgo \in Nat /\ \A x \in Delays \cup Periods : x < AgesAgo

VARIABLES
  clock,      \* the time it is, as datetime_update last wrote it
  lock,       \* timermgr->lock
  tasks,      \* timermgr->tasks, the nodes from first to last
  arg,        \* per task: the timer it is for, or 0 when it is free
  now,        \* the local variable now of the timer thread; 0 out of its scope
  node,       \* the node whose callback runs, or NoNode
  tpc,        \* where each thread is
  target,     \* the task each thread is about to schedule or cancel, or Null
  created,    \* how many timers there have been
  asked,      \* per timer: when its creator has computed that it is due first,
              \* and its interval
  fired,      \* history: how often each timer has fired, counted up to 2
  cancelled   \* history: the timers whose task timer_cancel has removed

shared == <<tasks, arg>>
timers == <<created, asked, fired, cancelled>>
timerVars == <<clock, lock, shared, now, node, tpc, target, timers>>

\* No node: none whose callback runs.
NoNode == [task |-> Null, next |-> 0, val |-> 0]

Goto(t, l) == tpc' = [tpc EXCEPT ![t] = l]

TimerInit ==
  /\ clock = StartTime /\ now = 0
  /\ lock = Unlocked
  /\ tasks = << >> /\ arg = [k \in Tasks |-> 0]
  /\ node = NoNode
  /\ tpc = [t \in Threads |-> "idle"]
  /\ target = [t \in Threads |-> Null]
  /\ created = 0 /\ fired = [i \in Timers |-> 0] /\ cancelled = {}
  /\ asked = [i \in Timers |-> [next |-> 0, val |-> 0]]

\* datetime_update, as long as nobody reads in the middle of it.
Tick ==
  /\ clock < EndTime
  /\ clock' = clock + 1
  /\ UNCHANGED <<lock, shared, now, node, tpc, target, timers>>

\* What datetime_now can return: datetime_update stores what datetime_init makes
\* of the year 0 before it stores the time.
LongAgo == -AgesAgo

Readings == {clock, LongAgo}

-----------------------------------------------------------------------------
(* The list. *)

\* Faulty variant: behind the whole list.
InsertedLast(list, n) == Append(list, n)

\* The list with node n in front of the first node that is not due before it.
Inserted(list, n) ==
  LET before == {i \in 1 .. Len(list) : \A j \in 1 .. i : list[j].next < n.next}
  IN InsertAt(list, Cardinality(before) + 1, n)

Listed(k) == \E i \in 1 .. Len(tasks) : tasks[i].task = k

-----------------------------------------------------------------------------
(* What scripts do: in the idle moments of a client, and in callbacks. *)

ScriptPc(t) == IF t = Tmr THEN "callback" ELSE "idle"
InScript(t) == tpc[t] = ScriptPc(t)
Return(t) == Goto(t, ScriptPc(t))

\* Create a task and read the clock, without the lock.  (lua_timer_task_create,
\* timer_schedule_delay)
Create(t, delay, period) ==
  /\ InScript(t)
  /\ created < MaxTimers
  /\ \E k \in {x \in Tasks : arg[x] = 0} :
       /\ arg' = [arg EXCEPT ![k] = created + 1]
       /\ target' = [target EXCEPT ![t] = k]
  /\ created' = created + 1
  /\ \E r \in Readings :
       asked' = [asked EXCEPT ![created + 1] = [next |-> r + delay, val |-> period]]
  /\ Goto(t, "schedule")
  /\ UNCHANGED <<clock, lock, tasks, now, node, fired, cancelled>>

\* timer_schedule: put the task into the list.
Schedule(t) ==
  /\ tpc[t] = "schedule"
  /\ CanLock(lock, t)
  /\ LET a == asked[arg[target[t]]]
     IN tasks' = Inserted(tasks, [task |-> target[t], next |-> a.next, val |-> a.val])
  /\ target' = [target EXCEPT ![t] = Null]
  /\ Return(t)
  /\ UNCHANGED <<clock, lock, arg, now, node, timers>>

\* lua_timer_task_cancel: find the task of timer i, then let go of the lock.
CancelFind(t, i) ==
  /\ InScript(t)
  /\ CanLock(lock, t)
  /\ \E k \in Tasks :
       /\ Listed(k) /\ arg[k] = i
       /\ target' = [target EXCEPT ![t] = k]
  /\ Goto(t, "cancel")
  /\ UNCHANGED <<clock, lock, shared, now, node, timers>>

\* Faulty variant: the task is freed and its node stays.
CancelLeavesNode(t) ==
  /\ tpc[t] = "cancel"
  /\ CanLock(lock, t)
  /\ arg' = [arg EXCEPT ![target[t]] = 0]
  /\ target' = [target EXCEPT ![t] = Null]
  /\ Return(t)
  /\ UNCHANGED <<clock, lock, tasks, now, node, timers>>

\* timer_cancel: remove the first node of the task and free both, if there is one.
Cancel(t) ==
  /\ tpc[t] = "cancel"
  /\ CanLock(lock, t)
  /\ \/ \E i \in 1 .. Len(tasks) :
          /\ tasks[i].task = target[t]
          /\ \A j \in 1 .. i - 1 : tasks[j].task # target[t]
          /\ tasks' = RemoveAt(tasks, i)
          /\ arg' = [arg EXCEPT ![target[t]] = 0]
          /\ cancelled' = cancelled \cup {arg[target[t]]}
     \/ ~Listed(target[t]) /\ UNCHANGED <<shared, cancelled>>
  /\ target' = [target EXCEPT ![t] = Null]
  /\ Return(t)
  /\ UNCHANGED <<clock, lock, now, node, created, asked, fired>>

-----------------------------------------------------------------------------
(* timer_thread_run *)

\* Faulty variant: the time is rounded up.
TimerLookAhead ==
  /\ tpc[Tmr] = "idle"
  /\ CanLock(lock, Tmr)
  /\ now' = clock + 1
  /\ Goto(Tmr, "wait")
  /\ UNCHANGED <<clock, lock, shared, node, target, timers>>

\* Faulty variant: the time is noted only once.
TimerLookOnce ==
  /\ tpc[Tmr] = "idle"
  /\ CanLock(lock, Tmr)
  /\ Goto(Tmr, "wait")
  /\ UNCHANGED <<clock, lock, shared, now, node, target, timers>>

\* Note the time, under the lock; then wait without it.  How long is left open:
\* lightevent_wait returns when the next task is due, when a task is added, or
\* after a second.
TimerLook ==
  /\ tpc[Tmr] = "idle"
  /\ CanLock(lock, Tmr)
  /\ now' \in Readings
  /\ Goto(Tmr, "wait")
  /\ UNCHANGED <<clock, lock, shared, node, target, timers>>

TimerWake ==
  /\ tpc[Tmr] = "wait"
  /\ CanLock(lock, Tmr)
  /\ lock' = LockedBy(lock, Tmr)
  /\ Goto(Tmr, "scan")
  /\ UNCHANGED <<clock, shared, now, node, target, timers>>

\* Faulty variant: whatever is first is due.
AnyIsDue == tasks # << >>

FirstIsDue == tasks # << >> /\ Head(tasks).next < now

\* Unlink the first node and call its task's function.
TimerFire ==
  /\ tpc[Tmr] = "scan"
  /\ FirstIsDue
  /\ node' = Head(tasks)
  /\ tasks' = Tail(tasks)
  /\ fired' = [fired EXCEPT ![arg[Head(tasks).task]] = IF @ = 2 THEN 2 ELSE @ + 1]
  /\ Goto(Tmr, "callback")
  /\ UNCHANGED <<clock, lock, arg, now, target, created, asked, cancelled>>

\* The callback has returned: a task with no interval is freed...
TimerFree ==
  /\ tpc[Tmr] = "callback"
  /\ node.val = 0
  /\ arg' = [arg EXCEPT ![node.task] = 0]
  /\ node' = NoNode
  /\ Goto(Tmr, "scan")
  /\ UNCHANGED <<clock, lock, tasks, now, target, timers>>

\* datetime_getMillSecond: what C's % leaves.
MillSecond(t) == IF t >= 0 THEN t % Second ELSE -((-t) % Second)

\* When a task with an interval is due again: an interval later, or, when that
\* is past already, at datetime_getMillSecond of an interval from now, which is
\* read from the clock as r.
NextTime(r) ==
  IF node.next + node.val < now
  THEN MillSecond(r + node.val)
  ELSE node.next + node.val

\* ... and any other goes back into the list.
TimerRepeat ==
  /\ tpc[Tmr] = "callback"
  /\ node.val > 0
  /\ \E r \in Readings : tasks' = Inserted(tasks, [node EXCEPT !.next = NextTime(r)])
  /\ node' = NoNode
  /\ Goto(Tmr, "scan")
  /\ UNCHANGED <<clock, lock, arg, now, target, timers>>

TimerUnlock ==
  /\ tpc[Tmr] = "scan"
  /\ ~FirstIsDue
  /\ lock' = Released(lock)
  /\ now' = 0
  /\ Goto(Tmr, "idle")
  /\ UNCHANGED <<clock, shared, node, target, timers>>

TmrStep ==
  \/ TimerLook \/ TimerWake \/ TimerFire \/ TimerFree \/ TimerRepeat \/ TimerUnlock
  \/ Schedule(Tmr) \/ Cancel(Tmr)

ScriptStep(t) ==
  \/ \E d \in Delays, p \in Periods : Create(t, d, p)
  \/ \E i \in Timers : CancelFind(t, i)

TimerNext ==
  \/ Tick
  \/ TmrStep
  \/ \E t \in Threads : ScriptStep(t)
  \/ \E t \in Clients : Schedule(t) \/ Cancel(t)

TimerSpec == TimerInit /\ [][TimerNext]_timerVars

\* The timer thread reads the time, and not the year 0.
TimerLookRight == TimerLook /\ now' = clock

\* The timer thread goes on, and the callbacks it calls return; and it does not
\* find datetime_update half done every time it looks.
TimerFairSpec == TimerSpec /\ WF_timerVars(TmrStep) /\ SF_timerVars(TimerLookRight)

-----------------------------------------------------------------------------
(* Properties *)

\* When something may be due: not before the year 0, but for what is left of a
\* second, and not later than an interval or a delay after the last time there is.
DueTimes == LongAgo - Second .. EndTime + AgesAgo
Node == [task : Tasks, next : DueTimes, val : Periods]

TimerTypeOK ==
  /\ clock \in StartTime .. EndTime /\ now \in (StartTime .. clock) \cup {LongAgo, 0}
  /\ lock \in LockState({Tmr})
  /\ tasks \in Seq(Node) /\ arg \in [Tasks -> 0 .. MaxTimers]
  /\ node \in Node \cup {NoNode}
  /\ tpc \in [Threads -> {"idle", "wait", "scan", "callback", "schedule", "cancel"}]
  /\ target \in [Threads -> Tasks \cup {Null}]
  /\ created \in 0 .. MaxTimers /\ fired \in [Timers -> 0 .. 2]
  /\ asked \in [Timers -> [next : DueTimes \cup {0}, val : Periods \cup {0}]]
  /\ cancelled \subseteq Timers

\* The list is sorted by due time, whoever has added or removed what while a
\* callback was running.
Sorted == \A i, j \in 1 .. Len(tasks) : i < j => tasks[i].next <= tasks[j].next

\* A task in use is in one place: in the list, once, or the one whose callback
\* runs, or with the thread that is about to schedule it; and no two tasks are
\* for one timer.  The callback of a freed task is never called.
TasksOwnedOnce ==
  /\ \A i, j \in 1 .. Len(tasks) : i # j => tasks[i].task # tasks[j].task
  /\ \A k \in Tasks :
       LET running == node.task = k
           makers == {t \in Threads : tpc[t] = "schedule" /\ target[t] = k}
       IN IF arg[k] = 0 THEN ~Listed(k) /\ ~running /\ makers = {}
          ELSE IF makers # {} THEN ~Listed(k) /\ ~running /\ \E t \in Threads : makers = {t}
          ELSE Listed(k) # running
  /\ \A k, l \in Tasks : k # l /\ arg[k] # 0 => arg[k] # arg[l]

\* A timer that is to fire once does so after the time its creator has computed,
\* at most once, and not after timer_cancel has removed it.
FiresAsAsked ==
  [][\A i \in Timers :
       fired'[i] # fired[i] =>
         /\ clock > asked[i].next /\ i \notin cancelled
         /\ asked[i].val = 0 => fired[i] = 0]_timerVars

\* The nodes there are: those of the list, and the one whose callback runs.
Nodes == ToSet(tasks) \cup ({node} \ {NoNode})

\* A task with an interval is at a time long ago.
Runaway == \E n \in Nodes : n.val > 0 /\ n.next < StartTime

\* Timer i is in the list, and its time has come.
Due(i) ==
  \E j \in 1 .. Len(tasks) : arg[tasks[j].task] = i /\ asked[i].next < clock

\* A timer in the list whose time has come fires or is cancelled, unless a task
\* with an interval is at a time long ago, and fires without end.
DueTimersFire ==
  \A i \in Timers : Due(i) ~> (fired[i] > 0 \/ i \in cancelled \/ Runaway)

\* A task with an interval is put back to a time that is not past, however late
\* its callback has run.  (Where its creator has read the clock right.)
LateTasksSkip ==
  \A n \in Nodes : n.next < StartTime => asked[arg[n.task]].next < StartTime

=============================================================================
