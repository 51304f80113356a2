------------------------------ MODULE MCTimer ------------------------------
(***************************************************************************)
(* Instance of Timer for TLC, which also notes when each timer is really   *)
(* due: the delay after the moment it is created at, whatever its creator  *)
(* reads from the clock.                                                   *)
(***************************************************************************)
EXTENDS Timer

VARIABLE due  \* history: per timer, the time it is due first

MCInit == TimerInit /\ due = [i \in Timers |-> 0]

MCNext ==
  \/ \E t \in Threads, d \in Delays, p \in Periods :
       /\ Create(t, d, p)
       /\ due' = [due EXCEPT ![created'] = clock + d]
  \/ TimerNext /\ UNCHANGED <<created, due>>

\* The fairness is that of TimerFairSpec.
MCSpec ==
  /\ MCInit /\ [][MCNext]_<<timerVars, due>>
  /\ WF_timerVars(TmrStep) /\ SF_timerVars(TimerLookRight)

\* timer_schedule_delay adds a task "with the delay it is given" (timer.c:96): no
\* timer fires before that delay is over.
NotTooSoon ==
  [][\A i \in Timers : fired'[i] # fired[i] => clock > due[i]]_timerVars

=============================================================================
