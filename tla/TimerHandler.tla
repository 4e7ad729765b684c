---------------------------- MODULE TimerHandler ----------------------------
(***************************************************************************)
(* A timer of the simulator (common/timer-handler.cc) and its one event in  *)
(* the scheduler's queue.  `queued' is the event's uid being positive; the  *)
(* abort()s of TimerHandler and Scheduler end in the status "ABORT".        *)
(***************************************************************************)

TimerType == [status : {"IDLE", "PENDING", "HANDLING", "ABORT"}, queued : BOOLEAN]

IdleTimer == [status |-> "IDLE", queued |-> FALSE]
Abort     == [status |-> "ABORT", queued |-> FALSE]

\* Scheduler::schedule refuses an event that is already in its queue.
_sched(timer) == IF timer.queued THEN Abort
                 ELSE [status |-> "PENDING", queued |-> TRUE]

\* Scheduler::cancel does nothing for an event that is not in its queue.
_cancel(timer) == [timer EXCEPT !.queued = FALSE]

resched(timer) ==
    _sched(IF timer.status = "PENDING" THEN _cancel(timer) ELSE timer)

\* The scheduler takes the event out of its queue and calls handle().
dispatch(timer) == IF timer.status # "PENDING" THEN Abort
                   ELSE [status |-> "HANDLING", queued |-> FALSE]

\* Mutant: handle() forgets that expire() rescheduled the timer.
MutHandled(timer) == [timer EXCEPT !.status = "IDLE"]

\* The end of handle(), after expire() may have rescheduled the timer.
handled(timer) ==
    [timer EXCEPT !.status = IF @ = "HANDLING" THEN "IDLE" ELSE @]
=============================================================================
