------------------------------ MODULE Scheduler ------------------------------
(***************************************************************************)
(* The webhook scheduler of wasmrunner (src/src/scheduler.rs).             *)
(*                                                                         *)
(* One detached thread per configured schedule runs run_schedule: it       *)
(* sleeps one tick, reads the schedule's paused flag under the lock of the *)
(* shared map, counts down, and when the count runs out calls the webhook  *)
(* with no lock held and then writes the result under the lock.  The       *)
(* server thread changes the same entries: toggle_schedule flips paused,   *)
(* trigger_schedule_now calls the webhook itself, takes the time, and only *)
(* then locks the map to write the result.                                 *)
(*                                                                         *)
(* A step of a thread here is one critical section of the map's mutex, or  *)
(* one stretch between two of them that another thread can tell apart.     *)
(* What execute_webhook returns is an argument of the actions: this module *)
(* lets it be any outcome, Runner.tla ties it to a call to a service.      *)
(***************************************************************************)
EXTENDS Naturals

CONSTANTS
  Schedules,    \* the configured schedules: one (service, index) pair each
  Interval,     \* interval_secs of each schedule, in ticks of one second
  Statuses,     \* the HTTP statuses a webhook may answer with
  None,         \* Option::None of last_status and last_error
  Error,        \* stands for the text of any transport error or timeout
  MaxRuns,      \* bound: webhook calls each schedule thread makes
  MaxTriggers   \* bound: manual triggers of the server thread

\* config.rs rejects an interval of zero, so max(1) never changes a value.
ASSUME IntervalAssumption == Interval \in [Schedules -> Nat \ {0}]
ASSUME OutcomeAssumption == None \notin Statuses /\ None # Error
ASSUME BoundAssumption == MaxRuns \in Nat /\ MaxTriggers \in Nat

VARIABLES
  schedules,    \* the shared map: a ScheduleState for each schedule
  thread,       \* where each schedule thread is in run_schedule
  remaining,    \* the local countdown of each schedule thread
  trigger,      \* the server thread inside trigger_schedule_now
  clock,        \* the monotonic clock Instant::now() reads
  reported,     \* the paused value the last toggle of a schedule returned
  runs,         \* webhook calls each schedule thread has started
  triggers,     \* manual triggers started
  wakes,        \* history: ticks each thread counted towards its next call
  lateStarts    \* history: calls a thread started since its pause

entryVars == <<schedules, clock>>
threadVars == <<thread, remaining, runs, wakes, lateStarts>>
triggerVars == <<trigger, triggers>>
vars == <<schedules, thread, remaining, trigger, clock, reported, runs,
          triggers, wakes, lateStarts>>

-----------------------------------------------------------------------------
(* Values.  An Instant is the number of Instant::now() calls so far, and   *)
(* last_run is 0 while it is None.                                         *)

Ok(status) == [status |-> status, error |-> None]
Failed == [status |-> None, error |-> Error]
Outcomes == {Ok(status) : status \in Statuses} \cup {Failed}

ScheduleState ==
  [paused : BOOLEAN, last_run : Nat,
   last_status : Statuses \cup {None}, last_error : {None, Error}]

NewEntry ==
  [paused |-> FALSE, last_run |-> 0, last_status |-> None, last_error |-> None]

ThreadPC == {"sleep", "fire", "calling"}

Trigger ==
  [pc : {"calling"}, schedule : Schedules] \cup
  [pc : {"record"}, schedule : Schedules, now : Nat, outcome : Outcomes]

NoTrigger == [pc |-> "idle"]

TypeOK ==
  /\ schedules \in [Schedules -> ScheduleState]
  /\ thread \in [Schedules -> ThreadPC]
  /\ remaining \in [Schedules -> Nat]
  /\ trigger \in Trigger \cup {NoTrigger}
  /\ clock \in Nat
  /\ reported \in [Schedules -> BOOLEAN]
  /\ runs \in [Schedules -> Nat]
  /\ triggers \in Nat
  /\ wakes \in [Schedules -> Nat]
  /\ lateStarts \in [Schedules -> Nat]

-----------------------------------------------------------------------------
(* start_webhook_schedulers fills the map before it spawns the threads.    *)

Init ==
  /\ schedules = [s \in Schedules |-> NewEntry]
  /\ thread = [s \in Schedules |-> "sleep"]
  /\ remaining = Interval
  /\ trigger = NoTrigger
  /\ clock = 0
  /\ reported = [s \in Schedules |-> FALSE]
  /\ runs = [s \in Schedules |-> 0]
  /\ triggers = 0
  /\ wakes = [s \in Schedules |-> 0]
  /\ lateStarts = [s \in Schedules |-> 0]

\* Fault: the error of an earlier run survives a run that succeeds.
KeepsOldError(entry, now, outcome) ==
  [entry EXCEPT !.last_run = now,
                !.last_status = outcome.status,
                !.last_error = IF outcome.error = None THEN @ ELSE outcome.error]

(* The lines of run_schedule and trigger_schedule_now that write a result: *)
(* all three fields change together, paused is left alone.                 *)
WithResult(entry, now, outcome) ==
  [entry EXCEPT !.last_run = now,
                !.last_status = outcome.status,
                !.last_error = outcome.error]

-----------------------------------------------------------------------------
(* The schedule threads.  Each Wake action is one pass of the loop: the    *)
(* sleep, the read of paused under the lock, and the countdown.            *)

\* Fault: a pause only skips ticks, the countdown is not started over.
PauseKeepsCount(s) ==
  /\ thread[s] = "sleep"
  /\ schedules[s].paused
  /\ wakes' = [wakes EXCEPT ![s] = 0]
  /\ UNCHANGED <<entryVars, triggerVars, reported, thread, remaining, runs,
                 lateStarts>>

\* A paused schedule starts its countdown over at every tick.
WakePaused(s) ==
  /\ thread[s] = "sleep"
  /\ schedules[s].paused
  /\ remaining' = [remaining EXCEPT ![s] = Interval[s]]
  /\ wakes' = [wakes EXCEPT ![s] = 0]
  /\ UNCHANGED <<entryVars, triggerVars, reported, thread, runs, lateStarts>>

WakeCountdown(s) ==
  /\ thread[s] = "sleep"
  /\ ~schedules[s].paused
  /\ remaining[s] > 1
  /\ remaining' = [remaining EXCEPT ![s] = @ - 1]
  /\ wakes' = [wakes EXCEPT ![s] = @ + 1]
  /\ UNCHANGED <<entryVars, triggerVars, reported, thread, runs, lateStarts>>

\* Fault: paused is not looked at once the count has run out.
DueWhilePaused(s) ==
  /\ thread[s] = "sleep"
  /\ remaining[s] <= 1
  /\ runs[s] < MaxRuns
  /\ remaining' = [remaining EXCEPT ![s] = Interval[s]]
  /\ thread' = [thread EXCEPT ![s] = "fire"]
  /\ wakes' = [wakes EXCEPT ![s] = @ + 1]
  /\ UNCHANGED <<entryVars, triggerVars, reported, runs, lateStarts>>

\* The count has run out: the thread resets it and goes on to the call.
WakeDue(s) ==
  /\ thread[s] = "sleep"
  /\ ~schedules[s].paused
  /\ remaining[s] <= 1
  /\ runs[s] < MaxRuns
  /\ remaining' = [remaining EXCEPT ![s] = Interval[s]]
  /\ thread' = [thread EXCEPT ![s] = "fire"]
  /\ wakes' = [wakes EXCEPT ![s] = @ + 1]
  /\ UNCHANGED <<entryVars, triggerVars, reported, runs, lateStarts>>

\* execute_webhook sends the request; nobody looks at paused again.
Execute(s) ==
  /\ thread[s] = "fire"
  /\ thread' = [thread EXCEPT ![s] = "calling"]
  /\ runs' = [runs EXCEPT ![s] = @ + 1]
  /\ wakes' = [wakes EXCEPT ![s] = 0]
  /\ lateStarts' = [lateStarts EXCEPT ![s] =
                      IF schedules[s].paused THEN @ + 1 ELSE 0]
  /\ UNCHANGED <<entryVars, triggerVars, reported, remaining>>

\* Fault: the thread stamps the result with the time before the call.
RecordStaleTime(s, outcome) ==
  /\ thread[s] = "calling"
  /\ clock' = clock + 1
  /\ schedules' = [schedules EXCEPT ![s] = WithResult(@, clock, outcome)]
  /\ thread' = [thread EXCEPT ![s] = "sleep"]
  /\ UNCHANGED <<triggerVars, reported, remaining, runs, wakes, lateStarts>>

\* Fault: the thread ends when a call fails, as it does for a poisoned lock.
RecordOrReturn(s, outcome) ==
  /\ thread[s] = "calling"
  /\ clock' = clock + 1
  /\ schedules' = [schedules EXCEPT ![s] = WithResult(@, clock', outcome)]
  /\ thread' = [thread EXCEPT ![s] = IF outcome = Failed THEN "returned"
                                                         ELSE "sleep"]
  /\ UNCHANGED <<triggerVars, reported, remaining, runs, wakes, lateStarts>>

\* execute_webhook returned: lock the map, read the clock, write the result.
Record(s, outcome) ==
  /\ thread[s] = "calling"
  /\ clock' = clock + 1
  /\ schedules' = [schedules EXCEPT ![s] = WithResult(@, clock', outcome)]
  /\ thread' = [thread EXCEPT ![s] = "sleep"]
  /\ UNCHANGED <<triggerVars, reported, remaining, runs, wakes, lateStarts>>

-----------------------------------------------------------------------------
(* The server thread.                                                      *)

\* toggle_schedule: one critical section, the new value is the answer.
Toggle(s) ==
  /\ schedules' = [schedules EXCEPT ![s].paused = ~@]
  /\ reported' = [reported EXCEPT ![s] = schedules'[s].paused]
  /\ lateStarts' = [lateStarts EXCEPT ![s] = 0]
  /\ UNCHANGED <<clock, triggerVars, thread, remaining, runs, wakes>>

\* trigger_schedule_now calls the webhook before it touches the map.
TriggerStart(s) ==
  /\ trigger = NoTrigger
  /\ triggers < MaxTriggers
  /\ trigger' = [pc |-> "calling", schedule |-> s]
  /\ triggers' = triggers + 1
  /\ UNCHANGED <<entryVars, threadVars, reported>>

\* The call returned; the time is taken here, before the lock.
TriggerReturn(outcome) ==
  /\ trigger.pc = "calling"
  /\ clock' = clock + 1
  /\ trigger' = [pc |-> "record", schedule |-> trigger.schedule,
                 now |-> clock', outcome |-> outcome]
  /\ UNCHANGED <<schedules, threadVars, reported, triggers>>

\* Fault: the whole entry is replaced by one built from scratch.
TriggerReplacesEntry ==
  /\ trigger.pc = "record"
  /\ schedules' = [schedules EXCEPT
       ![trigger.schedule] = WithResult(NewEntry, trigger.now, trigger.outcome)]
  /\ trigger' = NoTrigger
  /\ UNCHANGED <<clock, threadVars, reported, triggers>>

\* The lock is taken and the result written, with the time taken earlier.
TriggerRecord ==
  /\ trigger.pc = "record"
  /\ schedules' = [schedules EXCEPT
       ![trigger.schedule] = WithResult(@, trigger.now, trigger.outcome)]
  /\ trigger' = NoTrigger
  /\ UNCHANGED <<clock, threadVars, reported, triggers>>

-----------------------------------------------------------------------------
Wake(s) == WakePaused(s) \/ WakeCountdown(s) \/ WakeDue(s)

Thread(s) ==
  \/ Wake(s)
  \/ Execute(s)
  \/ \E outcome \in Outcomes : Record(s, outcome)

Server ==
  \/ \E s \in Schedules : Toggle(s)
  \/ \E s \in Schedules : TriggerStart(s)
  \/ \E outcome \in Outcomes : TriggerReturn(outcome)
  \/ TriggerRecord

Next == Server \/ \E s \in Schedules : Thread(s)

\* Threads are scheduled by the system and a webhook call ends within its
\* timeout of five seconds; whether an operator presses a button is open.
Fairness == \A s \in Schedules : WF_vars(Thread(s))

Spec == Init /\ [][Next]_vars
FairSpec == Spec /\ Fairness

-----------------------------------------------------------------------------
(* Properties.                                                             *)

(* The result the dashboard shows is all of one run: build_schedule_section *)
(* reads last_error before last_status, so an error that outlives its run   *)
(* would hide every later success, and a schedule shows a time exactly when *)
(* it also shows how that run ended.                                        *)
ResultOfOneRun ==
  \A s \in Schedules :
    LET entry == schedules[s] IN
    IF entry.last_run = 0
    THEN entry.last_status = None /\ entry.last_error = None
    ELSE (entry.last_status = None) # (entry.last_error = None)

(* What toggle_schedule answered the operator stays true until the next     *)
(* toggle, whatever the schedule thread and manual runs write into the same *)
(* entry in between.                                                        *)
PauseSticks == \A s \in Schedules : schedules[s].paused = reported[s]

(* A thread about to call its webhook has counted interval_secs ticks in a  *)
(* row with the schedule unpaused since its previous call, or since the     *)
(* last tick that found it paused: a resumed schedule waits a full interval.*)
FullInterval ==
  \A s \in Schedules : thread[s] = "fire" => wakes[s] = Interval[s]

(* run_schedule drops the lock between reading paused and calling, so a     *)
(* call may still start after the operator was told the schedule is paused: *)
(* one such call per pause, never a second.                                 *)
OneLateStart == \A s \in Schedules : lateStarts[s] <= 1

(* run_schedule reads the clock inside the critical section that writes the *)
(* result, so a schedule thread never replaces a result by an older one.    *)
ThreadWritesNewest ==
  [][\A s \in Schedules :
       thread[s] = "calling" /\ thread'[s] # "calling" =>
         schedules'[s].last_run > schedules[s].last_run]_vars

(* The panel shows the most recent result of each task.  It does not hold:  *)
(* trigger_schedule_now takes the time before the lock, and a result the    *)
(* schedule thread writes in between is replaced by the older one.          *)
LastRunMonotone ==
  [][\A s \in Schedules :
       schedules'[s].last_run >= schedules[s].last_run]_vars

(* A schedule that is paused only finitely often, or in the end stays       *)
(* unpaused, makes every call the bound lets it make and returns from it:   *)
(* failed calls, manual runs and toggles never stop its thread.             *)
KeepsRunning ==
  \A s \in Schedules :
    <>[](~schedules[s].paused) => <>(runs[s] = MaxRuns /\ thread[s] = "sleep")
=============================================================================
