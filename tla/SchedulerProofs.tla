--------------------------- MODULE SchedulerProofs ---------------------------
(***************************************************************************)
(* Proofs about Scheduler.tla, for any set of schedules, any intervals and *)
(* any bounds.  The invariants that the runs check follow from one         *)
(* inductive invariant, Inv, whose parts are independent of each other     *)
(* except that each needs the types.                                       *)
(***************************************************************************)
EXTENDS Scheduler, TLAPS

-----------------------------------------------------------------------------
(* The parts of the inductive invariant.                                   *)

\* No time written or about to be written lies ahead of the clock.
TimesPast ==
  /\ \A s \in Schedules : schedules[s].last_run <= clock
  /\ trigger.pc = "record" => trigger.now \in 1 .. clock

\* Ticks counted and ticks left make up the interval.
Countdown ==
  \A s \in Schedules :
    /\ remaining[s] >= 1
    /\ thread[s] = "sleep" => wakes[s] + remaining[s] = Interval[s]
    /\ thread[s] = "fire" => wakes[s] = Interval[s] /\ remaining[s] = Interval[s]
    /\ thread[s] = "calling" => wakes[s] = 0 /\ remaining[s] = Interval[s]

\* After its late start a thread can only find the schedule paused.
LateStart ==
  \A s \in Schedules :
    \/ lateStarts[s] = 0
    \/ lateStarts[s] = 1 /\ schedules[s].paused /\ thread[s] # "fire"

Inv ==
  TypeOK /\ ResultOfOneRun /\ PauseSticks /\ TimesPast /\ Countdown /\ LateStart

-----------------------------------------------------------------------------
(* What an outcome of execute_webhook is: a status or an error, never both *)
(* and never neither.                                                      *)
LEMMA OutcomeIsEither ==
  ASSUME NEW outcome \in Outcomes
  PROVE  /\ outcome.status \in Statuses \cup {None}
         /\ outcome.error \in {None, Error}
         /\ (outcome.status = None) # (outcome.error = None)
BY OutcomeAssumption DEF Outcomes, Ok, Failed

(* Writing a result gives a well-formed entry that shows one run and keeps *)
(* the paused flag.                                                        *)
LEMMA WithResultEntry ==
  ASSUME NEW entry \in ScheduleState, NEW now \in Nat, NEW outcome \in Outcomes
  PROVE  LET new == WithResult(entry, now, outcome)
         IN  /\ new \in ScheduleState
             /\ new.paused = entry.paused
             /\ new.last_run = now
             /\ (new.last_status = None) # (new.last_error = None)
BY OutcomeIsEither DEF ScheduleState, WithResult

(* The initial state of the scheduler satisfies the inductive invariant.   *)
LEMMA InitInv == Init => Inv
<1> SUFFICES ASSUME Init PROVE Inv
  OBVIOUS
<1>1. NewEntry \in ScheduleState /\ NewEntry.last_run = 0
  BY DEF NewEntry, ScheduleState
<1>2. remaining \in [Schedules -> Nat] /\ \A s \in Schedules : remaining[s] >= 1
  BY IntervalAssumption DEF Init
<1>3. TypeOK
  BY <1>1, <1>2 DEF Init, TypeOK, ThreadPC
<1>4. ResultOfOneRun /\ PauseSticks
  BY DEF Init, NewEntry, ResultOfOneRun, PauseSticks
<1>5. TimesPast
  BY <1>1 DEF Init, TimesPast, NoTrigger
<1>6. Countdown /\ LateStart
  BY <1>2, IntervalAssumption DEF Init, Countdown, LateStart
<1> QED BY <1>3, <1>4, <1>5, <1>6 DEF Inv

(* Every tick of a schedule thread keeps the inductive invariant.          *)
LEMMA WakeInv ==
  ASSUME Inv, NEW s \in Schedules, Wake(s)
  PROVE  Inv'
<1> USE DEF entryVars, triggerVars
<1>1. CASE WakePaused(s)
  <2>1. TypeOK'
    BY <1>1, IntervalAssumption DEF Inv, WakePaused, TypeOK
  <2>2. (ResultOfOneRun /\ PauseSticks /\ TimesPast /\ LateStart)'
    BY <1>1 DEF Inv, WakePaused, ResultOfOneRun, PauseSticks, TimesPast, LateStart
  <2>3. Countdown'
    BY <1>1, IntervalAssumption DEF Inv, WakePaused, TypeOK, Countdown
  <2> QED BY <2>1, <2>2, <2>3 DEF Inv
<1>2. CASE WakeCountdown(s)
  <2>1. TypeOK'
    BY <1>2 DEF Inv, WakeCountdown, TypeOK
  <2>2. (ResultOfOneRun /\ PauseSticks /\ TimesPast /\ LateStart)'
    BY <1>2 DEF Inv, WakeCountdown, ResultOfOneRun, PauseSticks, TimesPast, LateStart
  <2>3. Countdown'
    BY <1>2, IntervalAssumption DEF Inv, WakeCountdown, TypeOK, Countdown
  <2> QED BY <2>1, <2>2, <2>3 DEF Inv
<1>3. CASE WakeDue(s)
  <2>1. TypeOK'
    <3>1. remaining' \in [Schedules -> Nat]
      BY <1>3, IntervalAssumption DEF Inv, WakeDue, TypeOK
    <3> QED BY <1>3, <3>1 DEF Inv, WakeDue, TypeOK, ThreadPC
  <2>2. (ResultOfOneRun /\ PauseSticks /\ TimesPast)'
    BY <1>3 DEF Inv, WakeDue, ResultOfOneRun, PauseSticks, TimesPast
  <2>3. Countdown'
    BY <1>3, IntervalAssumption DEF Inv, WakeDue, TypeOK, Countdown
  <2>4. LateStart'
    BY <1>3 DEF Inv, WakeDue, TypeOK, LateStart
  <2> QED BY <2>1, <2>2, <2>3, <2>4 DEF Inv
<1> QED BY <1>1, <1>2, <1>3 DEF Wake

(* Starting a call keeps the inductive invariant.                          *)
LEMMA ExecuteInv ==
  ASSUME Inv, NEW s \in Schedules, Execute(s)
  PROVE  Inv'
<1> USE DEF entryVars, triggerVars
<1>1. TypeOK'
  BY DEF Inv, Execute, TypeOK, ThreadPC
<1>2. (ResultOfOneRun /\ PauseSticks /\ TimesPast)'
  BY DEF Inv, Execute, ResultOfOneRun, PauseSticks, TimesPast
<1>3. Countdown'
  BY IntervalAssumption DEF Inv, Execute, TypeOK, Countdown
<1>4. LateStart'
  BY DEF Inv, Execute, TypeOK, LateStart
<1> QED BY <1>1, <1>2, <1>3, <1>4 DEF Inv

(* Writing the result of a scheduled call keeps the inductive invariant.   *)
LEMMA RecordInv ==
  ASSUME Inv, NEW s \in Schedules, NEW outcome \in Outcomes, Record(s, outcome)
  PROVE  Inv'
<1> USE DEF triggerVars
<1>1. schedules[s] \in ScheduleState /\ clock \in Nat /\ clock' = clock + 1
  BY DEF Inv, Record, TypeOK
<1> DEFINE new == WithResult(schedules[s], clock', outcome)
<1>2. /\ new \in ScheduleState /\ new.paused = schedules[s].paused
      /\ new.last_run = clock + 1
      /\ (new.last_status = None) # (new.last_error = None)
  BY <1>1, WithResultEntry
<1>3. schedules' = [schedules EXCEPT ![s] = new]
  BY DEF Record
<1> HIDE DEF new
<1>4. TypeOK'
  BY <1>1, <1>2, <1>3 DEF Inv, Record, TypeOK, ThreadPC, Trigger
<1>5. (ResultOfOneRun /\ PauseSticks)'
  BY <1>1, <1>2, <1>3 DEF Inv, Record, TypeOK, ResultOfOneRun, PauseSticks
<1>6. TimesPast'
  <2>1. \A t \in Schedules : schedules[t].last_run \in Nat
    BY DEF Inv, TypeOK, ScheduleState
  <2> QED BY <1>1, <1>2, <1>3, <2>1 DEF Inv, Record, TypeOK, TimesPast
<1>7. Countdown'
  BY IntervalAssumption DEF Inv, Record, TypeOK, Countdown
<1>8. LateStart'
  BY <1>2, <1>3 DEF Inv, Record, TypeOK, LateStart
<1> QED BY <1>4, <1>5, <1>6, <1>7, <1>8 DEF Inv

(* Pausing and resuming keeps the inductive invariant.                     *)
LEMMA ToggleInv ==
  ASSUME Inv, NEW s \in Schedules, Toggle(s)
  PROVE  Inv'
<1> USE DEF triggerVars
<1>1. TypeOK'
  BY DEF Inv, Toggle, TypeOK, ScheduleState
<1>2. (ResultOfOneRun /\ PauseSticks /\ TimesPast)'
  BY DEF Inv, Toggle, TypeOK, ScheduleState, ResultOfOneRun, PauseSticks, TimesPast
<1>3. Countdown'
  BY DEF Inv, Toggle, Countdown
<1>4. LateStart'
  BY DEF Inv, Toggle, TypeOK, ScheduleState, LateStart
<1> QED BY <1>1, <1>2, <1>3, <1>4 DEF Inv

(* Starting a manual run keeps the inductive invariant.                    *)
LEMMA TriggerStartInv ==
  ASSUME Inv, NEW s \in Schedules, TriggerStart(s)
  PROVE  Inv'
<1> USE DEF entryVars, threadVars
<1>1. TypeOK'
  BY DEF Inv, TriggerStart, TypeOK, Trigger
<1>2. (ResultOfOneRun /\ PauseSticks /\ TimesPast /\ Countdown /\ LateStart)'
  BY DEF Inv, TriggerStart, ResultOfOneRun, PauseSticks, TimesPast, Countdown, LateStart
<1> QED BY <1>1, <1>2 DEF Inv

(* The return of a manual run's call keeps the inductive invariant.        *)
LEMMA TriggerReturnInv ==
  ASSUME Inv, NEW outcome \in Outcomes, TriggerReturn(outcome)
  PROVE  Inv'
<1> USE DEF threadVars
<1>1. trigger.schedule \in Schedules
  BY DEF Inv, TypeOK, Trigger, TriggerReturn, NoTrigger
<1>2. TypeOK'
  BY <1>1 DEF Inv, TriggerReturn, TypeOK, Trigger
<1>3. (ResultOfOneRun /\ PauseSticks /\ Countdown /\ LateStart)'
  BY DEF Inv, TriggerReturn, ResultOfOneRun, PauseSticks, Countdown, LateStart
<1>4. TimesPast'
  BY DEF Inv, TriggerReturn, TypeOK, ScheduleState, TimesPast
<1> QED BY <1>2, <1>3, <1>4 DEF Inv

(* Writing the result of a manual run keeps the inductive invariant.       *)
LEMMA TriggerRecordInv ==
  ASSUME Inv, TriggerRecord
  PROVE  Inv'
<1> USE DEF threadVars
<1> DEFINE s == trigger.schedule
           new == WithResult(schedules[s], trigger.now, trigger.outcome)
<1>1. s \in Schedules /\ trigger.now \in Nat /\ trigger.outcome \in Outcomes
  BY DEF Inv, TypeOK, Trigger, TriggerRecord, NoTrigger
<1>2. trigger.now \in 1 .. clock /\ clock \in Nat
  BY DEF Inv, TypeOK, TimesPast, TriggerRecord
<1>3. /\ new \in ScheduleState /\ new.paused = schedules[s].paused
      /\ new.last_run = trigger.now
      /\ (new.last_status = None) # (new.last_error = None)
  BY <1>1, WithResultEntry DEF Inv, TypeOK
<1>4. schedules' = [schedules EXCEPT ![s] = new]
  BY DEF TriggerRecord
<1> HIDE DEF s, new
<1>5. TypeOK'
  BY <1>1, <1>3, <1>4 DEF Inv, TriggerRecord, TypeOK
<1>6. (ResultOfOneRun /\ PauseSticks)'
  BY <1>1, <1>2, <1>3, <1>4 DEF Inv, TriggerRecord, TypeOK, ResultOfOneRun, PauseSticks
<1>7. TimesPast'
  BY <1>1, <1>2, <1>3, <1>4 DEF Inv, TriggerRecord, TypeOK, TimesPast, NoTrigger
<1>8. Countdown'
  BY DEF Inv, TriggerRecord, Countdown
<1>9. LateStart'
  BY <1>1, <1>3, <1>4 DEF Inv, TriggerRecord, TypeOK, LateStart
<1> QED BY <1>5, <1>6, <1>7, <1>8, <1>9 DEF Inv

(* The inductive invariant holds in every reachable state.                 *)
THEOREM Invariance == Spec => []Inv
<1>1. Inv /\ [Next]_vars => Inv'
  <2> SUFFICES ASSUME Inv, [Next]_vars PROVE Inv'
    OBVIOUS
  <2>1. CASE Server
    BY <2>1, ToggleInv, TriggerStartInv, TriggerReturnInv, TriggerRecordInv DEF Server
  <2>2. CASE \E s \in Schedules : Thread(s)
    BY <2>2, WakeInv, ExecuteInv, RecordInv DEF Thread
  <2>3. CASE UNCHANGED vars
    BY <2>3 DEF vars, Inv, TypeOK, ResultOfOneRun, PauseSticks, TimesPast,
                Countdown, LateStart
  <2> QED BY <2>1, <2>2, <2>3 DEF Next
<1> QED BY InitInv, <1>1, PTL DEF Spec

-----------------------------------------------------------------------------
(* Every variable of the scheduler always has its type.                    *)
THEOREM TypeCorrect == Spec => []TypeOK
BY Invariance, PTL DEF Inv

(* The dashboard's result of a schedule is always that of one run.         *)
THEOREM OneRunShown == Spec => []ResultOfOneRun
BY Invariance, PTL DEF Inv

(* No write of a result ever undoes a pause or a resume.                   *)
THEOREM PauseIsKept == Spec => []PauseSticks
BY Invariance, PTL DEF Inv

(* A schedule thread calls only after a full interval of unpaused ticks.   *)
THEOREM IntervalIsKept == Spec => []FullInterval
<1>1. Inv => FullInterval
  BY DEF Inv, Countdown, FullInterval
<1> QED BY Invariance, <1>1, PTL

(* At most one scheduled call starts after a schedule has been paused.     *)
THEOREM PauseStopsCalls == Spec => []OneLateStart
<1>1. Inv => OneLateStart
  <2> SUFFICES ASSUME Inv, NEW s \in Schedules PROVE lateStarts[s] <= 1
    BY DEF OneLateStart
  <2>1. lateStarts[s] = 0 \/ lateStarts[s] = 1
    BY DEF Inv, LateStart
  <2> QED BY <2>1
<1> QED BY Invariance, <1>1, PTL

(* A schedule thread always replaces a result by a newer one.              *)
THEOREM ThreadsMoveForward == Spec => ThreadWritesNewest
<1>1. ASSUME Inv, [Next]_vars,
             NEW s \in Schedules, thread[s] = "calling", thread'[s] # "calling"
      PROVE  schedules'[s].last_run > schedules[s].last_run
  <2>1. PICK outcome \in Outcomes : Record(s, outcome)
    <3>1. ~UNCHANGED thread
      BY <1>1
    <3>2. ~Server
      BY <3>1 DEF Server, Toggle, TriggerStart, TriggerReturn, TriggerRecord, threadVars
    <3>3. PICK t \in Schedules : Thread(t)
      BY <1>1, <3>1, <3>2 DEF Next, vars
    <3>4. t = s
      BY <1>1, <3>3 DEF Inv, TypeOK, Thread, Wake, WakePaused, WakeCountdown,
                        WakeDue, Execute, Record
    <3> QED BY <1>1, <3>3, <3>4 DEF Thread, Wake, WakePaused, WakeCountdown,
                                    WakeDue, Execute
  <2>2. schedules[s].last_run <= clock /\ schedules[s].last_run \in Nat /\ clock \in Nat
    BY <1>1 DEF Inv, TypeOK, ScheduleState, TimesPast
  <2>3. schedules'[s].last_run = clock + 1
    BY <1>1, <2>1, WithResultEntry DEF Inv, TypeOK, Record
  <2> QED BY <2>2, <2>3
<1>2. Inv /\ [Next]_vars =>
        [\A s \in Schedules : thread[s] = "calling" /\ thread'[s] # "calling" =>
           schedules'[s].last_run > schedules[s].last_run]_vars
  BY <1>1
<1> QED BY Invariance, <1>2, PTL DEF Spec, ThreadWritesNewest
=============================================================================
