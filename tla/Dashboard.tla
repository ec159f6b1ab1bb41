------------------------------ MODULE Dashboard ------------------------------
(***************************************************************************)
(* The dashboard in the browsers of its operators: the script of           *)
(* src/src/templates/dashboard.html, and what the server thread answers it *)
(* about schedules (build_schedule_section and handle_schedule_request in  *)
(* src/src/server.rs).                                                     *)
(*                                                                         *)
(* A page shows what it was told when it was loaded, changed by the        *)
(* answers to its own buttons; nothing tells it of what others do.         *)
(* Answers travel on connections of their own, so they may overtake each   *)
(* other or be lost.  The scheduler and its threads are Scheduler.tla.     *)
(***************************************************************************)
EXTENDS Naturals, Sequences

CONSTANTS
  Pages,            \* browser tabs
  MaxLoads,         \* bound: loads of each page
  MaxPresses,       \* bound: buttons pressed on all of them
  Schedules, Interval, WebhookStatuses, None, Error, MaxRuns, MaxTriggers

\* Intervals as config.rs lets them pass.
ASSUME SchedulerAssumption ==
  /\ Interval \in [Schedules -> Nat \ {0}]
  /\ None \notin WebhookStatuses /\ None # Error
  /\ MaxRuns \in Nat /\ MaxTriggers \in Nat

ASSUME LoadsAssumption == MaxLoads \in Nat /\ MaxPresses \in Nat

VARIABLES
  schedules, thread, remaining, trigger, clock, reported, runs, triggers,
  wakes, lateStarts,
  asked,       \* how often each page was asked for
  load,        \* which of these loads each page shows, 0 if none
  shown,       \* what each page shows of each schedule
  waiting,     \* the buttons that are disabled
  requests,    \* the request queue of tiny_http
  running,     \* the request of the manual run that is under way
  answers,     \* answers on their way
  presses,     \* buttons pressed so far
  toggles,     \* history: toggles of each schedule so far
  told         \* history: the last_run in the last answer about each

Sched == INSTANCE Scheduler WITH Statuses <- WebhookStatuses

schedulerVars == <<schedules, thread, remaining, trigger, clock, reported, runs,
                   triggers, wakes, lateStarts>>
serverVars == <<requests, running, answers, toggles, told>>
pageVars == <<asked, load, shown, waiting, presses>>
dashboardVars == <<schedulerVars, serverVars, pageVars>>

\* Of the toggles and the run that an item on a page accounts for.
Item == [paused : BOOLEAN, toggles : Nat, last_run : Nat]

Button == [page : Pages, schedule : Schedules, kind : {"toggle", "run"}]

PageRequest == [page : Pages, kind : {"page"}, load : Nat]
ButtonRequest ==
  [page : Pages, kind : {"toggle", "run"}, load : Nat, schedule : Schedules]

ASSUME NoRequestAssumption == None \notin PageRequest \cup ButtonRequest

DashboardTypeOK ==
  /\ Sched!TypeOK
  /\ asked \in [Pages -> 0 .. MaxLoads] /\ load \in [Pages -> 0 .. MaxLoads]
  /\ shown \in [Pages -> [Schedules -> Item]]
  /\ waiting \subseteq Button
  /\ requests \in Seq(PageRequest \cup ButtonRequest)
  /\ running \in ButtonRequest \cup {None}
  /\ presses \in 0 .. MaxPresses
  /\ toggles \in [Schedules -> Nat] /\ told \in [Schedules -> Nat]

-----------------------------------------------------------------------------
ItemOf(s) ==
  [paused |-> schedules[s].paused, toggles |-> toggles[s],
   last_run |-> schedules[s].last_run]

DashboardInit ==
  /\ Sched!Init
  /\ asked = [p \in Pages |-> 0]
  /\ load = [p \in Pages |-> 0]
  /\ toggles = [s \in Schedules |-> 0]
  /\ told = [s \in Schedules |-> 0]
  /\ shown = [p \in Pages |-> [s \in Schedules |-> ItemOf(s)]]
  /\ waiting = {}
  /\ requests = <<>>
  /\ running = None
  /\ answers = {}
  /\ presses = 0

-----------------------------------------------------------------------------
(* The pages.                                                              *)

\* The old page stays until the new one is there.
Load(p) ==
  /\ asked[p] < MaxLoads
  /\ asked' = [asked EXCEPT ![p] = @ + 1]
  /\ requests' = Append(requests, [page |-> p, kind |-> "page", load |-> asked'[p]])
  /\ UNCHANGED <<schedulerVars, running, answers, toggles, told, load, shown,
                 waiting, presses>>

\* A button is disabled until its answer is there.
Press(p, s, kind) ==
  LET button == [page |-> p, schedule |-> s, kind |-> kind] IN
  /\ load[p] > 0 /\ presses < MaxPresses
  /\ button \notin waiting
  /\ waiting' = waiting \cup {button}
  /\ presses' = presses + 1
  /\ requests' = Append(requests,
       [page |-> p, kind |-> kind, load |-> load[p], schedule |-> s])
  /\ UNCHANGED <<schedulerVars, running, answers, toggles, told, asked, load, shown>>

Gone(a) == answers' = answers \ {a}

OthersUnmoved == UNCHANGED <<schedulerVars, requests, running, toggles, told, asked,
                             presses>>

\* Only the load that was asked for last replaces the page.
PageArrives(a) ==
  /\ a.kind = "page"
  /\ a.load = asked[a.page]
  /\ load' = [load EXCEPT ![a.page] = a.load]
  /\ shown' = [shown EXCEPT ![a.page] = a.items]
  /\ waiting' = {button \in waiting : button.page # a.page}
  /\ Gone(a) /\ OthersUnmoved

Enabled(a) == waiting \ {[page |-> a.page, schedule |-> a.schedule, kind |-> a.kind]}

\* The label is the answer's, whatever it was.
ToggleArrives(a) ==
  /\ a.kind = "toggle"
  /\ a.load = load[a.page]
  /\ shown' = [shown EXCEPT ![a.page][a.schedule].paused = a.item.paused,
                            ![a.page][a.schedule].toggles = a.item.toggles]
  /\ waiting' = Enabled(a)
  /\ UNCHANGED load
  /\ Gone(a) /\ OthersUnmoved

RunArrives(a) ==
  /\ a.kind = "run"
  /\ a.load = load[a.page]
  /\ shown' = [shown EXCEPT ![a.page][a.schedule].last_run = a.item.last_run]
  /\ waiting' = Enabled(a)
  /\ UNCHANGED load
  /\ Gone(a) /\ OthersUnmoved

\* The request fails in the browser, which enables the button again.
ButtonFails(a) ==
  /\ a.kind # "page"
  /\ a.load = load[a.page]
  /\ waiting' = Enabled(a)
  /\ UNCHANGED <<load, shown>>
  /\ Gone(a) /\ OthersUnmoved

\* An answer to a page that is no longer there, or a page that fails to load.
Dropped(a) ==
  /\ a.kind = "page" \/ a.load # load[a.page]
  /\ UNCHANGED <<load, shown, waiting>>
  /\ Gone(a) /\ OthersUnmoved

-----------------------------------------------------------------------------
(* The server thread: one request at a time.                               *)

Serves(kind) ==
  /\ running = None
  /\ requests # <<>> /\ Head(requests).kind = kind
  /\ requests' = Tail(requests)
  /\ UNCHANGED pageVars

ButtonAnswer(request, item) ==
  [page |-> request.page, load |-> request.load, kind |-> request.kind,
   schedule |-> request.schedule, item |-> item]

\* Fault: pages are served while a manual run is under way.
ServePageMeanwhile ==
  /\ requests # <<>> /\ Head(requests).kind = "page"
  /\ requests' = Tail(requests)
  /\ answers' = answers \cup {[page |-> Head(requests).page, kind |-> "page",
       load |-> Head(requests).load, items |-> [s \in Schedules |-> ItemOf(s)]]}
  /\ told' = [s \in Schedules |-> schedules[s].last_run]
  /\ UNCHANGED <<schedulerVars, pageVars, running, toggles>>

\* render_homepage: the map is locked once and copied.
ServePage ==
  /\ Serves("page")
  /\ answers' = answers \cup {[page |-> Head(requests).page, kind |-> "page",
       load |-> Head(requests).load, items |-> [s \in Schedules |-> ItemOf(s)]]}
  /\ told' = [s \in Schedules |-> schedules[s].last_run]
  /\ UNCHANGED <<schedulerVars, running, toggles>>

\* Fault: the answer is what the schedule was before.
TellOldState ==
  LET request == Head(requests)
      s == request.schedule
  IN  /\ Serves("toggle")
      /\ Sched!Toggle(s)
      /\ toggles' = [toggles EXCEPT ![s] = @ + 1]
      /\ answers' = answers \cup {ButtonAnswer(request,
           [paused |-> schedules[s].paused, toggles |-> toggles'[s]])}
      /\ UNCHANGED <<running, told>>

ServeToggle ==
  LET request == Head(requests)
      s == request.schedule
  IN  /\ Serves("toggle")
      /\ Sched!Toggle(s)
      /\ toggles' = [toggles EXCEPT ![s] = @ + 1]
      /\ answers' = answers \cup {ButtonAnswer(request,
           [paused |-> schedules'[s].paused, toggles |-> toggles'[s]])}
      /\ UNCHANGED <<running, told>>

ServeRun ==
  /\ Serves("run")
  /\ Sched!TriggerStart(Head(requests).schedule)
  /\ running' = Head(requests)
  /\ UNCHANGED <<answers, toggles, told>>

RunReturns(outcome) ==
  /\ Sched!TriggerReturn(outcome)
  /\ UNCHANGED <<serverVars, pageVars>>

\* The answer is the outcome of this run, not what the map holds by then.
AnswerRun ==
  /\ Sched!TriggerRecord
  /\ answers' = answers \cup {ButtonAnswer(running, [last_run |-> trigger.now])}
  /\ told' = [told EXCEPT ![running.schedule] = trigger.now]
  /\ running' = None
  /\ UNCHANGED <<requests, toggles, pageVars>>

ThreadMoves(s) == Sched!Thread(s) /\ UNCHANGED <<serverVars, pageVars>>

-----------------------------------------------------------------------------
DashboardNext ==
  \/ \E p \in Pages : Load(p)
  \/ \E p \in Pages, s \in Schedules, kind \in {"toggle", "run"} : Press(p, s, kind)
  \/ \E a \in answers :
       PageArrives(a) \/ ToggleArrives(a) \/ RunArrives(a) \/ ButtonFails(a) \/ Dropped(a)
  \/ ServePage \/ ServeToggle \/ ServeRun \/ AnswerRun
  \/ \E outcome \in Sched!Outcomes : RunReturns(outcome)
  \/ \E s \in Schedules : ThreadMoves(s)

DashboardSpec == DashboardInit /\ [][DashboardNext]_dashboardVars

-----------------------------------------------------------------------------
(* Properties.                                                             *)

(* A page that has been told of the last toggle of a schedule shows whether *)
(* it is paused: neither its thread, nor manual runs, nor answers that are  *)
(* lost or overtaken, nor a reload make the button say the wrong thing.     *)
(* Only a toggle the page does not know of does.                            *)
PageIsCurrent ==
  \A p \in Pages, s \in Schedules :
    shown[p][s].toggles = toggles[s] => shown[p][s].paused = schedules[s].paused

(* The time of the last run of a schedule, as the runner tells it, never    *)
(* goes back, although a manual run may replace a newer result: the server  *)
(* thread answers nobody between the two.  And as long as a page is not     *)
(* loaded anew, nothing on it is replaced by something older.               *)
NeverGoesBack ==
  [][\A s \in Schedules :
       /\ told'[s] >= told[s]
       /\ \A p \in Pages :
            load[p] > 0 /\ load'[p] = load[p] =>
              /\ shown'[p][s].toggles >= shown[p][s].toggles
              /\ shown'[p][s].last_run >= shown[p][s].last_run]_dashboardVars
=============================================================================
