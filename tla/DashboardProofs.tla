--------------------------- MODULE DashboardProofs ---------------------------
(***************************************************************************)
(* Proofs about Dashboard.tla, for any pages, schedules and bounds.        *)
(***************************************************************************)
EXTENDS Dashboard, Integers, SequenceTheorems, TLAPS

-----------------------------------------------------------------------------
(* What a schedule, an item on a page and an answer say of a toggle agrees *)
(* with the number of toggles they account for.                            *)
Says(paused, n) == paused \in BOOLEAN /\ n \in Nat /\ (paused <=> n % 2 = 1)

(* The shared map and what may be written into it next.                    *)
Entries ==
  /\ schedules \in [Schedules -> Sched!ScheduleState]
  /\ trigger \in Sched!Trigger \cup {Sched!NoTrigger}
  /\ clock \in Nat
  /\ toggles \in [Schedules -> Nat]
  /\ \A s \in Schedules : Says(schedules[s].paused, toggles[s])

ItemsSay(items) ==
  /\ items \in [Schedules -> Item]
  /\ \A s \in Schedules : Says(items[s].paused, items[s].toggles)

AnswerSays(a) ==
  /\ a.kind = "page" => ItemsSay(a.items)
  /\ a.kind = "toggle" => Says(a.item.paused, a.item.toggles)
  /\ a.kind = "run" => a.item.last_run \in Nat

(* What the server thread is working on, what is on its way to the pages,  *)
(* and what they show.                                                     *)
ManualRun == {request \in ButtonRequest : request.kind = "run"}

Told ==
  /\ asked \in [Pages -> Nat] /\ load \in [Pages -> Nat]
  /\ requests \in Seq(PageRequest \cup ButtonRequest)
  /\ running \in ButtonRequest \cup {None}
  /\ trigger # Sched!NoTrigger => running \in ManualRun
  /\ \A a \in answers : AnswerSays(a)
  /\ shown \in [Pages -> [Schedules -> Item]]
  /\ \A p \in Pages : ItemsSay(shown[p])

-----------------------------------------------------------------------------
(* Lemmas.                                                                 *)

(* A toggle more turns the button over.                                    *)
LEMMA OneMore ==
  ASSUME NEW paused, NEW n, Says(paused, n)
  PROVE  Says(~paused, n + 1)
BY DEF Says

(* The next request is one, and what is left after it are requests.        *)
LEMMA Served ==
  ASSUME Told, requests # <<>>
  PROVE  /\ Head(requests) \in PageRequest \cup ButtonRequest
         /\ Tail(requests) \in Seq(PageRequest \cup ButtonRequest)
         /\ Head(requests).kind # "page" => Head(requests) \in ButtonRequest
<1>1. /\ Head(requests) \in PageRequest \cup ButtonRequest
      /\ Tail(requests) \in Seq(PageRequest \cup ButtonRequest)
  BY HeadTailProperties DEF Told
<1> QED BY <1>1 DEF PageRequest

(* A result is written without a change to the paused flag.                *)
LEMMA WrittenEntry ==
  ASSUME NEW entry \in Sched!ScheduleState, NEW now \in Nat,
         NEW outcome \in Sched!Outcomes
  PROVE  /\ Sched!WithResult(entry, now, outcome) \in Sched!ScheduleState
         /\ Sched!WithResult(entry, now, outcome).paused = entry.paused
<1>1. /\ outcome.status \in WebhookStatuses \cup {None}
      /\ outcome.error \in {None, Error}
  BY DEF Sched!Outcomes, Sched!Ok, Sched!Failed
<1> QED BY <1>1 DEF Sched!WithResult, Sched!ScheduleState

(* Entries that keep their flags agree with toggles that do not change.    *)
LEMMA FlagsKept ==
  ASSUME Entries, UNCHANGED toggles,
         schedules' \in [Schedules -> Sched!ScheduleState],
         trigger' \in Sched!Trigger \cup {Sched!NoTrigger},
         clock' \in Nat,
         \A s \in Schedules : schedules'[s].paused = schedules[s].paused
  PROVE  Entries'
BY DEF Entries

(* The schedule threads and manual runs keep Entries.                      *)
LEMMA SchedulerKeeps ==
  ASSUME Entries, UNCHANGED toggles,
         \/ \E s \in Schedules : Sched!Thread(s) \/ Sched!TriggerStart(s)
         \/ \E outcome \in Sched!Outcomes : Sched!TriggerReturn(outcome)
         \/ Sched!TriggerRecord
  PROVE  Entries'
<1>1. ASSUME NEW s \in Schedules, NEW now \in Nat, NEW outcome \in Sched!Outcomes,
             schedules' = [schedules EXCEPT
                             ![s] = Sched!WithResult(@, now, outcome)]
      PROVE  /\ schedules' \in [Schedules -> Sched!ScheduleState]
             /\ \A t \in Schedules : schedules'[t].paused = schedules[t].paused
  <2>1. schedules \in [Schedules -> Sched!ScheduleState]
    BY DEF Entries
  <2>2. /\ Sched!WithResult(schedules[s], now, outcome) \in Sched!ScheduleState
        /\ Sched!WithResult(schedules[s], now, outcome).paused = schedules[s].paused
    BY <2>1, WrittenEntry
  <2> QED BY <1>1, <2>1, <2>2
<1>2. ASSUME NEW s \in Schedules, NEW outcome \in Sched!Outcomes,
             Sched!Record(s, outcome)
      PROVE  Entries'
  <2>1. clock' = clock + 1 /\ clock' \in Nat /\ trigger' = trigger
    BY <1>2 DEF Sched!Record, Sched!triggerVars, Entries
  <2>2. schedules' = [schedules EXCEPT ![s] = Sched!WithResult(@, clock', outcome)]
    BY <1>2 DEF Sched!Record
  <2> QED BY <1>1, <2>1, <2>2, FlagsKept DEF Entries
<1>3. ASSUME NEW s \in Schedules, Sched!Wake(s) \/ Sched!Execute(s)
      PROVE  Entries'
  <2>1. UNCHANGED <<schedules, clock, trigger>>
    BY <1>3 DEF Sched!Wake, Sched!WakePaused, Sched!WakeCountdown, Sched!WakeDue,
       Sched!Execute, Sched!entryVars, Sched!triggerVars
  <2> QED BY <2>1 DEF Entries
<1>4. ASSUME NEW s \in Schedules, Sched!TriggerStart(s)
      PROVE  Entries'
  <2>1. /\ UNCHANGED <<schedules, clock>>
        /\ trigger' = [pc |-> "calling", schedule |-> s]
    BY <1>4 DEF Sched!TriggerStart, Sched!entryVars
  <2>2. trigger' \in Sched!Trigger
    BY <2>1 DEF Sched!Trigger
  <2> QED BY <2>1, <2>2 DEF Entries
<1>5. ASSUME NEW outcome \in Sched!Outcomes, Sched!TriggerReturn(outcome)
      PROVE  Entries'
  <2>1. trigger \in Sched!Trigger /\ trigger.schedule \in Schedules
    BY <1>5 DEF Entries, Sched!TriggerReturn, Sched!Trigger, Sched!NoTrigger
  <2>2. /\ UNCHANGED schedules /\ clock' = clock + 1
        /\ trigger' = [pc |-> "record", schedule |-> trigger.schedule,
                       now |-> clock', outcome |-> outcome]
    BY <1>5 DEF Sched!TriggerReturn
  <2>3. clock' \in Nat
    BY <2>2 DEF Entries
  <2>4. trigger' \in Sched!Trigger
    BY <2>1, <2>2, <2>3 DEF Sched!Trigger
  <2> QED BY <2>2, <2>3, <2>4 DEF Entries
<1>6. CASE Sched!TriggerRecord
  <2>1. /\ trigger.schedule \in Schedules /\ trigger.now \in Nat
        /\ trigger.outcome \in Sched!Outcomes
    BY <1>6 DEF Entries, Sched!TriggerRecord, Sched!Trigger, Sched!NoTrigger
  <2>2. /\ trigger' = Sched!NoTrigger /\ UNCHANGED clock
        /\ schedules' = [schedules EXCEPT ![trigger.schedule] =
                           Sched!WithResult(@, trigger.now, trigger.outcome)]
    BY <1>6 DEF Sched!TriggerRecord
  <2> QED BY <1>1, <2>1, <2>2, FlagsKept DEF Entries
<1> QED BY <1>2, <1>3, <1>4, <1>5, <1>6 DEF Sched!Thread

(* A toggle turns its entry over and no other.                             *)
LEMMA ToggleKeeps ==
  ASSUME Entries, NEW s \in Schedules, Sched!Toggle(s),
         toggles' = [toggles EXCEPT ![s] = @ + 1]
  PROVE  Entries' /\ Says(schedules'[s].paused, toggles'[s])
<1>1. schedules \in [Schedules -> Sched!ScheduleState] /\ toggles \in [Schedules -> Nat]
  BY DEF Entries
<1>2. schedules' = [schedules EXCEPT ![s].paused = ~@]
  BY DEF Sched!Toggle
<1>3. /\ schedules' \in [Schedules -> Sched!ScheduleState]
      /\ \A t \in Schedules : t # s => schedules'[t] = schedules[t]
      /\ schedules'[s].paused = ~schedules[s].paused
  BY <1>1, <1>2 DEF Sched!ScheduleState
<1>4. /\ toggles' \in [Schedules -> Nat] /\ toggles'[s] = toggles[s] + 1
      /\ \A t \in Schedules : t # s => toggles'[t] = toggles[t]
  BY <1>1
<1>5. Says(schedules'[s].paused, toggles'[s])
  <2>1. Says(schedules[s].paused, toggles[s])
    BY DEF Entries
  <2>2. Says(~schedules[s].paused, toggles[s] + 1)
    BY <2>1, OneMore
  <2> QED BY <1>3, <1>4, <2>2
<1>6. UNCHANGED <<clock, trigger>>
  BY DEF Sched!Toggle, Sched!triggerVars
<1> QED BY <1>3, <1>4, <1>5, <1>6 DEF Entries

(* What a page is told when it is loaded agrees with the entries.          *)
LEMMA LoadedItems ==
  ASSUME Entries
  PROVE  ItemsSay([s \in Schedules |-> ItemOf(s)])
<1>1. \A s \in Schedules : ItemOf(s) \in Item /\ Says(ItemOf(s).paused, ItemOf(s).toggles)
  BY DEF Entries, ItemOf, Item, Says, Sched!ScheduleState
<1> QED BY <1>1 DEF ItemsSay

-----------------------------------------------------------------------------
(* The steps.                                                              *)

(* Nothing is paused and nothing was toggled at the start.                 *)
LEMMA InitAgrees == DashboardInit => Entries /\ Told
<1> SUFFICES ASSUME DashboardInit PROVE Entries /\ Told
  OBVIOUS
<1>1. Entries
  <2>1. Sched!NewEntry \in Sched!ScheduleState /\ ~Sched!NewEntry.paused
    BY DEF Sched!NewEntry, Sched!ScheduleState
  <2>2. Says(FALSE, 0)
    BY DEF Says
  <2>3. /\ schedules = [s \in Schedules |-> Sched!NewEntry]
        /\ toggles = [s \in Schedules |-> 0]
        /\ trigger = Sched!NoTrigger /\ clock = 0
    BY DEF DashboardInit, Sched!Init
  <2>4. \A s \in Schedules : Says(schedules[s].paused, toggles[s])
    <3>1. Sched!NewEntry.paused = FALSE
      BY DEF Sched!NewEntry
    <3> QED BY <2>2, <2>3, <3>1
  <2> QED BY <2>1, <2>3, <2>4 DEF Entries
<1>2. ItemsSay([s \in Schedules |-> ItemOf(s)])
  BY <1>1, LoadedItems
<1>3. Told
  BY <1>2, EmptySeq DEF DashboardInit, Sched!Init, Told, ItemsSay
<1> QED BY <1>1, <1>3

(* Asking for a page and pressing a button tell nobody anything.           *)
LEMMA AskingKeeps ==
  ASSUME Entries, Told,
         \/ \E p \in Pages : Load(p)
         \/ \E p \in Pages, s \in Schedules, kind \in {"toggle", "run"} :
              Press(p, s, kind)
  PROVE  Entries' /\ Told'
<1> USE DEF schedulerVars
<1>1. Entries'
  BY DEF Load, Press, Entries
<1>2. /\ asked' \in [Pages -> Nat]
      /\ \E request \in PageRequest \cup ButtonRequest :
           requests' = Append(requests, request)
  <2>1. ASSUME NEW p \in Pages, Load(p)
        PROVE  /\ asked' \in [Pages -> Nat]
               /\ \E request \in PageRequest : requests' = Append(requests, request)
    <3>1. asked \in [Pages -> Nat] /\ asked' = [asked EXCEPT ![p] = @ + 1]
      BY <2>1 DEF Told, Load
    <3>2. asked' \in [Pages -> Nat] /\ asked'[p] \in Nat
      BY <3>1
    <3>3. [page |-> p, kind |-> "page", load |-> asked'[p]] \in PageRequest
      BY <3>2 DEF PageRequest
    <3> QED BY <2>1, <3>2, <3>3 DEF Load
  <2>2. ASSUME NEW p \in Pages, NEW s \in Schedules, NEW kind \in {"toggle", "run"},
               Press(p, s, kind)
        PROVE  /\ asked' \in [Pages -> Nat]
               /\ \E request \in ButtonRequest : requests' = Append(requests, request)
    <3>1. load[p] \in Nat
      BY DEF Told
    <3>2. [page |-> p, kind |-> kind, load |-> load[p], schedule |-> s] \in ButtonRequest
      BY <3>1 DEF ButtonRequest
    <3> QED BY <2>2, <3>2 DEF Press, Told
  <2> QED BY <2>1, <2>2
<1>3. requests' \in Seq(PageRequest \cup ButtonRequest)
  <2>1. requests \in Seq(PageRequest \cup ButtonRequest)
    BY DEF Told
  <2> QED BY <1>2, <2>1, AppendProperties
<1>4. UNCHANGED <<running, answers, load, shown, trigger>>
  BY DEF Load, Press
<1> QED BY <1>1, <1>2, <1>3, <1>4 DEF Told, AnswerSays, ItemsSay

(* What an answer changes on a page agrees with what it was told.          *)
LEMMA ArrivingKeeps ==
  ASSUME Entries, Told, NEW a \in answers,
         PageArrives(a) \/ ToggleArrives(a) \/ RunArrives(a) \/ ButtonFails(a)
           \/ Dropped(a)
  PROVE  Entries' /\ Told'
<1> USE DEF schedulerVars, OthersUnmoved
<1>1. Entries' /\ UNCHANGED <<requests, running, trigger, asked>>
  BY DEF PageArrives, ToggleArrives, RunArrives, ButtonFails, Dropped, Entries
<1>2. answers' \subseteq answers
  BY DEF PageArrives, ToggleArrives, RunArrives, ButtonFails, Dropped, Gone
<1>3. AnswerSays(a)
  BY DEF Told
<1>4. load' \in [Pages -> Nat]
  <2>1. CASE PageArrives(a)
    <3>1. load' = [load EXCEPT ![a.page] = asked[a.page]]
      BY <2>1 DEF PageArrives
    <3> QED BY <3>1 DEF Told
  <2>2. CASE ~PageArrives(a)
    BY <2>2 DEF ToggleArrives, RunArrives, ButtonFails, Dropped, Told
  <2> QED BY <2>1, <2>2
<1>5. shown \in [Pages -> [Schedules -> Item]] /\ \A p \in Pages : ItemsSay(shown[p])
  BY DEF Told
<1>6. shown' \in [Pages -> [Schedules -> Item]]
      /\ \A p \in Pages : ItemsSay(shown'[p])
  <2>1. CASE PageArrives(a)
    <3>1. ItemsSay(a.items) /\ shown' = [shown EXCEPT ![a.page] = a.items]
      BY <1>3, <2>1 DEF PageArrives, AnswerSays
    <3>2. \A p \in Pages : shown'[p] = IF p = a.page THEN a.items ELSE shown[p]
      BY <1>5, <3>1
    <3>3. shown' \in [Pages -> [Schedules -> Item]]
      BY <1>5, <3>1 DEF ItemsSay
    <3> QED BY <1>5, <3>1, <3>2, <3>3
  <2>2. ASSUME NEW item \in Item, Says(item.paused, item.toggles),
               shown' = [shown EXCEPT ![a.page][a.schedule] = item]
        PROVE  /\ shown' \in [Pages -> [Schedules -> Item]]
               /\ \A p \in Pages : ItemsSay(shown'[p])
    <3>1. shown' \in [Pages -> [Schedules -> Item]]
      BY <1>5, <2>2
    <3>2. \A p \in Pages, s \in Schedules :
            shown'[p][s] \in {item, shown[p][s]}
      BY <1>5, <2>2
    <3> QED BY <1>5, <2>2, <3>1, <3>2 DEF ItemsSay
  <2>3. CASE a.page \notin Pages \/ a.schedule \notin Schedules
    <3>1. shown' = shown \/ PageArrives(a)
      BY <1>5, <2>3 DEF ToggleArrives, RunArrives, ButtonFails, Dropped
    <3> QED BY <1>5, <2>1, <3>1
  <2>4. CASE a.page \in Pages /\ a.schedule \in Schedules /\ ToggleArrives(a)
    <3> DEFINE old == shown[a.page][a.schedule]
               item == [paused |-> a.item.paused, toggles |-> a.item.toggles,
                        last_run |-> old.last_run]
    <3>1. old \in Item
      BY <1>5, <2>4
    <3>2. Says(a.item.paused, a.item.toggles)
      BY <1>3, <2>4 DEF ToggleArrives, AnswerSays
    <3>3. item \in Item /\ Says(item.paused, item.toggles)
      BY <3>1, <3>2 DEF Item, Says
    <3>4. shown' = [shown EXCEPT ![a.page][a.schedule] = item]
      <4> DEFINE middle == [shown EXCEPT ![a.page][a.schedule].paused = a.item.paused]
                 first == [old EXCEPT !.paused = a.item.paused]
      <4>1. /\ middle = [shown EXCEPT ![a.page][a.schedule] = first]
            /\ middle \in [Pages -> [Schedules -> Item]]
            /\ middle[a.page][a.schedule] = first
        BY <1>5, <2>4, <3>1, <3>2 DEF Item, Says
      <4>2. shown' = [middle EXCEPT ![a.page][a.schedule].toggles = a.item.toggles]
        BY <2>4 DEF ToggleArrives
      <4>3. [first EXCEPT !.toggles = a.item.toggles] = item
        <5>1. first = [paused |-> a.item.paused, toggles |-> old.toggles,
                       last_run |-> old.last_run]
          <6> HIDE DEF old
          <6> QED BY <3>1 DEF Item
        <5> HIDE DEF first, old
        <5> QED BY <5>1
      <4> HIDE DEF middle, first, item, old
      <4>4. shown' = [middle EXCEPT ![a.page][a.schedule] = item]
        BY <4>1, <4>2, <4>3
      <4> QED BY <4>1, <4>4, <1>5, <2>4
    <3> HIDE DEF item
    <3> QED BY <2>2, <3>3, <3>4
  <2>5. CASE a.page \in Pages /\ a.schedule \in Schedules /\ RunArrives(a)
    <3> DEFINE old == shown[a.page][a.schedule]
               item == [old EXCEPT !.last_run = a.item.last_run]
    <3>1. old \in Item /\ Says(old.paused, old.toggles)
      BY <1>5, <2>5 DEF ItemsSay
    <3>2. a.item.last_run \in Nat
      BY <1>3, <2>5 DEF RunArrives, AnswerSays
    <3>3. item \in Item /\ Says(item.paused, item.toggles)
      BY <3>1, <3>2 DEF Item
    <3>4. shown' = [shown EXCEPT ![a.page][a.schedule] = item]
      BY <1>5, <2>5, <3>1 DEF RunArrives, Item
    <3> HIDE DEF item
    <3> QED BY <2>2, <3>3, <3>4
  <2>6. CASE ButtonFails(a) \/ Dropped(a)
    BY <1>5, <2>6 DEF ButtonFails, Dropped
  <2> QED BY <2>1, <2>3, <2>4, <2>5, <2>6
<1> QED BY <1>1, <1>2, <1>4, <1>6 DEF Told, AnswerSays, ItemsSay

(* What the server thread answers agrees with the entries.                 *)
LEMMA ServingKeeps ==
  ASSUME Entries, Told,
         ServePage \/ ServeToggle \/ ServeRun \/ AnswerRun
  PROVE  Entries' /\ Told'
<1> USE DEF pageVars, schedulerVars
<1>1. \A a \in answers : AnswerSays(a)
  BY DEF Told
<1>2. ASSUME NEW new, AnswerSays(new), answers' \subseteq answers \cup {new},
             requests' \in Seq(PageRequest \cup ButtonRequest),
             running' \in ButtonRequest \cup {None},
             trigger' # Sched!NoTrigger => running' \in ManualRun,
             UNCHANGED <<asked, load, shown>>
      PROVE  Told'
  BY <1>1, <1>2 DEF Told, AnswerSays, ItemsSay
<1>3. CASE ServePage
  <2> DEFINE items == [s \in Schedules |-> ItemOf(s)]
             new == [page |-> Head(requests).page, kind |-> "page",
                     load |-> Head(requests).load, items |-> items]
  <2>1. /\ requests # <<>> /\ requests' = Tail(requests)
        /\ answers' = answers \cup {new}
        /\ UNCHANGED <<schedulerVars, running, toggles, asked, load, shown>>
    BY <1>3 DEF ServePage, Serves
  <2>2. AnswerSays(new)
    <3>1. ItemsSay(items)
      BY LoadedItems
    <3> HIDE DEF items
    <3> QED BY <3>1 DEF AnswerSays
  <2> HIDE DEF new
  <2>3. Told'
    BY <1>2, <2>1, <2>2, Served DEF Told
  <2> QED BY <2>1, <2>3 DEF Entries
<1>4. CASE ServeToggle
  <2> DEFINE request == Head(requests)
             s == request.schedule
             new == ButtonAnswer(request, [paused |-> schedules'[s].paused,
                                           toggles |-> toggles'[s]])
  <2>1. /\ requests # <<>> /\ request.kind = "toggle" /\ requests' = Tail(requests)
        /\ answers' = answers \cup {new}
        /\ Sched!Toggle(s) /\ toggles' = [toggles EXCEPT ![s] = @ + 1]
        /\ UNCHANGED <<running, asked, load, shown>>
    BY <1>4 DEF ServeToggle, Serves
  <2>2. request \in ButtonRequest /\ s \in Schedules
    BY <2>1, Served DEF ButtonRequest
  <2>3. Entries' /\ Says(schedules'[s].paused, toggles'[s])
    BY <2>1, <2>2, ToggleKeeps
  <2>4. AnswerSays(new)
    BY <2>1, <2>3 DEF AnswerSays, ButtonAnswer
  <2>5. UNCHANGED trigger
    BY <2>1 DEF Sched!Toggle, Sched!triggerVars
  <2> HIDE DEF new, s, request
  <2>6. Told'
    BY <1>2, <2>1, <2>4, <2>5, Served DEF Told
  <2> QED BY <2>3, <2>6
<1>5. CASE ServeRun
  <2>1. /\ requests # <<>> /\ requests' = Tail(requests)
        /\ Head(requests).kind = "run"
        /\ Sched!TriggerStart(Head(requests).schedule)
        /\ running' = Head(requests)
        /\ UNCHANGED <<answers, toggles, asked, load, shown>>
    BY <1>5 DEF ServeRun, Serves
  <2>2. Head(requests) \in ButtonRequest /\ Head(requests).schedule \in Schedules
    BY <2>1, Served DEF ButtonRequest
  <2>3. Entries'
    BY <2>1, <2>2, SchedulerKeeps
  <2>4. requests' \in Seq(PageRequest \cup ButtonRequest)
    BY <2>1, Served
  <2>5. Told'
    BY <1>1, <2>1, <2>2, <2>4 DEF Told, AnswerSays, ItemsSay, ManualRun
  <2> QED BY <2>3, <2>5
<1>6. CASE AnswerRun
  <2> DEFINE new == ButtonAnswer(running, [last_run |-> trigger.now])
  <2>1. /\ Sched!TriggerRecord /\ answers' = answers \cup {new}
        /\ running' = None
        /\ UNCHANGED <<requests, toggles, asked, load, shown>>
    BY <1>6 DEF AnswerRun
  <2>2. trigger' = Sched!NoTrigger
    BY <2>1 DEF Sched!TriggerRecord
  <2>3. AnswerSays(new)
    <3>1. trigger.now \in Nat
      BY <2>1 DEF Entries, Sched!TriggerRecord, Sched!Trigger, Sched!NoTrigger
    <3>2. running \in ManualRun
      BY <2>1 DEF Told, Sched!TriggerRecord, Sched!NoTrigger
    <3>3. new.kind = running.kind
      BY DEF ButtonAnswer
    <3> QED BY <3>1, <3>2, <3>3 DEF AnswerSays, ButtonAnswer, ManualRun
  <2> HIDE DEF new
  <2>4. Told'
    BY <1>2, <2>1, <2>2, <2>3 DEF Told
  <2>5. Entries'
    BY <2>1, SchedulerKeeps
  <2> QED BY <2>4, <2>5
<1> QED BY <1>3, <1>4, <1>5, <1>6

(* Every step keeps both.                                                  *)
LEMMA NextAgrees ==
  ASSUME Entries, Told, [DashboardNext]_dashboardVars
  PROVE  Entries' /\ Told'
<1>1. CASE \/ \E p \in Pages : Load(p)
           \/ \E p \in Pages, s \in Schedules, kind \in {"toggle", "run"} :
                Press(p, s, kind)
  BY <1>1, AskingKeeps
<1>2. ASSUME NEW a \in answers,
             PageArrives(a) \/ ToggleArrives(a) \/ RunArrives(a) \/ ButtonFails(a)
               \/ Dropped(a)
      PROVE  Entries' /\ Told'
  BY <1>2, ArrivingKeeps
<1>3. CASE ServePage \/ ServeToggle \/ ServeRun \/ AnswerRun
  BY <1>3, ServingKeeps
<1>4. ASSUME Entries', UNCHANGED <<serverVars, pageVars>>,
             trigger' # Sched!NoTrigger => trigger # Sched!NoTrigger
      PROVE  Told'
  BY <1>4 DEF serverVars, pageVars, Told, AnswerSays, ItemsSay, ManualRun
<1>5. ASSUME NEW outcome \in Sched!Outcomes, RunReturns(outcome)
      PROVE  Entries' /\ Told'
  <2>1. Sched!TriggerReturn(outcome) /\ UNCHANGED <<serverVars, pageVars>>
    BY <1>5 DEF RunReturns
  <2>2. trigger # Sched!NoTrigger
    BY <2>1 DEF Sched!TriggerReturn, Sched!NoTrigger
  <2>3. Entries'
    BY <2>1, SchedulerKeeps DEF serverVars
  <2> QED BY <1>4, <2>1, <2>2, <2>3
<1>6. ASSUME NEW s \in Schedules, ThreadMoves(s)
      PROVE  Entries' /\ Told'
  <2>1. Sched!Thread(s) /\ UNCHANGED <<serverVars, pageVars>>
    BY <1>6 DEF ThreadMoves
  <2>2. UNCHANGED trigger
    BY <2>1 DEF Sched!Thread, Sched!Wake, Sched!WakePaused, Sched!WakeCountdown,
       Sched!WakeDue, Sched!Execute, Sched!Record, Sched!triggerVars
  <2>3. Entries'
    BY <2>1, SchedulerKeeps DEF serverVars
  <2> QED BY <1>4, <2>1, <2>2, <2>3
<1>7. CASE UNCHANGED dashboardVars
  BY <1>7 DEF dashboardVars, schedulerVars, serverVars, pageVars, Entries, Told,
     AnswerSays, ItemsSay, ManualRun
<1> QED BY <1>1, <1>2, <1>3, <1>5, <1>6, <1>7 DEF DashboardNext

(* A page that knows of the last toggle of a schedule shows whether it is  *)
(* paused, whatever the threads, manual runs, reloads and the network do.  *)
THEOREM PagesAreCurrent == DashboardSpec => []PageIsCurrent
<1>1. Entries /\ Told => PageIsCurrent
  <2> SUFFICES ASSUME Entries, Told, NEW p \in Pages, NEW s \in Schedules,
                      shown[p][s].toggles = toggles[s]
               PROVE  shown[p][s].paused = schedules[s].paused
    BY DEF PageIsCurrent
  <2>1. /\ Says(shown[p][s].paused, shown[p][s].toggles)
        /\ Says(schedules[s].paused, toggles[s])
    BY DEF Entries, Told, ItemsSay
  <2> QED BY <2>1 DEF Says
<1> QED BY <1>1, InitAgrees, NextAgrees, PTL DEF DashboardSpec

-----------------------------------------------------------------------------
(* Requests and answers on their way.                                      *)

(* The request that an answer is for.                                      *)
Origin(a) ==
  IF a.kind = "page" THEN [page |-> a.page, kind |-> "page", load |-> a.load]
  ELSE [page |-> a.page, kind |-> a.kind, load |-> a.load, schedule |-> a.schedule]

ButtonOf(request) ==
  [page |-> request.page, schedule |-> request.schedule, kind |-> request.kind]

(* The requests that no answer has arrived for.                            *)
InFlight ==
  {requests[i] : i \in DOMAIN requests} \cup {Origin(a) : a \in answers}
    \cup ({running} \ {None})

(* Each is in one place: queued, under way, or answered.                   *)
InOnePlace ==
  /\ \A i, j \in DOMAIN requests : requests[i] = requests[j] => i = j
  /\ \A i \in DOMAIN requests : requests[i] # running
  /\ \A a \in answers :
       /\ a.kind = "page" => Origin(a) \in PageRequest
       /\ a.kind # "page" => Origin(a) \in ButtonRequest
       /\ Origin(a) # running /\ \A i \in DOMAIN requests : requests[i] # Origin(a)
  /\ \A a, b \in answers : Origin(a) = Origin(b) => a = b

(* A load that is awaited is not the one that is shown, and the buttons     *)
(* that a page waits for are disabled on it.                                *)
Expects(request) ==
  IF request.kind = "page"
  THEN request.load <= asked[request.page] /\ request.load # load[request.page]
  ELSE /\ request.load <= load[request.page]
       /\ request.load = load[request.page] => ButtonOf(request) \in waiting

Expected ==
  /\ \A p \in Pages : load[p] <= asked[p]
  /\ \A request \in InFlight : Expects(request)

(* A new request joins those on their way.                                 *)
LEMMA Asked ==
  ASSUME Told, InOnePlace, NEW request \in PageRequest \cup ButtonRequest,
         request \notin InFlight, requests' = Append(requests, request),
         UNCHANGED <<running, answers>>
  PROVE  InOnePlace' /\ InFlight' = InFlight \cup {request}
<1>1. /\ requests \in Seq(PageRequest \cup ButtonRequest)
      /\ DOMAIN requests' = DOMAIN requests \cup {Len(requests) + 1}
      /\ Len(requests) + 1 \notin DOMAIN requests
      /\ requests'[Len(requests) + 1] = request
      /\ \A i \in DOMAIN requests : requests'[i] = requests[i]
  BY DEF Told
<1>2. request # running
  BY NoRequestAssumption DEF InFlight
<1>3. InFlight' = InFlight \cup {request}
  BY <1>1 DEF InFlight
<1>4. /\ \A i \in DOMAIN requests : requests[i] # request
      /\ \A a \in answers : Origin(a) # request
  BY DEF InFlight
<1>5. \A i, j \in DOMAIN requests' : requests'[i] = requests'[j] => i = j
  BY <1>1, <1>4 DEF InOnePlace
<1> QED BY <1>1, <1>2, <1>3, <1>4, <1>5 DEF InOnePlace

(* The head of the queue is in the queue once.                             *)
LEMMA QueueMoves ==
  ASSUME Told, InOnePlace, requests # <<>>, requests' = Tail(requests)
  PROVE  /\ Head(requests) \in {requests[i] : i \in DOMAIN requests}
         /\ \A i \in DOMAIN requests' : requests'[i] # Head(requests)
         /\ \A i \in DOMAIN requests' : requests'[i] \in {requests[j] : j \in DOMAIN requests}
         /\ \A i, j \in DOMAIN requests' : requests'[i] = requests'[j] => i = j
<1>1. /\ Len(requests) \in Nat /\ DOMAIN requests = 1 .. Len(requests)
      /\ Len(requests) # 0 /\ Head(requests) = requests[1]
      /\ DOMAIN requests' = 1 .. (Len(requests) - 1)
      /\ \A i \in 1 .. (Len(requests) - 1) : requests'[i] = requests[i + 1]
  BY HeadTailProperties, LenProperties, EmptySeq DEF Told
<1>2. 1 \in DOMAIN requests
  BY <1>1
<1>3. ASSUME NEW i \in DOMAIN requests'
      PROVE  i + 1 \in DOMAIN requests /\ i + 1 # 1 /\ requests'[i] = requests[i + 1]
  BY <1>1
<1>4. \A i, j \in DOMAIN requests' : requests'[i] = requests'[j] => i = j
  <2> SUFFICES ASSUME NEW i \in DOMAIN requests', NEW j \in DOMAIN requests',
                      requests'[i] = requests'[j]
               PROVE  i = j
    OBVIOUS
  <2>1. i + 1 = j + 1
    BY <1>3 DEF InOnePlace
  <2>2. i \in Nat /\ j \in Nat
    BY <1>1
  <2> QED BY <2>1, <2>2
<1> QED BY <1>1, <1>2, <1>3, <1>4 DEF InOnePlace

(* An answer is given to the head of the queue.                            *)
LEMMA Answered ==
  ASSUME Told, InOnePlace, requests # <<>>, requests' = Tail(requests),
         NEW new, Origin(new) = Head(requests),
         new.kind = Head(requests).kind,
         answers' = answers \cup {new}, UNCHANGED running
  PROVE  InOnePlace' /\ InFlight' \subseteq InFlight
<1> DEFINE head == Head(requests)
<1>1. /\ head \in PageRequest \cup ButtonRequest
      /\ head.kind # "page" => head \in ButtonRequest
      /\ head.kind = "page" => head \in PageRequest
  BY Served DEF PageRequest, ButtonRequest
<1>2. /\ head \in {requests[i] : i \in DOMAIN requests}
      /\ \A i \in DOMAIN requests' : requests'[i] # head
      /\ \A i \in DOMAIN requests' : requests'[i] \in {requests[j] : j \in DOMAIN requests}
      /\ \A i, j \in DOMAIN requests' : requests'[i] = requests'[j] => i = j
  BY QueueMoves
<1>3. head # running /\ \A a \in answers : Origin(a) # head
  BY <1>2 DEF InOnePlace
<1> HIDE DEF head
<1>4. Origin(new) = head /\ new.kind = head.kind
  BY DEF head
<1>5. InFlight' \subseteq InFlight
  BY <1>2, <1>4 DEF InFlight
<1>6. \A i \in DOMAIN requests' : requests'[i] # running'
  BY <1>2 DEF InOnePlace
<1>7. \A a \in answers' :
       /\ a.kind = "page" => Origin(a) \in PageRequest
       /\ a.kind # "page" => Origin(a) \in ButtonRequest
       /\ Origin(a) # running /\ \A i \in DOMAIN requests' : requests'[i] # Origin(a)
  BY <1>1, <1>2, <1>3, <1>4 DEF InOnePlace
<1>8. \A a, b \in answers' : Origin(a) = Origin(b) => a = b
  BY <1>3, <1>4 DEF InOnePlace
<1> QED BY <1>2, <1>5, <1>6, <1>7, <1>8 DEF InOnePlace, Origin

(* A manual run takes the head of the queue, and is answered later.        *)
LEMMA RunStarted ==
  ASSUME Told, InOnePlace, requests # <<>>, requests' = Tail(requests),
         running' = Head(requests), UNCHANGED answers
  PROVE  InOnePlace' /\ InFlight' \subseteq InFlight
<1>1. /\ Head(requests) \in {requests[i] : i \in DOMAIN requests}
      /\ \A i \in DOMAIN requests' : requests'[i] # Head(requests)
      /\ \A i \in DOMAIN requests' : requests'[i] \in {requests[j] : j \in DOMAIN requests}
      /\ \A i, j \in DOMAIN requests' : requests'[i] = requests'[j] => i = j
  BY QueueMoves
<1>2. InFlight' \subseteq InFlight
  BY <1>1 DEF InFlight
<1> QED BY <1>1, <1>2 DEF InOnePlace

LEMMA RunAnswered ==
  ASSUME Told, InOnePlace, running # None, running' = None,
         NEW new, Origin(new) = running, new.kind = running.kind,
         answers' = answers \cup {new}, UNCHANGED requests
  PROVE  InOnePlace' /\ InFlight' \subseteq InFlight
<1>1. running \in ButtonRequest /\ running.kind # "page"
  BY DEF Told, ButtonRequest
<1>2. InFlight' \subseteq InFlight
  BY DEF InFlight
<1>3. \A i \in DOMAIN requests : requests[i] # None /\ requests[i] # running
  <2>1. \A i \in DOMAIN requests : requests[i] \in PageRequest \cup ButtonRequest
    BY DEF Told
  <2> QED BY <2>1, NoRequestAssumption DEF InOnePlace
<1>4. \A a \in answers' :
        /\ a.kind = "page" => Origin(a) \in PageRequest
        /\ a.kind # "page" => Origin(a) \in ButtonRequest
        /\ Origin(a) # None /\ \A i \in DOMAIN requests : requests[i] # Origin(a)
  BY <1>1, <1>3, NoRequestAssumption DEF InOnePlace
<1>5. \A a, b \in answers' : Origin(a) = Origin(b) => a = b
  BY DEF InOnePlace
<1>6. \A i, j \in DOMAIN requests : requests[i] = requests[j] => i = j
  BY DEF InOnePlace
<1> QED BY <1>2, <1>3, <1>4, <1>5, <1>6 DEF InOnePlace, Origin

(* An answer that has arrived is on its way no longer.                     *)
LEMMA Arrived ==
  ASSUME InOnePlace, NEW a \in answers, answers' = answers \ {a},
         UNCHANGED <<requests, running>>
  PROVE  /\ InOnePlace' /\ InFlight' \subseteq InFlight
         /\ Origin(a) \in InFlight /\ Origin(a) \notin InFlight'
<1>1. Origin(a) \in InFlight /\ Origin(a) \notin InFlight' /\ InFlight' \subseteq InFlight
  BY DEF InFlight, InOnePlace
<1>2. InOnePlace'
  BY DEF InOnePlace
<1> QED BY <1>1, <1>2

-----------------------------------------------------------------------------
(* The pages keep InOnePlace and Expected.                                 *)

LEMMA RequestFields ==
  /\ \A request \in PageRequest :
       request.kind = "page" /\ request.page \in Pages /\ request.load \in Nat
  /\ \A request \in ButtonRequest :
       /\ request.kind # "page" /\ request.page \in Pages
       /\ request.schedule \in Schedules /\ request.load \in Nat
  /\ \A request \in PageRequest \cup ButtonRequest :
       request.kind = "page" => request \in PageRequest
BY DEF PageRequest, ButtonRequest

LEMMA InFlightTypes ==
  ASSUME Told, InOnePlace
  PROVE  InFlight \subseteq PageRequest \cup ButtonRequest
<1>1. \A i \in DOMAIN requests : requests[i] \in PageRequest \cup ButtonRequest
  BY DEF Told
<1>2. running \in ButtonRequest \cup {None}
  BY DEF Told
<1>3. \A a \in answers : Origin(a) \in PageRequest \cup ButtonRequest
  BY DEF InOnePlace
<1> QED BY <1>1, <1>2, <1>3 DEF InFlight

(* A load gets a new number.                                               *)
LEMMA LoadExpected ==
  ASSUME Told, InOnePlace, Expected, NEW p \in Pages, Load(p)
  PROVE  InOnePlace' /\ Expected'
<1> PICK request : request = [page |-> p, kind |-> "page", load |-> asked'[p]]
  OBVIOUS
<1>1. /\ asked \in [Pages -> Nat] /\ load \in [Pages -> Nat]
      /\ asked' = [asked EXCEPT ![p] = @ + 1]
      /\ requests' = Append(requests, request)
      /\ UNCHANGED <<running, answers, load, waiting>>
  BY DEF Told, Load
<1>2. asked'[p] = asked[p] + 1 /\ \A q \in Pages : asked[q] <= asked'[q] /\ asked[q] \in Nat
  BY <1>1
<1>3. /\ request \in PageRequest /\ request.kind = "page"
      /\ request.page = p /\ request.load = asked[p] + 1
  BY <1>1, <1>2 DEF PageRequest
<1>4. request \notin InFlight
  <2> SUFFICES ASSUME request \in InFlight
               PROVE  FALSE
    OBVIOUS
  <2>1. request.load <= asked[p]
    BY <1>3 DEF Expected, Expects
  <2> QED BY <1>2, <1>3, <2>1
<1>5. InOnePlace' /\ InFlight' = InFlight \cup {request}
  BY <1>1, <1>3, <1>4, Asked
<1>6. ASSUME NEW r \in InFlight
      PROVE  Expects(r)'
  <2>1. /\ Expects(r) /\ r \in PageRequest \cup ButtonRequest
        /\ r.page \in Pages /\ r.load \in Nat
    BY InFlightTypes, RequestFields DEF Expected
  <2>2. asked[r.page] \in Nat /\ asked'[r.page] \in Nat /\ asked[r.page] <= asked'[r.page]
    BY <1>1, <1>2, <2>1
  <2> QED BY <1>1, <2>1, <2>2 DEF Expects
<1>7. Expects(request)'
  <2>1. load[p] \in Nat /\ load[p] <= asked[p] /\ asked[p] \in Nat
    BY <1>1 DEF Expected
  <2>2. request.load <= asked'[p] /\ request.load # load[p]
    BY <1>2, <1>3, <2>1
  <2> QED BY <1>1, <1>3, <2>2 DEF Expects
<1>8. \A q \in Pages : load'[q] <= asked'[q]
  <2> SUFFICES ASSUME NEW q \in Pages
               PROVE  load'[q] <= asked'[q]
    OBVIOUS
  <2>1. /\ load[q] \in Nat /\ asked[q] \in Nat /\ asked'[q] \in Nat
        /\ load[q] <= asked[q] /\ asked[q] <= asked'[q]
    BY <1>1, <1>2 DEF Expected
  <2> QED BY <1>1, <2>1
<1> QED BY <1>5, <1>6, <1>7, <1>8 DEF Expected

(* A button that is pressed is one that the page does not wait for.        *)
LEMMA PressExpected ==
  ASSUME Told, InOnePlace, Expected, NEW p \in Pages, NEW s \in Schedules,
         NEW kind \in {"toggle", "run"}, Press(p, s, kind)
  PROVE  InOnePlace' /\ Expected'
<1> DEFINE button == [page |-> p, schedule |-> s, kind |-> kind]
<1> PICK request :
      request = [page |-> p, kind |-> kind, load |-> load[p], schedule |-> s]
  OBVIOUS
<1>1. /\ load \in [Pages -> Nat] /\ button \notin waiting
      /\ waiting' = waiting \cup {button}
      /\ requests' = Append(requests, request)
      /\ UNCHANGED <<running, answers, load, asked>>
  BY DEF Told, Press
<1>2. /\ request \in ButtonRequest /\ request.kind # "page"
      /\ request.page = p /\ request.load = load[p] /\ ButtonOf(request) = button
      /\ load[p] \in Nat
  BY <1>1 DEF ButtonRequest, ButtonOf
<1> HIDE DEF button
<1>3. request \notin InFlight
  BY <1>1, <1>2 DEF Expected, Expects
<1>4. InOnePlace' /\ InFlight' = InFlight \cup {request}
  BY <1>1, <1>2, <1>3, Asked
<1>5. \A r \in InFlight : Expects(r)'
  BY <1>1 DEF Expected, Expects
<1>6. Expects(request)'
  BY <1>1, <1>2 DEF Expects
<1> QED BY <1>1, <1>4, <1>5, <1>6 DEF Expected

(* A page that arrives is newer than the one it replaces.                  *)
LEMMA PageIsNewer ==
  ASSUME Told, InOnePlace, Expected, NEW a \in answers, PageArrives(a)
  PROVE  /\ a.page \in Pages /\ a.load \in Nat /\ load[a.page] < a.load
         /\ load' = [load EXCEPT ![a.page] = a.load] /\ a.load = asked[a.page]
<1>1. /\ Origin(a) \in PageRequest /\ Origin(a).kind = "page"
      /\ Origin(a).page = a.page /\ Origin(a).load = a.load
      /\ Origin(a) \in InFlight
  BY DEF PageArrives, InOnePlace, Origin, InFlight
<1>2. a.page \in Pages /\ a.load \in Nat /\ load[a.page] # a.load
  BY <1>1, RequestFields DEF Expected, Expects
<1>3. a.load = asked[a.page] /\ load' = [load EXCEPT ![a.page] = a.load]
  BY DEF PageArrives
<1>4. load[a.page] \in Nat /\ load[a.page] <= asked[a.page]
  BY <1>2 DEF Told, Expected
<1> QED BY <1>2, <1>3, <1>4

LEMMA ArrivingExpected ==
  ASSUME Told, InOnePlace, Expected, NEW a \in answers,
         PageArrives(a) \/ ToggleArrives(a) \/ RunArrives(a) \/ ButtonFails(a)
           \/ Dropped(a)
  PROVE  InOnePlace' /\ Expected'
<1>1. answers' = answers \ {a} /\ UNCHANGED <<requests, running, asked>>
  BY DEF PageArrives, ToggleArrives, RunArrives, ButtonFails, Dropped, Gone, OthersUnmoved
<1>2. /\ InOnePlace' /\ InFlight' \subseteq InFlight
      /\ Origin(a) \in InFlight /\ Origin(a) \notin InFlight'
  BY <1>1, Arrived
<1>3. ASSUME NEW r \in InFlight'
      PROVE  /\ r \in InFlight /\ r # Origin(a) /\ Expects(r)
             /\ r \in PageRequest \cup ButtonRequest
             /\ r.page \in Pages /\ r.load \in Nat
             /\ load[r.page] \in Nat /\ asked[r.page] \in Nat
  BY <1>2, <1>3, InFlightTypes, RequestFields DEF Expected, Told
<1>4. CASE PageArrives(a)
  <2>1. /\ a.page \in Pages /\ a.load \in Nat /\ load[a.page] < a.load
        /\ load' = [load EXCEPT ![a.page] = a.load] /\ a.load = asked[a.page]
        /\ waiting' = {button \in waiting : button.page # a.page} /\ a.kind = "page"
    BY <1>4, PageIsNewer DEF PageArrives
  <2>2. /\ load \in [Pages -> Nat] /\ load'[a.page] = a.load
        /\ \A q \in Pages : q # a.page => load'[q] = load[q]
    BY <2>1 DEF Told
  <2>3. ASSUME NEW r \in InFlight'
        PROVE  Expects(r)'
    <3>1. CASE r.page # a.page
      <4>1. load'[r.page] = load[r.page]
        BY <1>3, <2>2, <3>1
      <4>2. ButtonOf(r).page = r.page
        BY DEF ButtonOf
      <4>3. ButtonOf(r) \in waiting => ButtonOf(r) \in waiting'
        BY <2>1, <3>1, <4>2
      <4> QED BY <1>1, <1>3, <4>1, <4>3 DEF Expects
    <3>2. CASE r.page = a.page /\ r.kind = "page"
      <4>1. r \in PageRequest /\ r.load <= asked[r.page]
        BY <1>3, <3>2, RequestFields DEF Expects
      <4>2. r = [page |-> r.page, kind |-> "page", load |-> r.load]
        BY <4>1 DEF PageRequest
      <4>3. Origin(a) = [page |-> a.page, kind |-> "page", load |-> a.load]
        BY <2>1 DEF Origin
      <4>4. r.load # a.load
        BY <1>3, <3>2, <4>2, <4>3
      <4> QED BY <1>1, <2>2, <3>2, <4>1, <4>4 DEF Expects
    <3>3. CASE r.page = a.page /\ r.kind # "page"
      <4>1. r.load <= load[a.page] /\ r.load \in Nat /\ load[a.page] \in Nat
        BY <1>3, <3>3 DEF Expects
      <4>2. r.load <= a.load /\ r.load # a.load
        BY <2>1, <4>1
      <4> QED BY <2>2, <3>3, <4>2 DEF Expects
    <3> QED BY <3>1, <3>2, <3>3
  <2>4. \A q \in Pages : load'[q] <= asked'[q]
    <3> SUFFICES ASSUME NEW q \in Pages
                 PROVE  load'[q] <= asked'[q]
      OBVIOUS
    <3>1. load[q] <= asked[q]
      BY DEF Expected
    <3>2. CASE q = a.page
      BY <1>1, <2>1, <2>2, <3>2
    <3> QED BY <1>1, <2>2, <3>1, <3>2
  <2> QED BY <1>2, <2>3, <2>4 DEF Expected
<1>5. CASE ToggleArrives(a) \/ RunArrives(a) \/ ButtonFails(a)
  <2>1. /\ a.kind # "page" /\ a.load = load[a.page] /\ load' = load
        /\ waiting' = waiting \
             {[page |-> a.page, schedule |-> a.schedule, kind |-> a.kind]}
    BY <1>5 DEF ToggleArrives, RunArrives, ButtonFails, Enabled
  <2>2. Origin(a) = [page |-> a.page, kind |-> a.kind, load |-> a.load,
                     schedule |-> a.schedule]
    BY <2>1 DEF Origin
  <2>3. ASSUME NEW r \in InFlight'
        PROVE  Expects(r)'
    <3>1. CASE r.kind # "page" /\ r.load = load[r.page]
      <4>1. r \in ButtonRequest
        BY <1>3, <3>1, RequestFields
      <4>2. r = [page |-> r.page, kind |-> r.kind, load |-> r.load,
                 schedule |-> r.schedule]
        BY <4>1 DEF ButtonRequest
      <4>3. r.page # a.page \/ r.kind # a.kind \/ r.schedule # a.schedule
        BY <1>3, <2>1, <2>2, <3>1, <4>2
      <4>4. ButtonOf(r) # [page |-> a.page, schedule |-> a.schedule, kind |-> a.kind]
        BY <4>3 DEF ButtonOf
      <4>5. ButtonOf(r) \in waiting'
        BY <1>3, <2>1, <3>1, <4>4 DEF Expects
      <4> QED BY <1>3, <2>1, <3>1, <4>5 DEF Expects
    <3>2. CASE r.kind = "page" \/ r.load # load[r.page]
      BY <1>1, <1>3, <2>1, <3>2 DEF Expects
    <3> QED BY <3>1, <3>2
  <2> QED BY <1>1, <1>2, <2>1, <2>3 DEF Expected
<1>6. CASE Dropped(a)
  <2>1. UNCHANGED <<load, waiting>>
    BY <1>6 DEF Dropped
  <2> QED BY <1>1, <1>2, <2>1 DEF Expected, Expects
<1> QED BY <1>4, <1>5, <1>6

(* Serving a request leaves it on its way.                                 *)
LEMMA FlightKept ==
  ASSUME Expected, InFlight' \subseteq InFlight, UNCHANGED pageVars
  PROVE  Expected'
BY DEF Expected, Expects, pageVars

-----------------------------------------------------------------------------
(* The times of results.                                                   *)

(* The server thread is inside a manual run exactly while it owes an answer *)
(* about it.  What it told last of a schedule is not newer than what the    *)
(* map holds, nor than the result that the manual run is about to write.    *)
TimesTold ==
  /\ running = None <=> trigger = Sched!NoTrigger
  /\ trigger # Sched!NoTrigger => trigger.schedule = running.schedule
  /\ told \in [Schedules -> Nat]
  /\ \A s \in Schedules :
       told[s] <= schedules[s].last_run /\ schedules[s].last_run <= clock
  /\ trigger.pc = "record" =>
       told[trigger.schedule] <= trigger.now /\ trigger.now <= clock

ToldGrows ==
  /\ told' \in [Schedules -> Nat] /\ \A s \in Schedules : told[s] <= told'[s]

LEMMA ToldStays ==
  ASSUME TimesTold, UNCHANGED told
  PROVE  ToldGrows
BY DEF TimesTold, ToldGrows

(* A result is written with its time.                                      *)
LEMMA WrittenTime ==
  ASSUME Entries, NEW s \in Schedules, NEW now \in Nat, NEW outcome \in Sched!Outcomes,
         schedules' = [schedules EXCEPT ![s] = Sched!WithResult(@, now, outcome)]
  PROVE  /\ schedules'[s].last_run = now
         /\ \A t \in Schedules : t # s => schedules'[t] = schedules[t]
<1>1. schedules \in [Schedules -> Sched!ScheduleState]
  BY DEF Entries
<1>2. Sched!WithResult(schedules[s], now, outcome).last_run = now
  BY <1>1 DEF Sched!WithResult, Sched!ScheduleState
<1> QED BY <1>1, <1>2

(* The threads of the schedules write the newest time there is.             *)
LEMMA ThreadTimes ==
  ASSUME Entries, TimesTold, NEW s \in Schedules, ThreadMoves(s)
  PROVE  TimesTold' /\ ToldGrows
<1>1. /\ Sched!Thread(s) /\ UNCHANGED <<running, told>>
  BY DEF ThreadMoves, serverVars
<1>2. CASE Sched!Wake(s) \/ Sched!Execute(s)
  <2>1. UNCHANGED <<schedules, clock, trigger>>
    BY <1>2 DEF Sched!Wake, Sched!WakePaused, Sched!WakeCountdown, Sched!WakeDue,
       Sched!Execute, Sched!entryVars, Sched!triggerVars
  <2> QED BY <1>1, <2>1, ToldStays DEF TimesTold
<1>3. ASSUME NEW outcome \in Sched!Outcomes, Sched!Record(s, outcome)
      PROVE  TimesTold' /\ ToldGrows
  <2>1. /\ clock' = clock + 1 /\ clock \in Nat /\ clock' \in Nat
        /\ UNCHANGED trigger
        /\ schedules' = [schedules EXCEPT ![s] = Sched!WithResult(@, clock', outcome)]
    BY <1>3 DEF Sched!Record, Sched!triggerVars, Entries
  <2>2. /\ schedules'[s].last_run = clock'
        /\ \A t \in Schedules : t # s => schedules'[t] = schedules[t]
    BY <2>1, WrittenTime
  <2>3. ASSUME NEW t \in Schedules
        PROVE  told'[t] <= schedules'[t].last_run /\ schedules'[t].last_run <= clock'
    <3>1. /\ told[t] \in Nat /\ schedules[t].last_run \in Nat
          /\ told[t] <= schedules[t].last_run /\ schedules[t].last_run <= clock
      BY DEF TimesTold, Entries, Sched!ScheduleState
    <3> QED BY <1>1, <2>1, <2>2, <3>1
  <2>4. trigger.pc = "record" =>
          told[trigger.schedule] <= trigger.now /\ trigger.now <= clock'
    <3>1. trigger.pc = "record" => trigger.now \in Nat
      BY DEF Entries, Sched!Trigger, Sched!NoTrigger
    <3> QED BY <2>1, <3>1 DEF TimesTold
  <2> QED BY <1>1, <2>1, <2>3, <2>4, ToldStays DEF TimesTold
<1> QED BY <1>1, <1>2, <1>3 DEF Sched!Thread

(* A manual run takes its time after everything that was told.              *)
LEMMA ReturnTimes ==
  ASSUME Entries, TimesTold, NEW outcome \in Sched!Outcomes, RunReturns(outcome)
  PROVE  TimesTold' /\ ToldGrows
<1>1. /\ clock' = clock + 1 /\ clock \in Nat /\ UNCHANGED <<schedules, running, told>>
      /\ trigger.pc = "calling"
      /\ trigger' = [pc |-> "record", schedule |-> trigger.schedule,
                     now |-> clock', outcome |-> outcome]
  BY DEF RunReturns, Sched!TriggerReturn, serverVars, Entries
<1>2. trigger # Sched!NoTrigger /\ trigger' # Sched!NoTrigger
  BY <1>1 DEF Sched!NoTrigger
<1>3. trigger.schedule \in Schedules
  BY <1>2 DEF Entries, Sched!Trigger
<1>4. \A s \in Schedules :
        /\ told[s] \in Nat /\ schedules[s].last_run \in Nat
        /\ told[s] <= schedules[s].last_run /\ schedules[s].last_run <= clock
  BY DEF TimesTold, Entries, Sched!ScheduleState
<1>5. \A s \in Schedules : told[s] <= clock' /\ schedules[s].last_run <= clock'
  BY <1>1, <1>4
<1>6. /\ trigger'.schedule = trigger.schedule /\ trigger'.now = clock'
      /\ told[trigger.schedule] <= clock' /\ clock' <= clock'
  BY <1>1, <1>3, <1>5
<1> QED BY <1>1, <1>2, <1>4, <1>5, <1>6, ToldStays DEF TimesTold

(* Its result is not older than what was told, and is told at once.         *)
LEMMA AnswerTimes ==
  ASSUME Entries, Told, TimesTold, AnswerRun
  PROVE  /\ TimesTold' /\ ToldGrows
         /\ running # None /\ running.schedule \in Schedules
         /\ trigger.now \in Nat /\ told'[running.schedule] = trigger.now
<1>1. /\ trigger.pc = "record" /\ trigger' = Sched!NoTrigger /\ UNCHANGED clock
      /\ schedules' = [schedules EXCEPT ![trigger.schedule] =
                         Sched!WithResult(@, trigger.now, trigger.outcome)]
      /\ told' = [told EXCEPT ![running.schedule] = trigger.now]
      /\ running' = None
  BY DEF AnswerRun, Sched!TriggerRecord
<1>2. trigger # Sched!NoTrigger
  BY <1>1 DEF Sched!NoTrigger
<1>3. /\ trigger.schedule \in Schedules /\ trigger.now \in Nat
      /\ trigger.outcome \in Sched!Outcomes
  BY <1>1, <1>2 DEF Entries, Sched!Trigger
<1>4. running # None /\ running.schedule = trigger.schedule
  BY <1>2 DEF TimesTold
<1>5. /\ schedules'[trigger.schedule].last_run = trigger.now
      /\ \A t \in Schedules : t # trigger.schedule => schedules'[t] = schedules[t]
  BY <1>1, <1>3, WrittenTime
<1>6. /\ told' \in [Schedules -> Nat] /\ told'[trigger.schedule] = trigger.now
      /\ \A t \in Schedules : t # trigger.schedule => told'[t] = told[t]
  BY <1>1, <1>3, <1>4 DEF TimesTold
<1>7. told[trigger.schedule] <= trigger.now /\ trigger.now <= clock
  BY <1>1 DEF TimesTold
<1>8. ToldGrows
  BY <1>6, <1>7 DEF ToldGrows, TimesTold
<1>9. \A t \in Schedules :
        told'[t] <= schedules'[t].last_run /\ schedules'[t].last_run <= clock
  BY <1>3, <1>5, <1>6, <1>7 DEF TimesTold
<1>10. TimesTold'
  BY <1>1, <1>6, <1>9 DEF TimesTold, Sched!NoTrigger
<1> QED BY <1>3, <1>4, <1>6, <1>8, <1>10

(* A page is told what the map holds, when no manual run is under way.      *)
LEMMA PageTimes ==
  ASSUME Entries, TimesTold, ServePage
  PROVE  /\ TimesTold' /\ ToldGrows
         /\ \A s \in Schedules : told'[s] = schedules[s].last_run
<1>1. /\ told' = [s \in Schedules |-> schedules[s].last_run]
      /\ UNCHANGED <<schedules, clock, trigger, running>>
      /\ running = None
  BY DEF ServePage, Serves, schedulerVars
<1>2. \A s \in Schedules : schedules[s].last_run \in Nat
  BY DEF Entries, Sched!ScheduleState
<1>3. told' \in [Schedules -> Nat] /\ \A s \in Schedules : told'[s] = schedules[s].last_run
  BY <1>1, <1>2
<1>4. trigger = Sched!NoTrigger /\ trigger.pc # "record"
  BY <1>1 DEF TimesTold, Sched!NoTrigger
<1>5. \A s \in Schedules : schedules[s].last_run <= schedules[s].last_run
  BY <1>2
<1>6. ToldGrows
  BY <1>3 DEF ToldGrows, TimesTold
<1> QED BY <1>1, <1>3, <1>4, <1>5, <1>6 DEF TimesTold

(* A toggle leaves the times alone, and a manual run starts with its        *)
(* request.                                                                 *)
LEMMA ToggleTimes ==
  ASSUME Entries, Told, TimesTold, ServeToggle \/ ServeRun
  PROVE  TimesTold' /\ ToldGrows
<1>1. CASE ServeToggle
  <2>1. /\ schedules' = [schedules EXCEPT ![Head(requests).schedule].paused = ~@]
        /\ UNCHANGED <<clock, trigger, running, told>>
    BY <1>1 DEF ServeToggle, Sched!Toggle, Sched!triggerVars
  <2>2. \A s \in Schedules : schedules'[s].last_run = schedules[s].last_run
    BY <2>1 DEF Entries, Sched!ScheduleState
  <2> QED BY <2>1, <2>2, ToldStays DEF TimesTold
<1>2. CASE ServeRun
  <2>1. /\ requests # <<>> /\ Head(requests).kind = "run"
        /\ trigger' = [pc |-> "calling", schedule |-> Head(requests).schedule]
        /\ running' = Head(requests)
        /\ UNCHANGED <<schedules, clock, told>>
    BY <1>2 DEF ServeRun, Serves, Sched!TriggerStart, Sched!entryVars
  <2>2. Head(requests) \in ButtonRequest
    BY <2>1, Served
  <2>3. running' # None
    BY <2>1, <2>2, NoRequestAssumption
  <2>4. trigger' # Sched!NoTrigger /\ trigger'.pc # "record"
        /\ trigger'.schedule = running'.schedule
    BY <2>1 DEF Sched!NoTrigger
  <2> QED BY <2>1, <2>3, <2>4, ToldStays DEF TimesTold
<1> QED BY <1>1, <1>2

-----------------------------------------------------------------------------
(* What is shown and what is on its way to be shown.                       *)

(* No item is ahead of what is known, and an answer to a button that the    *)
(* page still waits for is not behind what the page shows.                  *)
Known(s, item) == item.toggles <= toggles[s] /\ item.last_run <= told[s]

Fresh(a) ==
  /\ a.kind = "page" => \A s \in Schedules : Known(s, a.items[s])
  /\ a.kind = "toggle" =>
       /\ a.item.toggles <= toggles[a.schedule]
       /\ a.load = load[a.page] => shown[a.page][a.schedule].toggles <= a.item.toggles
  /\ a.kind = "run" =>
       /\ a.item.last_run <= told[a.schedule]
       /\ a.load = load[a.page] => shown[a.page][a.schedule].last_run <= a.item.last_run

Newer ==
  /\ \A p \in Pages, s \in Schedules : Known(s, shown[p][s])
  /\ \A a \in answers : Fresh(a)

(* On a page that is not replaced, nothing is replaced by something older.  *)
ShownGrows ==
  \A p \in Pages, s \in Schedules :
    load'[p] = load[p] =>
      /\ shown'[p][s].toggles >= shown[p][s].toggles
      /\ shown'[p][s].last_run >= shown[p][s].last_run

TogglesGrow ==
  /\ toggles' \in [Schedules -> Nat] /\ \A s \in Schedules : toggles[s] <= toggles'[s]

(* The fields of an answer.                                                *)
LEMMA AnswerFields ==
  ASSUME Told, InOnePlace, NEW a \in answers
  PROVE  /\ a.page \in Pages /\ a.load \in Nat
         /\ a.kind = "page" => a.items \in [Schedules -> Item]
         /\ a.kind # "page" => a.schedule \in Schedules
         /\ a.kind = "toggle" => a.item.paused \in BOOLEAN /\ a.item.toggles \in Nat
         /\ a.kind = "run" => a.item.last_run \in Nat
         /\ a.kind \in {"page", "toggle", "run"}
<1>1. /\ a.kind = "page" => Origin(a) \in PageRequest
      /\ a.kind # "page" => Origin(a) \in ButtonRequest
      /\ AnswerSays(a)
  BY DEF InOnePlace, Told
<1>2. CASE a.kind = "page"
  BY <1>1, <1>2 DEF Origin, PageRequest, AnswerSays, ItemsSay
<1>3. CASE a.kind # "page"
  <2>1. Origin(a) = [page |-> a.page, kind |-> a.kind, load |-> a.load,
                     schedule |-> a.schedule]
    BY <1>3 DEF Origin
  <2>2. /\ a.page \in Pages /\ a.load \in Nat /\ a.schedule \in Schedules
        /\ a.kind \in {"toggle", "run"}
    BY <1>1, <1>3, <2>1 DEF ButtonRequest
  <2> QED BY <1>1, <1>3, <2>2 DEF AnswerSays, Says
<1> QED BY <1>2, <1>3

(* Two answers to the same button of the same load are one.                *)
LEMMA OneAnswer ==
  ASSUME InOnePlace, NEW a \in answers, NEW b \in answers,
         a.kind # "page", a.kind = b.kind, a.page = b.page, a.load = b.load,
         a.schedule = b.schedule
  PROVE  a = b
BY DEF InOnePlace, Origin

(* What nobody shows and nobody changes stays as new as it was.            *)
LEMMA NewerKept ==
  ASSUME Entries, Told, InOnePlace, TimesTold, Newer, ToldGrows, TogglesGrow,
         UNCHANGED <<load, shown>>
  PROVE  /\ \A p \in Pages, s \in Schedules : Known(s, shown[p][s])'
         /\ \A a \in answers : Fresh(a)'
         /\ ShownGrows
<1>1. ASSUME NEW s \in Schedules, NEW item \in Item, Known(s, item)
      PROVE  Known(s, item)'
  <2>1. /\ item.toggles \in Nat /\ item.last_run \in Nat
        /\ told[s] \in Nat /\ told'[s] \in Nat /\ told[s] <= told'[s]
        /\ toggles[s] \in Nat /\ toggles'[s] \in Nat /\ toggles[s] <= toggles'[s]
    BY DEF Item, TimesTold, ToldGrows, TogglesGrow, Entries
  <2> QED BY <1>1, <2>1 DEF Known
<1>2. ASSUME NEW p \in Pages, NEW s \in Schedules
      PROVE  shown[p][s] \in Item /\ Known(s, shown[p][s])
  BY DEF Told, Newer
<1>3. \A p \in Pages, s \in Schedules : Known(s, shown[p][s])'
  BY <1>1, <1>2 DEF Known
<1>4. ASSUME NEW a \in answers
      PROVE  Fresh(a)'
  <2>1. Fresh(a)
    BY DEF Newer
  <2>2. CASE a.kind = "page"
    <3>1. \A s \in Schedules : a.items[s] \in Item /\ Known(s, a.items[s])
      BY <2>1, <2>2, AnswerFields DEF Fresh
    <3>2. \A s \in Schedules : Known(s, a.items[s])'
      BY <1>1, <3>1 DEF Known
    <3> QED BY <2>2, <3>2 DEF Fresh
  <2>3. CASE a.kind = "toggle"
    <3>1. /\ a.schedule \in Schedules /\ a.item.toggles \in Nat
          /\ a.item.toggles <= toggles[a.schedule]
      BY <2>1, <2>3, AnswerFields DEF Fresh
    <3>2. a.item.toggles <= toggles'[a.schedule]
      BY <3>1 DEF TogglesGrow, Entries
    <3> QED BY <2>1, <2>3, <3>2 DEF Fresh
  <2>4. CASE a.kind = "run"
    <3>1. /\ a.schedule \in Schedules /\ a.item.last_run \in Nat
          /\ a.item.last_run <= told[a.schedule]
      BY <2>1, <2>4, AnswerFields DEF Fresh
    <3>2. a.item.last_run <= told'[a.schedule]
      BY <3>1 DEF ToldGrows, TimesTold
    <3> QED BY <2>1, <2>4, <3>2 DEF Fresh
  <2> QED BY <2>2, <2>3, <2>4, AnswerFields
<1>5. ShownGrows
  BY <1>2 DEF ShownGrows, Item
<1> QED BY <1>3, <1>4, <1>5

(* A page is replaced, and answers to the old one no longer count.          *)
LEMMA PageShows ==
  ASSUME Entries, Told, InOnePlace, Expected, Newer, NEW a \in answers, PageArrives(a)
  PROVE  Newer' /\ ShownGrows
<1>1. /\ a.page \in Pages /\ a.load \in Nat /\ load[a.page] < a.load
      /\ load' = [load EXCEPT ![a.page] = a.load]
      /\ a.kind = "page" /\ shown' = [shown EXCEPT ![a.page] = a.items]
      /\ answers' = answers \ {a} /\ UNCHANGED <<toggles, told>>
  BY PageIsNewer DEF PageArrives, Gone, OthersUnmoved
<1>2. /\ load \in [Pages -> Nat] /\ shown \in [Pages -> [Schedules -> Item]]
      /\ load'[a.page] = a.load /\ shown'[a.page] = a.items
      /\ \A p \in Pages : p # a.page => load'[p] = load[p] /\ shown'[p] = shown[p]
  BY <1>1 DEF Told
<1>3. ASSUME NEW p \in Pages, NEW s \in Schedules
      PROVE  Known(s, shown[p][s])'
  <2>1. Known(s, shown[p][s]) /\ Known(s, a.items[s])
    BY <1>1 DEF Newer, Fresh
  <2> QED BY <1>1, <1>2, <2>1 DEF Known
<1>4. ASSUME NEW b \in answers'
      PROVE  Fresh(b)'
  <2>1. b \in answers /\ Fresh(b)
    BY <1>1 DEF Newer
  <2>2. CASE b.kind = "page"
    BY <1>1, <2>1, <2>2 DEF Fresh, Known
  <2>3. CASE b.kind # "page" /\ b.page = a.page
    <3>1. /\ Origin(b) \in InFlight /\ Origin(b).kind # "page"
          /\ Origin(b).page = b.page /\ Origin(b).load = b.load
      BY <2>1, <2>3 DEF InFlight, Origin
    <3>2. b.load <= load[a.page]
      BY <2>3, <3>1 DEF Expected, Expects
    <3>3. b.load \in Nat /\ load[a.page] \in Nat
      BY <1>1, <1>2, <2>1, AnswerFields
    <3>4. b.load # load'[b.page]
      BY <1>1, <1>2, <2>3, <3>2, <3>3
    <3> QED BY <1>1, <2>1, <2>3, <3>4 DEF Fresh
  <2>4. CASE b.kind # "page" /\ b.page # a.page
    <3>1. b.page \in Pages
      BY <2>1, AnswerFields
    <3>2. load'[b.page] = load[b.page] /\ shown'[b.page] = shown[b.page]
      BY <1>2, <2>4, <3>1
    <3> QED BY <1>1, <2>1, <2>4, <3>2 DEF Fresh
  <2> QED BY <2>2, <2>3, <2>4
<1>5. ShownGrows
  <2> SUFFICES ASSUME NEW p \in Pages, NEW s \in Schedules, load'[p] = load[p]
               PROVE  /\ shown'[p][s].toggles >= shown[p][s].toggles
                      /\ shown'[p][s].last_run >= shown[p][s].last_run
    BY DEF ShownGrows
  <2>1. load[a.page] \in Nat
    BY <1>1, <1>2
  <2>2. p # a.page
    BY <1>1, <1>2, <2>1
  <2>3. shown'[p][s] = shown[p][s] /\ shown[p][s] \in Item
    BY <1>2, <2>2
  <2> QED BY <2>3 DEF Item
<1> QED BY <1>3, <1>4, <1>5 DEF Newer

(* An answer to a button changes its fields of its schedule, no others.     *)
LEMMA ButtonShows ==
  ASSUME Told, InOnePlace, NEW a \in answers, ToggleArrives(a) \/ RunArrives(a)
  PROVE  \A p \in Pages, s \in Schedules :
           LET mine == p = a.page /\ s = a.schedule IN
           /\ shown'[p][s].toggles =
                IF mine /\ a.kind = "toggle" THEN a.item.toggles ELSE shown[p][s].toggles
           /\ shown'[p][s].last_run =
                IF mine /\ a.kind = "run" THEN a.item.last_run ELSE shown[p][s].last_run
<1> DEFINE old == shown[a.page][a.schedule]
<1>1. /\ shown \in [Pages -> [Schedules -> Item]]
      /\ a.page \in Pages /\ a.schedule \in Schedules /\ old \in Item
  BY AnswerFields DEF Told, ToggleArrives, RunArrives
<1>2. ASSUME NEW item, shown' = [shown EXCEPT ![a.page][a.schedule] = item]
      PROVE  /\ shown'[a.page][a.schedule] = item
             /\ \A p \in Pages, s \in Schedules :
                  p # a.page \/ s # a.schedule => shown'[p][s] = shown[p][s]
  BY <1>1, <1>2
<1>3. CASE ToggleArrives(a)
  <2> DEFINE first == [old EXCEPT !.paused = a.item.paused]
             item == [first EXCEPT !.toggles = a.item.toggles]
  <2>1. item.toggles = a.item.toggles /\ item.last_run = old.last_run
    BY <1>1 DEF Item
  <2>2. shown' = [shown EXCEPT ![a.page][a.schedule] = item]
    <3> DEFINE middle == [shown EXCEPT ![a.page][a.schedule].paused = a.item.paused]
    <3>1. /\ middle = [shown EXCEPT ![a.page][a.schedule] = first]
          /\ middle[a.page][a.schedule] = first
      BY <1>1
    <3>2. shown' = [middle EXCEPT ![a.page][a.schedule].toggles = a.item.toggles]
      BY <1>3 DEF ToggleArrives
    <3> HIDE DEF middle, first, old
    <3>3. shown' = [middle EXCEPT ![a.page][a.schedule] = item]
      BY <3>1, <3>2
    <3> HIDE DEF item
    <3>4. shown' = [shown EXCEPT ![a.page][a.schedule] = item]
      BY <1>1, <3>1, <3>3
    <3> QED BY <3>4
  <2>3. a.kind = "toggle"
    BY <1>3 DEF ToggleArrives
  <2> HIDE DEF item
  <2>4. /\ shown'[a.page][a.schedule] = item
        /\ \A p \in Pages, s \in Schedules :
             p # a.page \/ s # a.schedule => shown'[p][s] = shown[p][s]
    BY <1>2, <2>2
  <2> QED BY <2>1, <2>3, <2>4
<1>4. CASE RunArrives(a)
  <2> DEFINE item == [old EXCEPT !.last_run = a.item.last_run]
  <2>1. item.toggles = old.toggles /\ item.last_run = a.item.last_run
    BY <1>1 DEF Item
  <2>2. shown' = [shown EXCEPT ![a.page][a.schedule] = item]
    BY <1>1, <1>4 DEF RunArrives
  <2>3. a.kind = "run"
    BY <1>4 DEF RunArrives
  <2> HIDE DEF item
  <2>4. /\ shown'[a.page][a.schedule] = item
        /\ \A p \in Pages, s \in Schedules :
             p # a.page \/ s # a.schedule => shown'[p][s] = shown[p][s]
    BY <1>2, <2>2
  <2> QED BY <2>1, <2>3, <2>4
<1> QED BY <1>3, <1>4

(* The answer to a button that a page waits for is not behind the page, and *)
(* no other answer to that button is left.                                  *)
LEMMA ButtonNewer ==
  ASSUME Entries, Told, InOnePlace, TimesTold, Newer, NEW a \in answers,
         ToggleArrives(a) \/ RunArrives(a)
  PROVE  Newer' /\ ShownGrows
<1>1. /\ a.kind # "page" /\ a.load = load[a.page]
      /\ answers' = answers \ {a} /\ UNCHANGED <<load, toggles, told>>
  BY DEF ToggleArrives, RunArrives, Gone, OthersUnmoved
<1>2. Fresh(a) /\ a.kind \in {"toggle", "run"}
  BY <1>1, AnswerFields DEF Newer
<1>3. ASSUME NEW p \in Pages, NEW s \in Schedules
      PROVE  /\ Known(s, shown[p][s])'
             /\ shown'[p][s].toggles >= shown[p][s].toggles
             /\ shown'[p][s].last_run >= shown[p][s].last_run
  <2>1. Known(s, shown[p][s]) /\ shown[p][s] \in Item
    BY DEF Newer, Told
  <2>2. shown[p][s].toggles \in Nat /\ shown[p][s].last_run \in Nat
    BY <2>1 DEF Item
  <2>3. CASE p = a.page /\ s = a.schedule /\ a.kind = "toggle"
    <3>1. /\ shown'[p][s].toggles = a.item.toggles
          /\ shown'[p][s].last_run = shown[p][s].last_run
      BY <2>3, ButtonShows
    <3>2. /\ a.item.toggles \in Nat /\ a.item.toggles <= toggles[s]
          /\ shown[p][s].toggles <= a.item.toggles
      BY <1>1, <1>2, <2>3, AnswerFields DEF Fresh
    <3> QED BY <1>1, <2>1, <2>2, <3>1, <3>2 DEF Known
  <2>4. CASE p = a.page /\ s = a.schedule /\ a.kind = "run"
    <3>1. /\ shown'[p][s].toggles = shown[p][s].toggles
          /\ shown'[p][s].last_run = a.item.last_run
      BY <2>4, ButtonShows
    <3>2. /\ a.item.last_run \in Nat /\ a.item.last_run <= told[s]
          /\ shown[p][s].last_run <= a.item.last_run
      BY <1>1, <1>2, <2>4, AnswerFields DEF Fresh
    <3> QED BY <1>1, <2>1, <2>2, <3>1, <3>2 DEF Known
  <2>5. CASE p # a.page \/ s # a.schedule
    <3>1. /\ shown'[p][s].toggles = shown[p][s].toggles
          /\ shown'[p][s].last_run = shown[p][s].last_run
      BY <2>5, ButtonShows
    <3> QED BY <1>1, <2>1, <2>2, <3>1 DEF Known
  <2> QED BY <1>2, <2>3, <2>4, <2>5
<1>4. ASSUME NEW b \in answers'
      PROVE  Fresh(b)'
  <2>1. /\ b \in answers /\ b # a /\ Fresh(b)
        /\ b.page \in Pages
        /\ b.kind # "page" => b.schedule \in Schedules
    BY <1>1, AnswerFields DEF Newer
  <2>2. CASE b.kind = "page"
    BY <1>1, <2>1, <2>2 DEF Fresh, Known
  <2>3. CASE b.kind # "page" /\ b.load = load[b.page]
    <3>1. b.kind # a.kind \/ b.page # a.page \/ b.schedule # a.schedule
      BY <1>1, <2>1, <2>3, OneAnswer
    <3>2. /\ b.kind = "toggle" =>
               shown'[b.page][b.schedule].toggles = shown[b.page][b.schedule].toggles
          /\ b.kind = "run" =>
               shown'[b.page][b.schedule].last_run = shown[b.page][b.schedule].last_run
      BY <2>1, <2>3, <3>1, ButtonShows
    <3> QED BY <1>1, <2>1, <2>3, <3>2 DEF Fresh
  <2>4. CASE b.kind # "page" /\ b.load # load[b.page]
    BY <1>1, <2>1, <2>4 DEF Fresh
  <2> QED BY <2>2, <2>3, <2>4
<1> QED BY <1>3, <1>4 DEF Newer, ShownGrows

(* What the server thread answers is the newest there is.                  *)
LEMMA AnswersNewer ==
  ASSUME Entries, Told, InOnePlace, TimesTold, Newer,
         ServePage \/ ServeToggle \/ ServeRun \/ AnswerRun
  PROVE  Newer' /\ ShownGrows /\ ToldGrows
<1>1. UNCHANGED <<load, shown>>
  BY DEF ServePage, ServeToggle, ServeRun, AnswerRun, Serves, pageVars
<1>2. \A p \in Pages, s \in Schedules :
        /\ shown[p][s] \in Item /\ Known(s, shown[p][s])
        /\ told[s] \in Nat /\ toggles[s] \in Nat
  BY DEF Told, Newer, TimesTold, Entries
<1>3. ASSUME UNCHANGED toggles
      PROVE  TogglesGrow
  BY <1>3 DEF TogglesGrow, Entries
<1>4. CASE ServePage
  <2> DEFINE items == [s \in Schedules |-> ItemOf(s)]
             new == [page |-> Head(requests).page, kind |-> "page",
                     load |-> Head(requests).load, items |-> items]
  <2>1. answers' = answers \cup {new} /\ UNCHANGED toggles
    BY <1>4 DEF ServePage
  <2>2. TimesTold' /\ ToldGrows /\ \A s \in Schedules : told'[s] = schedules[s].last_run
    BY <1>4, PageTimes
  <2>3. \A s \in Schedules :
          items[s].toggles <= toggles'[s] /\ items[s].last_run <= told'[s]
    BY <2>1, <2>2 DEF ItemOf, Entries, Sched!ScheduleState
  <2>4. new.kind = "page" /\ new.items = items
    OBVIOUS
  <2> HIDE DEF items, new
  <2>5. \A a \in answers' : a = new => Fresh(a)'
    BY <2>3, <2>4 DEF Fresh, Known
  <2>6. /\ \A p \in Pages, s \in Schedules : Known(s, shown[p][s])'
        /\ \A a \in answers : Fresh(a)'
        /\ ShownGrows
    BY <1>1, <1>3, <2>1, <2>2, NewerKept
  <2> QED BY <2>1, <2>2, <2>5, <2>6 DEF Newer
<1>5. CASE ServeToggle
  <2> DEFINE request == Head(requests)
             s == request.schedule
             new == ButtonAnswer(request, [paused |-> schedules'[s].paused,
                                           toggles |-> toggles'[s]])
  <2>1. /\ requests # <<>> /\ request.kind = "toggle"
        /\ answers' = answers \cup {new} /\ toggles' = [toggles EXCEPT ![s] = @ + 1]
    BY <1>5 DEF ServeToggle, Serves
  <2>2. request \in ButtonRequest /\ s \in Schedules /\ request.page \in Pages
    BY <2>1, Served DEF ButtonRequest
  <2>3. ToldGrows
    BY <1>5, ToggleTimes
  <2>4. TogglesGrow /\ toggles'[s] = toggles[s] + 1
    BY <2>1, <2>2 DEF TogglesGrow, Entries
  <2>5. /\ \A p \in Pages, t \in Schedules : Known(t, shown[p][t])'
        /\ \A a \in answers : Fresh(a)'
        /\ ShownGrows
    BY <1>1, <2>3, <2>4, NewerKept
  <2>6. /\ new.kind = "toggle" /\ new.page = request.page /\ new.schedule = s
        /\ new.item.toggles = toggles'[s]
    BY <2>1 DEF ButtonAnswer
  <2>7. shown'[request.page][s].toggles <= toggles'[s] /\ toggles'[s] <= toggles'[s]
    BY <1>2, <2>2, <2>4, <2>5 DEF Known
  <2> HIDE DEF new, s, request
  <2>8. \A a \in answers' : a = new => Fresh(a)'
    BY <2>6, <2>7 DEF Fresh
  <2> QED BY <2>1, <2>3, <2>5, <2>8 DEF Newer
<1>6. CASE ServeRun
  <2>1. UNCHANGED <<answers, toggles>>
    BY <1>6 DEF ServeRun
  <2>2. ToldGrows
    BY <1>6, ToggleTimes
  <2> QED BY <1>1, <1>3, <2>1, <2>2, NewerKept DEF Newer
<1>7. CASE AnswerRun
  <2> DEFINE new == ButtonAnswer(running, [last_run |-> trigger.now])
  <2>1. answers' = answers \cup {new} /\ UNCHANGED toggles
    BY <1>7 DEF AnswerRun
  <2>2. /\ ToldGrows /\ running # None /\ running.schedule \in Schedules
        /\ trigger.now \in Nat /\ told'[running.schedule] = trigger.now
    BY <1>7, AnswerTimes
  <2>3. running.kind = "run" /\ running.page \in Pages
    <3>1. trigger # Sched!NoTrigger
      BY <1>7 DEF AnswerRun, Sched!TriggerRecord, Sched!NoTrigger
    <3> QED BY <3>1 DEF Told, ManualRun, ButtonRequest
  <2>4. /\ \A p \in Pages, t \in Schedules : Known(t, shown[p][t])'
        /\ \A a \in answers : Fresh(a)'
        /\ ShownGrows
    BY <1>1, <1>3, <2>1, <2>2, NewerKept
  <2>5. /\ new.kind = "run" /\ new.page = running.page /\ new.schedule = running.schedule
        /\ new.item.last_run = trigger.now
    BY <2>3 DEF ButtonAnswer
  <2>6. /\ shown'[running.page][running.schedule].last_run <= trigger.now
        /\ trigger.now <= trigger.now
    BY <2>2, <2>3, <2>4 DEF Known
  <2>7. \A a \in answers' : a = new => Fresh(a)'
    <3> HIDE DEF new
    <3> QED BY <2>2, <2>5, <2>6 DEF Fresh
  <2> HIDE DEF new
  <2> QED BY <2>1, <2>2, <2>4, <2>7 DEF Newer
<1> QED BY <1>4, <1>5, <1>6, <1>7

-----------------------------------------------------------------------------
(* All of them together.                                                   *)

OrderInv == Entries /\ Told /\ InOnePlace /\ Expected /\ TimesTold /\ Newer

LEMMA InitOrdered == DashboardInit => OrderInv
<1> SUFFICES ASSUME DashboardInit
             PROVE  OrderInv
  OBVIOUS
<1>1. Entries /\ Told
  BY InitAgrees
<1>2. /\ requests = <<>> /\ answers = {} /\ running = None
      /\ trigger = Sched!NoTrigger /\ clock = 0
      /\ schedules = [s \in Schedules |-> Sched!NewEntry]
      /\ told = [s \in Schedules |-> 0] /\ toggles = [s \in Schedules |-> 0]
      /\ asked = [p \in Pages |-> 0] /\ load = [p \in Pages |-> 0]
      /\ shown = [p \in Pages |-> [s \in Schedules |-> ItemOf(s)]]
  BY DEF DashboardInit, Sched!Init
<1>3. DOMAIN requests = {} /\ InFlight = {}
  BY <1>2 DEF InFlight
<1>4. InOnePlace
  BY <1>2, <1>3 DEF InOnePlace
<1>5. Expected
  BY <1>2, <1>3 DEF Expected
<1>6. \A s \in Schedules : schedules[s].last_run = 0
  BY <1>2 DEF Sched!NewEntry
<1>7. TimesTold
  BY <1>2, <1>6 DEF TimesTold, Sched!NoTrigger
<1>8. Newer
  BY <1>2, <1>6 DEF Newer, Known, ItemOf
<1> QED BY <1>1, <1>4, <1>5, <1>7, <1>8 DEF OrderInv

(* What neither the map nor the pages show does not move them.             *)
LEMMA NothingShown ==
  ASSUME OrderInv, UNCHANGED <<load, shown, answers, toggles>>, ToldGrows
  PROVE  Newer' /\ ShownGrows
<1>1. TogglesGrow
  BY DEF OrderInv, TogglesGrow, Entries
<1> QED BY <1>1, NewerKept DEF OrderInv, Newer

LEMMA NextOrdered ==
  ASSUME OrderInv, [DashboardNext]_dashboardVars
  PROVE  OrderInv' /\ ToldGrows /\ ShownGrows
<1>1. Entries /\ Told /\ InOnePlace /\ Expected /\ TimesTold /\ Newer
  BY DEF OrderInv
<1>2. Entries' /\ Told'
  BY <1>1, NextAgrees
<1>3. ASSUME UNCHANGED <<schedulerVars, running, told>>
      PROVE  TimesTold' /\ ToldGrows
  BY <1>1, <1>3, ToldStays DEF TimesTold, schedulerVars
<1>4. ASSUME UNCHANGED <<requests, running, answers>>, UNCHANGED pageVars
      PROVE  InOnePlace' /\ Expected'
  BY <1>1, <1>4 DEF InOnePlace, Expected, Expects, InFlight, pageVars
<1>5. ASSUME NEW p \in Pages, Load(p)
      PROVE  OrderInv' /\ ToldGrows /\ ShownGrows
  <2>1. UNCHANGED <<schedulerVars, running, told, load, shown, answers, toggles>>
    BY <1>5 DEF Load
  <2>2. TimesTold' /\ ToldGrows
    BY <1>3, <2>1
  <2> QED BY <1>1, <1>2, <1>5, <2>1, <2>2, LoadExpected, NothingShown DEF OrderInv
<1>6. ASSUME NEW p \in Pages, NEW s \in Schedules, NEW kind \in {"toggle", "run"},
             Press(p, s, kind)
      PROVE  OrderInv' /\ ToldGrows /\ ShownGrows
  <2>1. UNCHANGED <<schedulerVars, running, told, load, shown, answers, toggles>>
    BY <1>6 DEF Press
  <2>2. TimesTold' /\ ToldGrows
    BY <1>3, <2>1
  <2> QED BY <1>1, <1>2, <1>6, <2>1, <2>2, PressExpected, NothingShown DEF OrderInv
<1>7. ASSUME NEW a \in answers,
             PageArrives(a) \/ ToggleArrives(a) \/ RunArrives(a) \/ ButtonFails(a)
               \/ Dropped(a)
      PROVE  OrderInv' /\ ToldGrows /\ ShownGrows
  <2>1. UNCHANGED <<schedulerVars, running, told, toggles>>
    BY <1>7 DEF PageArrives, ToggleArrives, RunArrives, ButtonFails, Dropped, OthersUnmoved
  <2>2. TimesTold' /\ ToldGrows
    BY <1>3, <2>1
  <2>3. InOnePlace' /\ Expected'
    BY <1>1, <1>7, ArrivingExpected
  <2>4. Newer' /\ ShownGrows
    <3>1. CASE PageArrives(a)
      BY <1>1, <3>1, PageShows
    <3>2. CASE ToggleArrives(a) \/ RunArrives(a)
      BY <1>1, <3>2, ButtonNewer
    <3>3. CASE ButtonFails(a) \/ Dropped(a)
      <4>1. answers' \subseteq answers /\ UNCHANGED <<load, shown>>
        BY <3>3 DEF ButtonFails, Dropped, Gone
      <4>2. TogglesGrow
        BY <1>1, <2>1 DEF TogglesGrow, Entries
      <4>3. /\ \A p \in Pages, s \in Schedules : Known(s, shown[p][s])'
            /\ \A b \in answers : Fresh(b)'
            /\ ShownGrows
        BY <1>1, <2>2, <4>1, <4>2, NewerKept
      <4> QED BY <4>1, <4>3 DEF Newer
    <3> QED BY <1>7, <3>1, <3>2, <3>3
  <2> QED BY <1>2, <2>2, <2>3, <2>4 DEF OrderInv
<1>8. CASE ServePage \/ ServeToggle \/ ServeRun \/ AnswerRun
  <2>1. TimesTold' /\ ToldGrows
    BY <1>1, <1>8, PageTimes, ToggleTimes, AnswerTimes
  <2>2. Newer' /\ ShownGrows
    BY <1>1, <1>8, AnswersNewer
  <2>3. InOnePlace' /\ InFlight' \subseteq InFlight
    <3>1. CASE ServePage
      <4> DEFINE new == [page |-> Head(requests).page, kind |-> "page",
                         load |-> Head(requests).load,
                         items |-> [s \in Schedules |-> ItemOf(s)]]
      <4>1. /\ requests # <<>> /\ Head(requests).kind = "page"
            /\ requests' = Tail(requests) /\ answers' = answers \cup {new}
            /\ UNCHANGED running
        BY <3>1 DEF ServePage, Serves
      <4>2. Head(requests) \in PageRequest
        BY <1>1, <4>1, Served DEF ButtonRequest
      <4>3. Origin(new) = Head(requests) /\ new.kind = Head(requests).kind
        BY <4>1, <4>2 DEF Origin, PageRequest
      <4> HIDE DEF new
      <4> QED BY <1>1, <4>1, <4>3, Answered
    <3>2. CASE ServeToggle
      <4> DEFINE request == Head(requests)
                 new == ButtonAnswer(request,
                   [paused |-> schedules'[request.schedule].paused,
                    toggles |-> toggles'[request.schedule]])
      <4>1. /\ requests # <<>> /\ request.kind = "toggle"
            /\ requests' = Tail(requests) /\ answers' = answers \cup {new}
            /\ UNCHANGED running
        BY <3>2 DEF ServeToggle, Serves
      <4>2. request \in ButtonRequest
        BY <1>1, <4>1, Served
      <4>3. Origin(new) = request /\ new.kind = request.kind
        BY <4>1, <4>2 DEF Origin, ButtonRequest, ButtonAnswer
      <4> HIDE DEF new
      <4> QED BY <1>1, <4>1, <4>3, Answered
    <3>3. CASE ServeRun
      <4>1. /\ requests # <<>> /\ requests' = Tail(requests)
            /\ running' = Head(requests) /\ UNCHANGED answers
        BY <3>3 DEF ServeRun, Serves
      <4> QED BY <1>1, <4>1, RunStarted
    <3>4. CASE AnswerRun
      <4> DEFINE new == ButtonAnswer(running, [last_run |-> trigger.now])
      <4>1. /\ running' = None /\ answers' = answers \cup {new} /\ UNCHANGED requests
        BY <3>4 DEF AnswerRun
      <4>2. running # None /\ running \in ButtonRequest
        BY <1>1, <3>4, AnswerTimes DEF Told
      <4>3. Origin(new) = running /\ new.kind = running.kind
        BY <4>2 DEF Origin, ButtonRequest, ButtonAnswer
      <4> HIDE DEF new
      <4> QED BY <1>1, <4>1, <4>2, <4>3, RunAnswered
    <3> QED BY <1>8, <3>1, <3>2, <3>3, <3>4
  <2>4. UNCHANGED pageVars
    BY <1>8 DEF ServePage, ServeToggle, ServeRun, AnswerRun, Serves
  <2> QED BY <1>1, <1>2, <2>1, <2>2, <2>3, <2>4, FlightKept DEF OrderInv
<1>9. ASSUME UNCHANGED <<serverVars, pageVars>>, TimesTold', ToldGrows
      PROVE  OrderInv' /\ ToldGrows /\ ShownGrows
  <2>1. /\ UNCHANGED <<requests, running, answers>> /\ UNCHANGED pageVars
        /\ UNCHANGED <<load, shown, answers, toggles>>
    BY <1>9 DEF serverVars, pageVars
  <2>2. InOnePlace' /\ Expected'
    BY <1>4, <2>1
  <2>3. Newer' /\ ShownGrows
    BY <1>9, <2>1, NothingShown
  <2> QED BY <1>2, <1>9, <2>2, <2>3 DEF OrderInv
<1>10. ASSUME NEW outcome \in Sched!Outcomes, RunReturns(outcome)
       PROVE  OrderInv' /\ ToldGrows /\ ShownGrows
  <2>1. UNCHANGED <<serverVars, pageVars>>
    BY <1>10 DEF RunReturns
  <2>2. TimesTold' /\ ToldGrows
    BY <1>1, <1>10, ReturnTimes
  <2> QED BY <1>9, <2>1, <2>2
<1>11. ASSUME NEW s \in Schedules, ThreadMoves(s)
       PROVE  OrderInv' /\ ToldGrows /\ ShownGrows
  <2>1. UNCHANGED <<serverVars, pageVars>>
    BY <1>11 DEF ThreadMoves
  <2>2. TimesTold' /\ ToldGrows
    BY <1>1, <1>11, ThreadTimes
  <2> QED BY <1>9, <2>1, <2>2
<1>12. CASE UNCHANGED dashboardVars
  <2>1. UNCHANGED <<serverVars, pageVars>> /\ UNCHANGED <<schedulerVars, running, told>>
    BY <1>12 DEF dashboardVars, serverVars
  <2> QED BY <1>3, <1>9, <2>1
<1> QED BY <1>5, <1>6, <1>7, <1>8, <1>10, <1>11, <1>12 DEF DashboardNext

(* Nothing the runner tells about a schedule, and nothing a page shows      *)
(* until it is loaded anew, is replaced by something older: although a      *)
(* manual run may write an older time over a newer one, and although        *)
(* answers overtake each other.                                             *)
THEOREM NothingGoesBack == DashboardSpec => NeverGoesBack
<1>1. OrderInv /\ [DashboardNext]_dashboardVars =>
        [\A s \in Schedules :
           /\ told'[s] >= told[s]
           /\ \A p \in Pages :
                load[p] > 0 /\ load'[p] = load[p] =>
                  /\ shown'[p][s].toggles >= shown[p][s].toggles
                  /\ shown'[p][s].last_run >= shown[p][s].last_run]_dashboardVars
  <2> SUFFICES ASSUME OrderInv, [DashboardNext]_dashboardVars, NEW s \in Schedules
               PROVE  /\ told'[s] >= told[s]
                      /\ \A p \in Pages :
                           load[p] > 0 /\ load'[p] = load[p] =>
                             /\ shown'[p][s].toggles >= shown[p][s].toggles
                             /\ shown'[p][s].last_run >= shown[p][s].last_run
    OBVIOUS
  <2>1. ToldGrows /\ ShownGrows
    BY NextOrdered
  <2>2. told[s] \in Nat /\ told'[s] \in Nat /\ told[s] <= told'[s]
    BY <2>1 DEF ToldGrows, OrderInv, TimesTold
  <2> QED BY <2>1, <2>2 DEF ShownGrows
<1> QED BY <1>1, InitOrdered, NextOrdered, PTL DEF DashboardSpec, NeverGoesBack

-----------------------------------------------------------------------------
(* The scheduler behind the pages is the scheduler of Scheduler.tla.       *)

SchedP == INSTANCE SchedulerProofs WITH Statuses <- WebhookStatuses

(* What the scheduler assumes of its constants holds for the dashboard's.  *)
LEMMA SchedulerConstants ==
  SchedP!IntervalAssumption /\ SchedP!OutcomeAssumption /\ SchedP!BoundAssumption
BY SchedulerAssumption
   DEF SchedP!IntervalAssumption, SchedP!OutcomeAssumption, SchedP!BoundAssumption

(* Both instances of Scheduler.tla have the same actions.                  *)
LEMMA SameThreads ==
  ASSUME NEW s \in Schedules, Sched!Thread(s)
  PROVE  SchedP!Thread(s)
<1>1. CASE Sched!Wake(s)
  BY <1>1 DEF Sched!Wake, Sched!WakePaused, Sched!WakeCountdown, Sched!WakeDue,
     Sched!entryVars, Sched!triggerVars, SchedP!Thread, SchedP!Wake, SchedP!WakePaused,
     SchedP!WakeCountdown, SchedP!WakeDue, SchedP!entryVars, SchedP!triggerVars
<1>2. CASE Sched!Execute(s)
  BY <1>2 DEF Sched!Execute, Sched!entryVars, Sched!triggerVars, SchedP!Thread,
     SchedP!Execute, SchedP!entryVars, SchedP!triggerVars
<1>3. ASSUME NEW outcome \in Sched!Outcomes, Sched!Record(s, outcome)
      PROVE  SchedP!Thread(s)
  <2>1. outcome \in SchedP!Outcomes
    BY DEF Sched!Outcomes, Sched!Ok, Sched!Failed, SchedP!Outcomes, SchedP!Ok, SchedP!Failed
  <2>2. SchedP!Record(s, outcome)
    BY <1>3 DEF Sched!Record, Sched!WithResult, Sched!triggerVars, SchedP!Record,
       SchedP!WithResult, SchedP!triggerVars
  <2> QED BY <2>1, <2>2 DEF SchedP!Thread
<1> QED BY <1>1, <1>2, <1>3 DEF Sched!Thread

LEMMA SameServer ==
  /\ \A s \in Schedules : Sched!Toggle(s) => SchedP!Server
  /\ \A s \in Schedules : Sched!TriggerStart(s) => SchedP!Server
  /\ \A outcome \in Sched!Outcomes : Sched!TriggerReturn(outcome) => SchedP!Server
  /\ Sched!TriggerRecord => SchedP!Server
<1>1. ASSUME NEW s \in Schedules, Sched!Toggle(s)
      PROVE  SchedP!Server
  BY <1>1 DEF Sched!Toggle, Sched!triggerVars, SchedP!Server, SchedP!Toggle,
     SchedP!triggerVars
<1>2. ASSUME NEW s \in Schedules, Sched!TriggerStart(s)
      PROVE  SchedP!Server
  BY <1>2 DEF Sched!TriggerStart, Sched!NoTrigger, Sched!entryVars, Sched!threadVars,
     SchedP!Server, SchedP!TriggerStart, SchedP!NoTrigger, SchedP!entryVars,
     SchedP!threadVars
<1>3. ASSUME NEW outcome \in Sched!Outcomes, Sched!TriggerReturn(outcome)
      PROVE  SchedP!Server
  <2>1. outcome \in SchedP!Outcomes
    BY DEF Sched!Outcomes, Sched!Ok, Sched!Failed, SchedP!Outcomes, SchedP!Ok, SchedP!Failed
  <2> QED BY <1>3, <2>1 DEF Sched!TriggerReturn, Sched!threadVars, SchedP!Server,
     SchedP!TriggerReturn, SchedP!threadVars
<1>4. CASE Sched!TriggerRecord
  BY <1>4 DEF Sched!TriggerRecord, Sched!NoTrigger, Sched!threadVars, Sched!WithResult,
     SchedP!Server, SchedP!TriggerRecord, SchedP!NoTrigger, SchedP!threadVars,
     SchedP!WithResult
<1> QED BY <1>1, <1>2, <1>3, <1>4

(* The server thread starts a manual run or toggles only a schedule that a  *)
(* button names; the pages leave the scheduler alone.                       *)
LEMMA NextScheduled ==
  ASSUME Entries, Told, [DashboardNext]_dashboardVars
  PROVE  [SchedP!Next]_(SchedP!vars)
<1>1. CASE UNCHANGED schedulerVars
  BY <1>1 DEF schedulerVars, SchedP!vars
<1>2. CASE ServeToggle \/ ServeRun
  <2>1. /\ Head(requests).kind \in {"toggle", "run"} /\ requests # <<>>
        /\ \/ Sched!Toggle(Head(requests).schedule)
           \/ Sched!TriggerStart(Head(requests).schedule)
    BY <1>2 DEF ServeToggle, ServeRun, Serves
  <2>2. Head(requests).schedule \in Schedules
    BY <2>1, Served DEF ButtonRequest
  <2> QED BY <2>1, <2>2, SameServer DEF SchedP!Next
<1>3. CASE AnswerRun
  BY <1>3, SameServer DEF AnswerRun, SchedP!Next
<1>4. ASSUME NEW outcome \in Sched!Outcomes, RunReturns(outcome)
      PROVE  SchedP!Next
  BY <1>4, SameServer DEF RunReturns, SchedP!Next
<1>5. ASSUME NEW s \in Schedules, ThreadMoves(s)
      PROVE  SchedP!Next
  BY <1>5, SameThreads DEF ThreadMoves, SchedP!Next
<1>6. ASSUME NEW p \in Pages, NEW s \in Schedules, NEW kind \in {"toggle", "run"},
             Press(p, s, kind)
      PROVE  UNCHANGED schedulerVars
  BY <1>6 DEF Press
<1>7. ASSUME NEW p \in Pages, Load(p)
      PROVE  UNCHANGED schedulerVars
  BY <1>7 DEF Load
<1>8. ASSUME NEW a \in answers,
             PageArrives(a) \/ ToggleArrives(a) \/ RunArrives(a) \/ ButtonFails(a)
               \/ Dropped(a)
      PROVE  UNCHANGED schedulerVars
  BY <1>8 DEF PageArrives, ToggleArrives, RunArrives, ButtonFails, Dropped, OthersUnmoved
<1>9. ServePage \/ UNCHANGED dashboardVars => UNCHANGED schedulerVars
  BY DEF ServePage, dashboardVars
<1> QED BY <1>1, <1>2, <1>3, <1>4, <1>5, <1>6, <1>7, <1>8, <1>9 DEF DashboardNext

(* Behind any number of pages, the scheduler implements its specification:  *)
(* what is proved of it alone holds under the requests of the dashboard.    *)
THEOREM ScheduledByPages == DashboardSpec => SchedP!Spec
<1> DEFINE Agrees == Entries /\ Told
<1>1. DashboardInit => Agrees /\ SchedP!Init
  BY InitAgrees DEF DashboardInit, Sched!Init, Sched!NewEntry, Sched!NoTrigger,
     SchedP!Init, SchedP!NewEntry, SchedP!NoTrigger
<1>2. Agrees /\ [DashboardNext]_dashboardVars => Agrees'
  BY NextAgrees
<1>3. Agrees /\ [DashboardNext]_dashboardVars => [SchedP!Next]_(SchedP!vars)
  BY NextScheduled
<1> QED BY <1>1, <1>2, <1>3, PTL DEF DashboardSpec, SchedP!Spec

-----------------------------------------------------------------------------
(* What the bounds allow the operators to do.                               *)
Bounded ==
  /\ asked \in [Pages -> 0 .. MaxLoads] /\ load \in [Pages -> 0 .. MaxLoads]
  /\ waiting \subseteq Button
  /\ presses \in 0 .. MaxPresses

LEMMA InitBounded == DashboardInit => Bounded
BY LoadsAssumption DEF DashboardInit, Bounded

LEMMA NextBounded ==
  ASSUME Bounded, [DashboardNext]_dashboardVars
  PROVE  Bounded'
<1>1. /\ asked \in [Pages -> 0 .. MaxLoads] /\ load \in [Pages -> 0 .. MaxLoads]
      /\ waiting \subseteq Button /\ presses \in 0 .. MaxPresses
      /\ MaxLoads \in Nat /\ MaxPresses \in Nat
  BY LoadsAssumption DEF Bounded
<1>2. ASSUME NEW p \in Pages, Load(p)
      PROVE  Bounded'
  <2>1. /\ asked[p] + 1 \in 0 .. MaxLoads
        /\ asked' = [asked EXCEPT ![p] = @ + 1]
        /\ UNCHANGED <<load, waiting, presses>>
    BY <1>1, <1>2 DEF Load
  <2> QED BY <1>1, <2>1 DEF Bounded
<1>3. ASSUME NEW p \in Pages, NEW s \in Schedules, NEW kind \in {"toggle", "run"},
             Press(p, s, kind)
      PROVE  Bounded'
  <2>1. /\ waiting' = waiting \cup {[page |-> p, schedule |-> s, kind |-> kind]}
        /\ presses' = presses + 1 /\ presses < MaxPresses
        /\ UNCHANGED <<load, asked>>
    BY <1>3 DEF Press
  <2>2. [page |-> p, schedule |-> s, kind |-> kind] \in Button
    BY DEF Button
  <2> QED BY <1>1, <2>1, <2>2 DEF Bounded
<1>4. ASSUME NEW a \in answers, PageArrives(a)
      PROVE  Bounded'
  <2>1. /\ load' = [load EXCEPT ![a.page] = a.load] /\ a.load = asked[a.page]
        /\ waiting' \subseteq waiting /\ UNCHANGED <<asked, presses>>
    BY <1>4 DEF PageArrives, OthersUnmoved
  <2>2. load' \in [Pages -> 0 .. MaxLoads]
    BY <1>1, <2>1
  <2> QED BY <1>1, <2>1, <2>2 DEF Bounded
<1>5. ASSUME NEW a \in answers,
             ToggleArrives(a) \/ RunArrives(a) \/ ButtonFails(a) \/ Dropped(a)
      PROVE  Bounded'
  <2>1. /\ waiting' \subseteq waiting /\ UNCHANGED <<load, asked, presses>>
    BY <1>5 DEF ToggleArrives, RunArrives, ButtonFails, Dropped, OthersUnmoved, Enabled
  <2> QED BY <1>1, <2>1 DEF Bounded
<1>6. CASE UNCHANGED pageVars
  BY <1>1, <1>6 DEF pageVars, Bounded
<1>7. ServePage \/ ServeToggle \/ ServeRun \/ AnswerRun => UNCHANGED pageVars
  BY DEF ServePage, ServeToggle, ServeRun, AnswerRun, Serves
<1>8. ASSUME NEW outcome \in Sched!Outcomes, RunReturns(outcome)
      PROVE  UNCHANGED pageVars
  BY <1>8 DEF RunReturns
<1>9. ASSUME NEW s \in Schedules, ThreadMoves(s)
      PROVE  UNCHANGED pageVars
  BY <1>9 DEF ThreadMoves
<1>10. UNCHANGED dashboardVars => UNCHANGED pageVars
  BY DEF dashboardVars
<1> QED BY <1>2, <1>3, <1>4, <1>5, <1>6, <1>7, <1>8, <1>9, <1>10 DEF DashboardNext

(* Every variable of the dashboard has its type: every request that waits   *)
(* is one of a page or of a button, and every answer that is shown was one  *)
(* about a schedule.                                                        *)
THEOREM DashboardTypes == DashboardSpec => []DashboardTypeOK
<1>1. SchedP!Spec => []SchedP!TypeOK
  BY SchedulerConstants, SchedP!TypeCorrect
<1>2. SchedP!TypeOK /\ OrderInv /\ Bounded => DashboardTypeOK
  <2> SUFFICES ASSUME SchedP!TypeOK, OrderInv, Bounded PROVE DashboardTypeOK
    OBVIOUS
  <2>1. Sched!TypeOK
    BY DEF Sched!TypeOK, Sched!ScheduleState, Sched!ThreadPC, Sched!Trigger,
       Sched!NoTrigger, Sched!Outcomes, Sched!Ok, Sched!Failed,
       SchedP!TypeOK, SchedP!ScheduleState, SchedP!ThreadPC, SchedP!Trigger,
       SchedP!NoTrigger, SchedP!Outcomes, SchedP!Ok, SchedP!Failed
  <2> QED BY <2>1 DEF OrderInv, Entries, Told, TimesTold, Bounded, DashboardTypeOK
<1>3. OrderInv /\ [DashboardNext]_dashboardVars => OrderInv'
  BY NextOrdered
<1> QED BY <1>1, <1>2, <1>3, InitOrdered, InitBounded, NextBounded, ScheduledByPages,
           PTL DEF DashboardSpec
=============================================================================
