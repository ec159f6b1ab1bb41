----------------------------- MODULE StatsStore -----------------------------
(***************************************************************************)
(* The statistics of proxied requests (src/src/stats.rs): how often each   *)
(* endpoint answered with each status in each of the last minutes.         *)
(*                                                                         *)
(* The server thread is the only one to record.  The minute comes from the *)
(* system clock, which may be set forward or back at any time, and old     *)
(* minutes are dropped only when their endpoint records again.             *)
(***************************************************************************)
EXTENDS Naturals, Sequences, Functions, FiniteSetsExt

CONSTANTS
  Endpoints,      \* pairs of a service and one of its endpoints
  Statuses,       \* HTTP statuses
  MaxMinutes,     \* MAX_MINUTES: the minutes that are kept
  MinuteLength,   \* 60: ticks of the clock in a minute
  LastTick,       \* bound: the clock stays below it
  MaxRecords      \* bound: calls of record

ASSUME StatsAssumption ==
  /\ MaxMinutes \in Nat \ {0} /\ MinuteLength \in Nat \ {0}
  /\ LastTick \in Nat /\ MaxRecords \in Nat
  /\ IsFiniteSet(Endpoints)

VARIABLES
  data,     \* the counts of each endpoint, by minute and status
  now,      \* SystemTime::now() since the epoch
  log       \* history: every call of record

statsVars == <<data, now, log>>

Minute(time) == time \div MinuteLength

LastMinute == Minute(LastTick)

Records == [endpoint : Endpoints, minute : 0 .. LastMinute, status : Statuses]

StatsTypeOK ==
  /\ now \in 0 .. LastTick
  /\ log \in Seq(Records)
  /\ DOMAIN data = Endpoints
  /\ \A e \in Endpoints :
       /\ DOMAIN data[e] \subseteq 0 .. LastMinute
       /\ \A m \in DOMAIN data[e] : data[e][m] \in [Statuses -> Nat]

-----------------------------------------------------------------------------
StatsInit ==
  /\ data = [e \in Endpoints |-> <<>>]
  /\ now = 0
  /\ log = <<>>

SetClock ==
  /\ now' \in 0 .. LastTick
  /\ UNCHANGED <<data, log>>

\* A minute or a status without an entry counts nothing.
CountAt(counts, minute, status) ==
  IF minute \in DOMAIN counts THEN counts[minute][status] ELSE 0

(* The status is counted in the bucket of the minute.                      *)
CountedIn(counts, time, status) ==
  [m \in DOMAIN counts \cup {Minute(time)} |->
     [s \in Statuses |-> IF m = Minute(time) /\ s = status THEN CountAt(counts, m, s) + 1
                         ELSE CountAt(counts, m, s)]]

\* Fault: one minute too many is kept.
LateCutoff(minute) == IF minute >= MaxMinutes THEN minute - MaxMinutes ELSE 0

\* saturating_sub(MAX_MINUTES - 1).
Cutoff(minute) ==
  IF minute >= MaxMinutes - 1 THEN minute - (MaxMinutes - 1) ELSE 0

Retained(counts, minute) ==
  Restrict(counts, {m \in DOMAIN counts : m >= Cutoff(minute)})

\* record_http_status; a time before the epoch records nothing.
Record(e, status) ==
  /\ Len(log) < MaxRecords
  /\ data' = [data EXCEPT ![e] = Retained(CountedIn(@, now, status), Minute(now))]
  /\ log' = Append(log, [endpoint |-> e, minute |-> Minute(now), status |-> status])
  /\ UNCHANGED now

StatsNext == SetClock \/ \E e \in Endpoints, status \in Statuses : Record(e, status)

StatsSpec == StatsInit /\ [][StatsNext]_statsVars

GlobalCount(minute, status) ==
  MapThenSumSet(LAMBDA e : data[e][minute][status],
                {e \in Endpoints : minute \in DOMAIN data[e]})

(* StatsStore::snapshot; the time it is asked for selects nothing.         *)
StatsSnapshot ==
  [services |-> Restrict(data, {e \in Endpoints : data[e] # <<>>}),
   global |-> [m \in UNION {DOMAIN data[e] : e \in Endpoints} |->
                 [status \in Statuses |-> GlobalCount(m, status)]]]

-----------------------------------------------------------------------------
(* Properties.                                                             *)

\* Of a list of records, those that the statistics are to show: dropped is
\* what the same endpoint recorded too long before a later record of its own.
OutOfWindow(records, i) ==
  \E j \in i .. Len(records) :
    /\ records[j].endpoint = records[i].endpoint
    /\ records[j].minute >= records[i].minute + MaxMinutes

Kept(records, asked, minute, status) ==
  {i \in DOMAIN records :
    /\ records[i].endpoint \in asked
    /\ records[i].minute = minute /\ records[i].status = status
    /\ ~OutOfWindow(records, i)}

Shows(counts, asked) ==
  \A minute \in 0 .. LastMinute, status \in Statuses :
    CountAt(counts, minute, status) = Cardinality(Kept(log, asked, minute, status))

(* A status that was recorded is counted until the same endpoint records    *)
(* MAX_MINUTES or more later, and no longer: neither the other endpoints    *)
(* nor a clock that is set back remove or double what is in the window.     *)
(* What the statistics show is that, for each endpoint and for all of them. *)
CountsTheWindow ==
  LET shown == StatsSnapshot IN
  /\ Shows(shown.global, Endpoints)
  /\ \A e \in Endpoints :
       Shows(IF e \in DOMAIN shown.services THEN shown.services[e] ELSE <<>>, {e})
=============================================================================
