------------------------------ MODULE LogStore ------------------------------
(***************************************************************************)
(* The log lines of each service (src/src/logs.rs).  Each output stream of *)
(* each instance is a pipe that one forwarder thread reads to its end; one *)
(* more forwards the two lines that seed_log_store has in memory.  All     *)
(* forwarders of a service share one deque.                                *)
(***************************************************************************)
EXTENDS Naturals, Sequences, SequencesExt

CONSTANTS
  LoggedServices,
  Forwarders,    \* the streams that are forwarded
  ServiceOf,     \* the service of each forwarder
  Seeds,         \* the streams that are complete before they are read
  MaxStored,     \* MAX_STORED_LOG_LINES
  MaxLines       \* bound: lines of each stream

ASSUME LogAssumption ==
  /\ ServiceOf \in [Forwarders -> LoggedServices]
  /\ Seeds \subseteq Forwarders
  /\ MaxStored \in Nat /\ MaxLines \in Nat

VARIABLES
  store,    \* the deque of each service; a line is its stream and number
  state,    \* what each forwarder is doing
  read,     \* how many lines each forwarder has read
  written,  \* how many lines were written to each stream
  open      \* the streams whose process may still write

logVars == <<store, state, read, written, open>>

LogTypeOK ==
  /\ store \in [LoggedServices -> Seq([forwarder : Forwarders, number : 1 .. MaxLines])]
  /\ \A s \in LoggedServices : Len(store[s]) <= MaxStored
  /\ state \in [Forwarders -> {"reading", "recording", "ended", "failed"}]
  /\ read \in [Forwarders -> 0 .. MaxLines] /\ written \in [Forwarders -> 0 .. MaxLines]
  /\ \A f \in Forwarders : read[f] <= written[f]
  /\ open \subseteq Forwarders

-----------------------------------------------------------------------------
LogInit ==
  /\ store = [s \in LoggedServices |-> <<>>]
  /\ state = [f \in Forwarders |-> "reading"]
  /\ read = [f \in Forwarders |-> 0]
  /\ written = [f \in Forwarders |-> IF f \in Seeds THEN MaxLines ELSE 0]
  /\ open = Forwarders \ Seeds

\* The service writes a line.
Write(f) ==
  /\ f \in open
  /\ state[f] \in {"reading", "recording"}
  /\ written[f] < MaxLines
  /\ written' = [written EXCEPT ![f] = @ + 1]
  /\ UNCHANGED <<store, state, read, open>>

\* The process ends, as it does when it writes to a pipe that nobody reads.
Close(f) ==
  /\ f \in open
  /\ open' = open \ {f}
  /\ UNCHANGED <<store, state, read, written>>

\* A line is read, formatted and printed, with no lock held.
Read(f) ==
  /\ state[f] = "reading" /\ read[f] < written[f]
  /\ read' = [read EXCEPT ![f] = @ + 1]
  /\ state' = [state EXCEPT ![f] = "recording"]
  /\ UNCHANGED <<store, written, open>>

\* A line that is not UTF-8 ends the forwarder and closes its end.
ReadFails(f) ==
  /\ state[f] = "reading" /\ f \notin Seeds
  /\ read[f] < written[f]
  /\ state' = [state EXCEPT ![f] = "failed"]
  /\ UNCHANGED <<store, read, written, open>>

\* push_back, then pop_front while there are too many.
Pushed(lines, line) ==
  LET all == Append(lines, line) IN
  IF Len(all) > MaxStored THEN SubSeq(all, Len(all) - MaxStored + 1, Len(all))
  ELSE all

RecordLine(f) ==
  /\ state[f] = "recording"
  /\ store' = [store EXCEPT ![ServiceOf[f]] =
                 Pushed(@, [forwarder |-> f, number |-> read[f]])]
  /\ state' = [state EXCEPT ![f] = "reading"]
  /\ UNCHANGED <<read, written, open>>

\* Fault: the forwarder ends with the process, not with the stream.
EndWithProcess(f) ==
  /\ state[f] = "reading" /\ f \notin open
  /\ state' = [state EXCEPT ![f] = "ended"]
  /\ UNCHANGED <<store, read, written, open>>

\* The stream ends: the process has, and all it wrote was read.
End(f) ==
  /\ state[f] = "reading" /\ f \notin open /\ read[f] = written[f]
  /\ state' = [state EXCEPT ![f] = "ended"]
  /\ UNCHANGED <<store, read, written, open>>

LogNext ==
  \E f \in Forwarders :
    Write(f) \/ Close(f) \/ Read(f) \/ ReadFails(f) \/ RecordLine(f) \/ End(f)

LogSpec == LogInit /\ [][LogNext]_logVars

-----------------------------------------------------------------------------
\* The last line that was recorded or, if the stream has ended, written.
Due(f) ==
  CASE state[f] = "ended"     -> written[f]
    [] state[f] = "recording" -> read[f] - 1
    [] OTHER                  -> read[f]

(* What the dashboard shows of a stream is its latest lines, in order and   *)
(* without a gap; lines are dropped only from a full deque.  Forwarders     *)
(* that write into one deque do not spoil this.  The stream of a service    *)
(* that has ended, however it did, is shown to its last line, unless a line *)
(* that is not UTF-8 ended its forwarder: then to the line before that one. *)
ShowsLatest ==
  \A f \in Forwarders :
    LET lines == store[ServiceOf[f]]
        shown == {i \in DOMAIN lines : lines[i].forwarder = f}
        later(i) == {j \in shown : j > i}
    IN  /\ \A i \in shown : lines[i].number = Due(f) - Cardinality(later(i))
        /\ Cardinality(shown) < Due(f) => Len(lines) = MaxStored
=============================================================================
