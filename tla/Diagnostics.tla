------------------------------ MODULE Diagnostics ------------------------------
(***************************************************************************)
(* DiagnosticsInterface and the trackers it owns.  Threads post messages;  *)
(* the updater asks for the reports in turn; a worker measures its cycles  *)
(* with a tracker; the owner adds trackers, without the mutex.             *)
(*                                                                         *)
(* A call that holds mtx_ throughout is one step.  The exception is        *)
(* diagnosticsPerformance, which reads each tracker several times, each    *)
(* time under the tracker's own mutex only, and in an order that C++ does  *)
(* not fix.  The reads of mean, min and max change nothing here.           *)
(***************************************************************************)
EXTENDS TimeSpanTracker

CONSTANTS
  Msg,        \* the messages, each posted at most once
  LevelName,  \* LevelName[m]: the level it is posted with
  Worker,     \* the threads that measure
  Id,         \* the names of trackers
  Periods,    \* the periods they are added with, none below minus ten seconds,
              \* for which the window is 0 and no constructor throws
  MaxGen,     \* bound on the trackers ever made, for model checking
  MaxCycles,  \* bound on the cycles of all trackers, for model checking
  StartTime,  \* the clock at the start
  MaxTime     \* bound on the clock, for model checking

ASSUME DiagnosticsAssumption ==
  /\ Ten \in Nat
  /\ LevelName \in [Msg -> STRING]
  /\ \A period \in Periods : period \in Int /\ period >= -Ten
  /\ MaxGen \in Nat /\ MaxCycles \in Nat /\ StartTime \in Nat /\ MaxTime \in Nat

Levels == {"OK", "WARN", "ERROR", "STALE"}
Reports == <<"OK", "WARN", "ERROR">>   \* those that some call of the class makes
Fields == {"missed", "total"}
Absent == -1
Null == 0

VARIABLES
  status,      \* diagnostic_.status
  tracker,     \* time_span_tracker_: Absent, Null or the number of an object
  obj,         \* the tracker objects, in the order of their creation
  held,        \* the pointer each worker got from timeSpanStrakcer
  adding,      \* the name that addTimeTracker is at, or none
  turn,        \* which report the updater makes next
  todo,        \* what diagnosticsPerformance has still to read
  row,         \* what it has read
  now,         \* the clock
  posted,      \* history: the messages posted
  shown,       \* history: those shown by a report of their level
  start,       \* history: the counters when the report began
  overlapped,  \* history: addTimeTracker ran beside a report or a lookup
  threw,       \* history: the constructor of a tracker has thrown
  crashed      \* a null pointer was followed

queue == <<status, posted, shown>>
map == <<tracker, obj, adding, threw>>
report == <<turn, todo, row, start>>
vars == <<queue, map, report, held, now, overlapped, crashed>>

Init ==
  /\ status = <<>> /\ posted = {} /\ shown = {}
  /\ tracker = [i \in Id |-> Absent]
  /\ obj = <<>>
  /\ held = [w \in Worker |-> Null]
  /\ adding = {} /\ threw = FALSE
  /\ turn = 1 /\ todo = {}
  /\ row = [x \in Id \X Fields |-> 0]
  /\ start = row
  /\ now = StartTime
  /\ overlapped = FALSE /\ crashed = FALSE

\* diagnosticsPerformance holds mtx_.
Reporting == turn = Len(Reports) + 2

-----------------------------------------------------------------------------
(* Messages.                                                               *)

\* A level that is none of the four leaves the field as it was built, OK.
Level(m) == IF LevelName[m] \in Levels THEN LevelName[m] ELSE "OK"

addDiagnosticsMessage(m) ==
  /\ m \notin posted
  /\ ~Reporting
  /\ status' = Append(status, m)
  /\ posted' = posted \cup {m}
  /\ UNCHANGED <<shown, map, report, held, now, overlapped, crashed>>

\* remove_if and erase: the statuses of the other levels are left, in their order.
Erase(level) ==
  LET others == {n \in DOMAIN status : Level(status[n]) # level} IN
  \E f \in [1..Cardinality(others) -> others] :
    /\ \A j, k \in DOMAIN f : j < k => f[j] < f[k]
    /\ status' = [k \in DOMAIN f |-> status[f[k]]]

\* Mutants of diagnostics: everything that was shown is erased; nothing is said
\* while a message of a higher level is there.
diagnostics_erases_all(level) ==
  /\ LET mine == {m \in ToSet(status) : Level(m) = level} IN
     /\ shown' = shown \cup mine
     /\ status' = IF mine = {} THEN status ELSE <<>>
  /\ turn' = turn + 1
  /\ UNCHANGED <<posted, map, todo, row, start, held, now, overlapped, crashed>>

diagnostics_waits(level) ==
  /\ LET mine == {m \in ToSet(status) : Level(m) = level} IN
     IF \E m \in ToSet(status) : Level(m) = "STALE" THEN UNCHANGED <<shown, status>>
     ELSE /\ shown' = shown \cup mine
          /\ Erase(level)
  /\ turn' = turn + 1
  /\ UNCHANGED <<posted, map, todo, row, start, held, now, overlapped, crashed>>

\* If there is a status of this level, all are shown and those of it erased.
diagnostics(level) ==
  /\ shown' = shown \cup {m \in ToSet(status) : Level(m) = level}
  /\ Erase(level)
  /\ turn' = turn + 1
  /\ UNCHANGED <<posted, map, todo, row, start, held, now, overlapped, crashed>>

\* diagnosticsInfo, diagnosticsWarn and diagnosticsError, one after the other.
diagnosticsLevel == turn \in DOMAIN Reports /\ diagnostics(Reports[turn])

-----------------------------------------------------------------------------
(* Trackers.                                                               *)

\* time_span_tracker_[id] makes an entry if there is none.
addTimeTracker(i) ==
  /\ adding = {}
  /\ Len(obj) < MaxGen
  /\ adding' = {i}
  /\ tracker' = [tracker EXCEPT ![i] = IF @ = Absent THEN Null ELSE @]
  /\ overlapped' = (overlapped \/ Reporting)
  /\ UNCHANGED <<queue, obj, threw, report, held, now, crashed>>

\* Mutant of addTimeTracker_reset: the entry is never filled.
addTimeTracker_no_reset ==
  /\ adding # {}
  /\ \E period \in Periods : period > 0 /\ obj' = Append(obj, Tracker(period))
  /\ adding' = {}
  /\ UNCHANGED <<queue, tracker, threw, report, held, now, overlapped, crashed>>

\* reset(new TimeSpanTracker(...)), which throws for a window no buffer can have.
addTimeTracker_reset ==
  /\ \E i \in adding, period \in Periods :
       \/ /\ period > 0
          /\ obj' = Append(obj, Tracker(period))
          /\ tracker' = [tracker EXCEPT ![i] = Len(obj')]
          /\ UNCHANGED threw
       \/ /\ period <= 0
          /\ threw' = TRUE
          /\ UNCHANGED <<obj, tracker>>
  /\ adding' = {}
  /\ UNCHANGED <<queue, report, held, now, overlapped, crashed>>

\* Following the pointer of i: null, or read while the map is being changed.
Follow(i) ==
  crashed' \in IF tracker[i] = Null THEN {TRUE}
               ELSE IF adding # {} THEN BOOLEAN ELSE {FALSE}

\* The entry exists, or at() throws; the worker will follow the pointer.
timeSpanStrakcer(w, i) ==
  /\ tracker[i] # Absent
  /\ held' = [held EXCEPT ![w] = tracker[i]]
  /\ overlapped' = (overlapped \/ adding # {})
  /\ Follow(i)
  /\ UNCHANGED <<queue, map, report, now>>

\* A call of a worker on its tracker.
measure(w) ==
  /\ held[w] # Null
  /\ \E call \in {"time_span", "tick", "tock"} :
       obj' = [obj EXCEPT ![held[w]] = CASE call = "time_span" -> time_span(@, now)
                                          [] call = "tick"      -> tick(@, now)
                                          [] call = "tock"      -> tock(@, now)]
  /\ Total([g \in DOMAIN obj' |-> obj'[g].cycles_]) <= MaxCycles
  /\ UNCHANGED <<queue, tracker, adding, threw, report, held, now, overlapped, crashed>>

\* getMissedCycles and getTotalCycles of the tracker i points to.
Counter(i, field) ==
  IF field = "missed" THEN obj[tracker[i]].missed_cycles_ ELSE obj[tracker[i]].cycles_

Valid == {i \in Id : tracker[i] > 0}

\* Lock mtx_ and begin to iterate.
diagnosticsPerformance ==
  /\ turn = Len(Reports) + 1
  /\ turn' = turn + 1
  /\ todo' = {i \in Id : tracker[i] # Absent} \X Fields
  /\ start' = [x \in Id \X Fields |-> IF x[1] \in Valid THEN Counter(x[1], x[2]) ELSE 0]
  /\ overlapped' = (overlapped \/ adding # {})
  /\ UNCHANGED <<queue, map, row, held, now, crashed>>

performance_read ==
  /\ Reporting
  /\ \E x \in todo :
       /\ todo' = todo \ {x}
       /\ Follow(x[1])
       /\ row' = IF crashed' THEN row ELSE [row EXCEPT ![x] = Counter(x[1], x[2])]
  /\ UNCHANGED <<queue, map, turn, start, held, now, overlapped>>

performance_end ==
  /\ Reporting
  /\ todo = {}
  /\ turn' = 1
  /\ row' = [x \in Id \X Fields |-> 0]
  /\ start' = row'
  /\ UNCHANGED <<queue, map, todo, held, now, overlapped, crashed>>

\* The clock is never set back.  std::chrono::high_resolution_clock does not
\* promise that: in libstdc++ it is system_clock.
Tick ==
  /\ now < MaxTime
  /\ now' = now + 1
  /\ UNCHANGED <<queue, map, report, held, overlapped, crashed>>

UpdaterStep ==
  diagnosticsLevel \/ diagnosticsPerformance \/ performance_read \/ performance_end

Next ==
  /\ ~crashed
  /\ \/ UpdaterStep
     \/ \E m \in Msg : addDiagnosticsMessage(m)
     \/ \E i \in Id : addTimeTracker(i) \/ \E w \in Worker : timeSpanStrakcer(w, i)
     \/ addTimeTracker_reset
     \/ \E w \in Worker : measure(w)
     \/ Tick

Spec == Init /\ [][Next]_vars

\* The updater asks for its reports again and again.
FairSpec == Spec /\ WF_vars(~crashed /\ UpdaterStep)

-----------------------------------------------------------------------------
(* Properties.                                                             *)

\* The types of the queue, of the map and of the trackers.
TypeOK ==
  /\ status \in Seq(Msg) /\ posted \subseteq Msg /\ shown \subseteq Msg
  /\ tracker \in [Id -> Absent..MaxGen]
  /\ held \in [Worker -> Null..MaxGen]
  /\ \A g \in DOMAIN obj :
       /\ obj[g].mode_ \in Modes
       /\ obj[g].missed_cycles_ \in 0..obj[g].cycles_
       /\ Len(obj[g].buffer_) <= Window(obj[g])
       /\ obj[g].mode_ = "TIME_SPAN" => obj[g].cycles_ > 0
       /\ obj[g].last_tick_ <= now
  /\ \A i \in Id : tracker[i] <= Len(obj)
  /\ turn \in 1..(Len(Reports) + 2)

\* A message that was posted is in the queue exactly once, or it was shown by a
\* report of its own level: the report of another level, which shows it too,
\* neither removes nor repeats it there.
NothingLost ==
  \A m \in posted :
    \/ m \in shown /\ m \notin ToSet(status)
    \/ m \notin shown /\ \E n \in DOMAIN status : \A k \in DOMAIN status :
                           status[k] = m <=> k = n

\* The spans in the window of a tracker do not overlap: they never add up to
\* more than the time of the clock, and in TIME_SPAN mode, until the window is
\* full, they add up to it.
SpansTile ==
  \A g \in DOMAIN obj :
    /\ getMean(obj[g])[1] <= obj[g].last_tick_
    /\ obj[g].mode_ = "TIME_SPAN" /\ obj[g].cycles_ = getMean(obj[g])[2] =>
         getMean(obj[g])[1] = obj[g].last_tick_

\* Missed cycles took their time: each one counted used up more than 1.2 nominal
\* spans that no other one used.
MissedTookTime ==
  \A g \in DOMAIN obj :
    6 * obj[g].nominal_time_span_ * obj[g].missed_cycles_ <= 5 * obj[g].last_tick_

\* The mean lies between min and max.
StatsBracket ==
  \A g \in DOMAIN obj :
    /\ getMin(obj[g]) * getMean(obj[g])[2] <= getMean(obj[g])[1]
    /\ getMean(obj[g])[1] <= getMax(obj[g]) * getMean(obj[g])[2]

\* What a tracker says agrees with the clock, through any calls of time_span, tick
\* and tock in either mode: its spans do not overlap, the cycles it calls missed
\* took their time, and its statistics bracket each other.  It needs a clock that
\* is not set back meanwhile (see Tick): a span across such a change is negative.
TimeAccounted == SpansTile /\ MissedTookTime /\ StatsBracket

\* What a performance report shows was true at some moment of the report: each
\* counter lies between its values at the beginning and at the end, in whatever
\* order they were read, unless the tracker was replaced meanwhile.
ReportInWindow ==
  Reporting /\ todo = {} /\ ~overlapped =>
    \A i \in Valid : \A f \in Fields :
      row[<<i, f>>] \in start[<<i, f>>]..Counter(i, f)

\* A report or a lookup meets a bad pointer only beside an addTimeTracker, or
\* after one whose constructor has thrown: it leaves a null entry in the map.
CrashExplained == crashed => overlapped \/ threw

\* A message is shown, whatever is posted beside it; only one posted as STALE,
\* for which there is no report, stays for ever.
EventuallyShown ==
  \A m \in Msg : m \in posted /\ Level(m) # "STALE" ~> m \in shown \/ crashed
=============================================================================
