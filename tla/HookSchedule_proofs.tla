------------------------ MODULE HookSchedule_proofs ------------------------
(* Where the entries of each device lie apart, what the modules do is what   *)
(* the list says, the entries that testbed.cc skips left out: the hooks of a *)
(* filter are in force during its entries, and at the end the log holds the  *)
(* windows of the list.  The invariant says of every entry posted whether it *)
(* is still to start, running or done, read off the queue, and ties m_active,*)
(* the hooks and the log to that.                                            *)
EXTENDS HookWindows_proofs

\* The stops that the queue holds for entry i.
Closing(i) ==
  {f \in agenda : f.run = "stop" /\ f.module = schedule[i].module
                  /\ f.at = Until(schedule[i])}
Started(i) == i \in Posted(schedule) /\ StartOf(i) \notin agenda
Lasting(i) == schedule[i].module \notin Singles
Running(i) == Started(i) /\ Lasting(i) /\ Closing(i) # {}
Done(i) == Started(i) /\ (Lasting(i) => Closing(i) = {})

EndEvent == Event(Duration, 2 * Len(schedule) + 2, "end", Nobody)
WindowOf(w) == [module |-> w.module, from |-> w.from, to |-> Until(w)]

\* The queue, whatever the list: numbers are given in order, a start that is
\* gone is past, a stop is an entry's own or one a started train has posted.
NumbersAreFresh ==
  /\ uid \in Nat /\ uid > 2 * Len(schedule) + 2
  /\ \A e \in agenda : e.uid \in Nat
StartsArePast == \A i \in Posted(schedule) : Started(i) => schedule[i].from <= now
StopsAreEntries ==
  \A f \in agenda : f.run = "stop" =>
    \E i \in Posted(schedule) :
      /\ f.module = schedule[i].module
      /\ IF f.module \in Trains
         THEN /\ Started(i)
              /\ f.at = Until(schedule[i]) /\ f.uid > 2 * Len(schedule) + 2
         ELSE f = StopOf(i)
EndIsPending ==
  /\ EndEvent \in agenda
  /\ \A f \in agenda : f.run = "end" => f = EndEvent
SlotsAreDevices == DOMAIN slot = {DeviceOf[m] : m \in Modules}
QueueInv ==
  NumbersAreFresh /\ StartsArePast /\ StopsAreEntries /\ EndIsPending /\ SlotsAreDevices

\* The modules, if entries lie apart: exactly the modules of the entries that
\* are running are active, with their hooks in force, and each has one stop.
ActiveIsRunning ==
  \A m \in Modules : active[m] => \E i \in Posted(schedule) : schedule[i].module = m /\ Running(i)
RunningIsInForce ==
  \A i \in Posted(schedule) : Running(i) =>
    InForce(schedule[i].module) /\ since[schedule[i].module] = schedule[i].from
StopsAreUnique ==
  \A f, g \in agenda :
    f.run = "stop" /\ g.run = "stop" /\ f.module = g.module /\ f.at = g.at
    /\ f.module \notin Singles => f = g

\* The log, if entries lie apart: it holds what is done, and what is done
\* lies within the simulation; a train's messages come before its stop.
LogIsDone == log = {WindowOf(schedule[i]) : i \in {j \in Posted(schedule) : Done(j)}}
DoneIsPast ==
  \A i \in Posted(schedule) : Done(i) => Until(schedule[i]) <= now /\ Fits(schedule[i])
MessagesComeBefore ==
  \A f \in agenda : f.run = "message" =>
    \E i \in Posted(schedule) :
      /\ schedule[i].module = f.module /\ Running(i) /\ schedule[i].from <= f.at
      /\ \A g \in Closing(i) : ~Before(g, f)
EverythingIsCovered == \A s \in sent : Covered(s)
EntriesInv ==
  /\ ActiveIsRunning /\ RunningIsInForce /\ StopsAreUnique
  /\ LogIsDone /\ DoneIsPast /\ MessagesComeBefore /\ EverythingIsCovered

\* After the end only the log matters.
FinalLog ==
  /\ log = {WindowOf(w) : w \in {v \in Planning : Fits(v)}}
  /\ EverythingIsCovered

ScheduleInv ==
  /\ ChainInv
  /\ ~over => QueueInv /\ (Separate => EntriesInv)
  /\ over /\ Separate => FinalLog

-----------------------------------------------------------------------------
(* The list *)

LEMMA UntilTypes ==
  ASSUME schedule \in Schedules, NEW i \in Posted(schedule)
  PROVE  /\ Until(schedule[i]) \in Nat /\ schedule[i].from <= Until(schedule[i])
         /\ i \in Nat /\ i <= Len(schedule) /\ Len(schedule) \in Nat
<1>1. /\ i \in Nat /\ schedule[i].from \in Nat /\ schedule[i].to \in Nat
      /\ schedule[i].from <= schedule[i].to
  BY ScheduleTypes
<1>2. Number * Interval \in Nat
  BY TrainAssumption
<1>3. i <= Len(schedule) /\ Len(schedule) \in Nat
  <2>1. schedule \in Seq(Entries) /\ i \in DOMAIN schedule
    BY SchedulesAssumption DEF Posted
  <2> QED
    BY <2>1
<1> QED
  BY <1>1, <1>2, <1>3 DEF Until, TrainEnd

LEMMA EntriesApart ==
  ASSUME schedule \in Schedules, Separate,
         NEW i \in Posted(schedule), NEW j \in Posted(schedule), i # j,
         DeviceOf[schedule[i].module] = DeviceOf[schedule[j].module]
  PROVE  /\ Until(schedule[i]) < schedule[j].from \/ Until(schedule[j]) < schedule[i].from
         /\ Until(schedule[i]) # Until(schedule[j])
<1> DEFINE v == schedule[i]  w == schedule[j]
<1>1. /\ v.from \in Nat /\ w.from \in Nat /\ Until(v) \in Nat /\ Until(w) \in Nat
      /\ v.from <= Until(v) /\ w.from <= Until(w)
  BY ScheduleTypes, UntilTypes
<1>2. Until(v) + Rest(v, w) < w.from \/ Until(w) + Rest(v, w) < v.from
  BY DEF Separate, Apart
<1>3. Rest(v, w) \in Nat
  BY PauseAssumption DEF Rest
<1> HIDE DEF v, w
<1>4. Until(v) < w.from \/ Until(w) < v.from
  BY <1>1, <1>2, <1>3
<1>5. Until(v) # Until(w)
  BY <1>1, <1>4
<1> QED
  BY <1>4, <1>5 DEF v, w

-----------------------------------------------------------------------------
(* Entries that are running *)

\* Two entries of a device are never running together.
LEMMA RunningIsAlone ==
  ASSUME ChainInv, QueueInv, Separate,
         NEW i \in Posted(schedule), NEW j \in Posted(schedule), Running(i), Running(j),
         DeviceOf[schedule[i].module] = DeviceOf[schedule[j].module]
  PROVE  i = j
<1>1. \A k \in Posted(schedule) :
        Running(k) => schedule[k].from <= now /\ now <= Until(schedule[k])
  <2> SUFFICES ASSUME NEW k \in Posted(schedule), Running(k)
               PROVE  schedule[k].from <= now /\ now <= Until(schedule[k])
    OBVIOUS
  <2>1. PICK f \in agenda : f.at = Until(schedule[k])
    BY DEF Running, Closing
  <2> QED
    BY <2>1 DEF QueueInv, StartsArePast, Running, ChainInv, WindowInv, ClockInv
<1>2. /\ schedule[i].from \in Nat /\ schedule[j].from \in Nat /\ now \in Nat
      /\ Until(schedule[i]) \in Nat /\ Until(schedule[j]) \in Nat
  BY ScheduleTypes, UntilTypes DEF ChainInv, WindowInv, ClockInv
<1>3. CASE i # j
  <2>1. Until(schedule[i]) < schedule[j].from \/ Until(schedule[j]) < schedule[i].from
    BY <1>3, EntriesApart DEF ChainInv
  <2> QED
    BY <1>1, <1>2, <2>1
<1> QED
  BY <1>3

\* None is running when another one of its device starts.
LEMMA NoneAtStart ==
  ASSUME ChainInv, QueueInv, Separate, NEW e \in agenda, Due(e),
         NEW i \in Posted(schedule), e = StartOf(i),
         NEW j \in Posted(schedule), Running(j),
         DeviceOf[schedule[i].module] = DeviceOf[schedule[j].module]
  PROVE  FALSE
<1>1. e.at = schedule[i].from
  BY DEF StartOf, Event
<1>2. PICK f \in agenda : f.at = Until(schedule[j])
  BY DEF Running, Closing
<1>3. /\ schedule[i].from \in Nat /\ schedule[j].from \in Nat /\ now \in Nat
      /\ Until(schedule[i]) \in Nat /\ Until(schedule[j]) \in Nat
      /\ schedule[i].from <= Until(schedule[i])
  BY ScheduleTypes, UntilTypes DEF ChainInv, WindowInv, ClockInv
<1>4. /\ schedule[j].from <= now /\ now <= schedule[i].from
      /\ schedule[i].from <= Until(schedule[j])
  <2>1. schedule[j].from <= now
    BY DEF QueueInv, StartsArePast, Running
  <2>2. now <= e.at
    BY DEF ChainInv, WindowInv, ClockInv
  <2>3. e.at <= f.at
    BY <1>1, <1>2, <1>3 DEF Due, Before
  <2> QED
    BY <1>1, <1>2, <2>1, <2>2, <2>3
<1>5. i # j
  BY DEF Running, Started
<1>6. Until(schedule[i]) < schedule[j].from \/ Until(schedule[j]) < schedule[i].from
  BY <1>5, EntriesApart DEF ChainInv
<1> QED
  BY <1>3, <1>4, <1>6

\* No stop that a train has posted is left when another entry of it starts.
LEMMA NoStopAtStart ==
  ASSUME ChainInv, QueueInv, Separate, NEW j \in Posted(schedule), StartOf(j) \in agenda,
         NEW f \in agenda, f.run = "stop", f.module = schedule[j].module,
         f.module \in Trains, f.at = Until(schedule[j])
  PROVE  FALSE
<1>1. PICK i \in Posted(schedule) :
        f.module = schedule[i].module /\ Started(i) /\ f.at = Until(schedule[i])
  BY DEF QueueInv, StopsAreEntries
<1>2. i # j
  BY <1>1 DEF Started
<1> QED
  BY <1>1, <1>2, EntriesApart DEF ChainInv

\* What is still to start, running or done is read off the queue alone.
LEMMA SameEntry ==
  ASSUME schedule' = schedule, NEW i \in Posted(schedule),
         StartOf(i) \in agenda' <=> StartOf(i) \in agenda,
         Lasting(i) => Closing(i)' = Closing(i)
  PROVE  (Started(i)' <=> Started(i)) /\ (Running(i)' <=> Running(i)) /\ (Done(i)' <=> Done(i))
<1>1. StartOf(i)' = StartOf(i) /\ (Lasting(i)' <=> Lasting(i))
  BY DEF StartOf, Lasting
<1>2. Started(i)' <=> Started(i)
  BY <1>1 DEF Started
<1> QED
  BY <1>1, <1>2 DEF Running, Done

-----------------------------------------------------------------------------
(* The queue *)

LEMMA QueueInit == Init => QueueInv
<1> SUFFICES ASSUME Init PROVE QueueInv
  OBVIOUS
<1>1. /\ schedule \in Schedules /\ agenda = Planned(schedule)
      /\ uid = 2 * Len(schedule) + 3 /\ Len(schedule) \in Nat
      /\ \A i \in Posted(schedule) : i \in Nat
  BY UntilTypes, SchedulesAssumption DEF Init
<1>2. NumbersAreFresh
  BY <1>1 DEF NumbersAreFresh, Planned, Event
<1>3. StartsArePast
  BY <1>1 DEF StartsArePast, Started, StartOf, Planned
<1>4. StopsAreEntries
  BY <1>1 DEF StopsAreEntries, StopOf, Planned, Event
<1>5. EndIsPending
  BY <1>1 DEF EndIsPending, EndEvent, Planned, Event
<1>6. SlotsAreDevices
  BY DEF SlotsAreDevices, Init
<1> QED
  BY <1>2, <1>3, <1>4, <1>5, <1>6 DEF QueueInv

\* Every event but the end: it takes itself and perhaps waveforms out, and a
\* stop it puts in is that of the train it starts.
LEMMA QueueStep ==
  ASSUME ChainInv, QueueInv, schedule' = schedule,
         NEW e \in agenda, e.run # "end", NEW E,
         now' = e.at, agenda' \subseteq (agenda \ {e}) \cup E,
         \A f \in agenda : f # e /\ f.run # "wave" => f \in agenda',
         \A f \in E :
           /\ f.run \notin {"start", "end"} /\ f.uid \in Nat
           /\ f.run = "stop" =>
                \E i \in Posted(schedule) :
                  /\ e = StartOf(i) /\ f.module = schedule[i].module /\ f.module \in Trains
                  /\ f.at = Until(schedule[i]) /\ f.uid > 2 * Len(schedule) + 2,
         uid' \in Nat, uid' >= uid, DOMAIN slot' = DOMAIN slot
  PROVE  QueueInv'
<1>1. /\ now \in Nat /\ e.at \in Nat /\ now <= e.at /\ Len(schedule) \in Nat
      /\ uid \in Nat /\ uid > 2 * Len(schedule) + 2
  BY SchedulesAssumption DEF ChainInv, WindowInv, ClockInv, Proper, QueueInv, NumbersAreFresh
<1>2. \A i \in Posted(schedule) :
        /\ StartOf(i)' = StartOf(i) /\ StopOf(i)' = StopOf(i)
        /\ StartOf(i).run = "start" /\ StartOf(i).at = schedule[i].from
  BY DEF StartOf, StopOf, Event
<1>3. \A i \in Posted(schedule) : Started(i) => Started(i)'
  BY <1>2 DEF Started
<1>4. NumbersAreFresh'
  BY <1>1 DEF QueueInv, NumbersAreFresh
<1>5. StartsArePast'
  <2> SUFFICES ASSUME NEW i \in Posted(schedule), Started(i)' PROVE schedule[i].from <= now'
    BY DEF StartsArePast
  <2>1. schedule[i].from \in Nat
    BY ScheduleTypes DEF ChainInv
  <2>2. CASE Started(i)
    <3>1. schedule[i].from <= now
      BY <2>2 DEF QueueInv, StartsArePast
    <3> QED
      BY <1>1, <2>1, <3>1
  <2>3. CASE ~Started(i)
    <3>1. StartOf(i) = e
      BY <1>2, <2>3 DEF Started
    <3> QED
      BY <1>1, <1>2, <3>1
  <2> QED
    BY <2>2, <2>3
<1>6. StopsAreEntries'
  <2> SUFFICES ASSUME NEW f \in agenda', f.run = "stop"
               PROVE  \E i \in Posted(schedule) :
                        /\ f.module = schedule[i].module
                        /\ IF f.module \in Trains
                           THEN /\ Started(i)'
                                /\ f.at = Until(schedule[i]) /\ f.uid > 2 * Len(schedule) + 2
                           ELSE f = StopOf(i)
    BY <1>2 DEF StopsAreEntries, Until, TrainEnd
  <2>1. CASE f \in agenda
    BY <1>3, <2>1 DEF QueueInv, StopsAreEntries
  <2>2. CASE f \in E
    <3>1. PICK i \in Posted(schedule) :
            /\ e = StartOf(i) /\ f.module = schedule[i].module /\ f.module \in Trains
            /\ f.at = Until(schedule[i]) /\ f.uid > 2 * Len(schedule) + 2
      BY <2>2
    <3>2. Started(i)'
      BY <1>2, <3>1 DEF Started
    <3> QED
      BY <3>1, <3>2
  <2> QED
    BY <2>1, <2>2
<1>7. EndIsPending'
  <2>1. EndEvent' = EndEvent /\ EndEvent.run = "end"
    BY DEF EndEvent, Event
  <2> QED
    BY <2>1 DEF QueueInv, EndIsPending
<1>8. SlotsAreDevices'
  BY DEF QueueInv, SlotsAreDevices
<1> QED
  BY <1>4, <1>5, <1>6, <1>7, <1>8 DEF QueueInv

\* What a start posts is numbered on.
LEMMA TrainIsFinite ==
  ASSUME NEW at, NEW n, NEW m
  PROVE  LET E == {Event(2 * at + i * Interval, n + i, "message", m) : i \in 0 .. Number - 1}
                  \cup {Event(TrainEnd(at), n + Number, "stop", m)}
         IN  IsFiniteSet(E) /\ Cardinality(E) \in Nat
<1> DEFINE F(i) == Event(2 * at + i * Interval, n + i, "message", m)
           T == {F(i) : i \in 0 .. Number - 1}
           f == [i \in 0 .. Number - 1 |-> F(i)]
<1>1. IsFiniteSet(0 .. Number - 1)
  BY FS_Interval, TrainAssumption
<1>2. f \in Surjection(0 .. Number - 1, T)
  BY DEF Surjection
<1>3. IsFiniteSet(T)
  BY <1>1, <1>2, FS_Surjection
<1>4. IsFiniteSet(T \cup {Event(TrainEnd(at), n + Number, "stop", m)})
  BY <1>3, FS_AddElement
<1> QED
  BY <1>4, FS_CardinalityType

-----------------------------------------------------------------------------
(* The modules and the log *)

\* What is covered stays so while nobody's window is opened or closed.
LEMMA QuietCover ==
  ASSUME NEW s, Covered(s), active' = active, since' = since, log' = log
  PROVE  Covered(s)'
BY DEF Covered

\* The log is what is done, when j is newly so and its window newly in it.
LEMMA LogGrows ==
  ASSUME LogIsDone, schedule' = schedule, NEW j \in Posted(schedule), Done(j)',
         \A i \in Posted(schedule) : i # j => (Done(i)' <=> Done(i)),
         log' = log \cup {WindowOf(schedule[j])}
  PROVE  LogIsDone'
<1> DEFINE D == {i \in Posted(schedule) : Done(i)}
           W(S) == {WindowOf(schedule[i]) : i \in S}
           X == {i \in Posted(schedule) : Done(i)'}
<1>1. X = D \cup {j}
  OBVIOUS
<1>2. log' = W(D) \cup {WindowOf(schedule[j])}
  BY DEF LogIsDone
<1>3. log' = W(X)
  BY <1>1, <1>2
<1> QED
  BY <1>3 DEF LogIsDone, WindowOf, Until, TrainEnd

LEMMA LogStays ==
  ASSUME LogIsDone, schedule' = schedule, log' = log,
         \A i \in Posted(schedule) : Done(i)' <=> Done(i)
  PROVE  LogIsDone'
<1> DEFINE X == {i \in Posted(schedule) : Done(i)'}
<1>1. X = {i \in Posted(schedule) : Done(i)}
  OBVIOUS
<1> QED
  BY <1>1 DEF LogIsDone, WindowOf, Until, TrainEnd

\* An event that opens and closes no window.
LEMMA QuietStep ==
  ASSUME ScheduleInv, ~over, Separate, WindowInv', schedule' = schedule,
         NEW e \in agenda, Due(e), e.run \notin {"start", "stop", "end"}, NEW E,
         \A f \in E : f.run \notin {"start", "stop", "end", "message"},
         now' = e.at, agenda' = (agenda \ {e}) \cup E,
         active' = active, since' = since, slot' = slot, log' = log,
         sent' \subseteq sent \cup {Sending(e)}
  PROVE  EntriesInv'
<1>1. ChainInv /\ QueueInv /\ EntriesInv
  BY DEF ScheduleInv
<1>2. /\ now \in Nat /\ e.at \in Nat /\ now <= e.at /\ Proper(e)
      /\ \A i \in Posted(schedule) : Until(schedule[i]) \in Nat
  BY <1>1, UntilTypes DEF ChainInv, WindowInv, ClockInv, Proper
<1>3. \A i \in Posted(schedule) :
        /\ Closing(i)' = Closing(i)
        /\ StartOf(i) \in agenda' <=> StartOf(i) \in agenda
  BY DEF Closing, StartOf, Event, Until, TrainEnd
<1>4. \A i \in Posted(schedule) :
        (Started(i)' <=> Started(i)) /\ (Running(i)' <=> Running(i)) /\ (Done(i)' <=> Done(i))
  BY <1>3, SameEntry
<1>5. ActiveIsRunning'
  BY <1>1, <1>4 DEF EntriesInv, ActiveIsRunning
<1>6. RunningIsInForce'
  BY <1>1, <1>4 DEF EntriesInv, RunningIsInForce, InForce
<1>7. StopsAreUnique'
  BY <1>1 DEF EntriesInv, StopsAreUnique
<1>8. LogIsDone'
  BY <1>1, <1>4, LogStays DEF EntriesInv
<1>9. DoneIsPast'
  <2> SUFFICES ASSUME NEW i \in Posted(schedule), Done(i)
               PROVE  Until(schedule[i]) <= now' /\ Fits(schedule[i])
    BY <1>4 DEF DoneIsPast, Until, TrainEnd, Fits
  <2> QED
    BY <1>1, <1>2 DEF EntriesInv, DoneIsPast
<1>10. MessagesComeBefore'
  <2> SUFFICES ASSUME NEW f \in agenda', f.run = "message"
               PROVE  \E i \in Posted(schedule) :
                        /\ schedule[i].module = f.module /\ Running(i)
                        /\ schedule[i].from <= f.at
                        /\ \A g \in Closing(i) : ~Before(g, f)
    BY <1>3, <1>4 DEF MessagesComeBefore
  <2> QED
    BY <1>1 DEF EntriesInv, MessagesComeBefore
<1>11. EverythingIsCovered'
  <2> SUFFICES ASSUME NEW s \in sent' PROVE Covered(s)'
    BY DEF EverythingIsCovered
  <2>1. CASE s \in sent
    BY <1>1, <2>1, QuietCover DEF EntriesInv, EverythingIsCovered
  <2>2. CASE s.module \notin Trains
    BY <2>2 DEF WindowInv, MessagesAreLabelled
  <2>3. CASE s = Sending(e) /\ e.module \in Trains
    <3>1. e.run = "message"
      BY <1>2, <2>3, KindsAssumption DEF Proper, Runs
    <3>2. PICK i \in Posted(schedule) :
            schedule[i].module = e.module /\ Running(i) /\ schedule[i].from <= e.at
      BY <1>1, <3>1 DEF EntriesInv, MessagesComeBefore
    <3>3. active[e.module] /\ since[e.module] <= e.at
      BY <1>1, <3>2 DEF EntriesInv, RunningIsInForce, InForce
    <3>4. s.module = e.module /\ s.at = e.at
      BY <2>3 DEF Sending
    <3>5. active' = active /\ since' = since
      BY <1>1
    <3> QED
      BY <3>3, <3>4, <3>5 DEF Covered
  <2>4. s \in sent \/ s = Sending(e)
    BY <1>1
  <2>5. Sending(e).module = e.module
    BY DEF Sending
  <2> QED
    BY <2>1, <2>2, <2>3, <2>4, <2>5
<1> QED
  BY <1>5, <1>6, <1>7, <1>8, <1>9, <1>10, <1>11 DEF EntriesInv

\* A start that leaves its module active: its entry is running afterwards, and
\* nothing else changes for any other.
LEMMA LastingStart ==
  ASSUME ScheduleInv, ~over, Separate, WindowInv', schedule' = schedule,
         NEW e \in agenda, Due(e), NEW j \in Posted(schedule), e = StartOf(j),
         Lasting(j), StartAttack(e), NEW E,
         now' = e.at, agenda' = (agenda \ {e}) \cup E,
         \A f \in E : f.run \notin {"start", "end"},
         \A f \in E : f.run = "stop" =>
           f.module = e.module /\ f.module \in Trains /\ f.at = Until(schedule[j]),
         \A f, g \in E : f.run = "stop" /\ g.run = "stop" => f = g,
         e.module \in Trains => \E f \in E : f.run = "stop",
         \A f \in E : f.run = "message" =>
           /\ f.module = e.module /\ f.module \in Trains /\ schedule[j].from <= f.at
           /\ \A g \in E : g.run = "stop" => ~Before(g, f),
         log' = log,
         sent' \subseteq sent \cup {Sending(e)},
         e.module \in Trains => sent' = sent
  PROVE  EntriesInv'
<1> DEFINE m == e.module
<1>1. ChainInv /\ QueueInv /\ EntriesInv /\ WindowInv /\ ClockInv
  BY DEF ScheduleInv, ChainInv, WindowInv
<1>2. /\ now \in Nat /\ e.at \in Nat /\ now <= e.at /\ m \in Modules
      /\ e.run = "start" /\ m = schedule[j].module /\ e.at = schedule[j].from
      /\ \A i \in Posted(schedule) : Until(schedule[i]) \in Nat
  BY <1>1, UntilTypes, ScheduleTypes DEF ChainInv, ClockInv, Proper, StartOf, Event
<1>3. \A i \in Posted(schedule) :
        Running(i) => DeviceOf[schedule[i].module] # DeviceOf[m] /\ schedule[i].module # m
  BY <1>1, <1>2, NoneAtStart
<1>4. ~active[m]
  BY <1>1, <1>2, <1>3 DEF EntriesInv, ActiveIsRunning
<1>5. /\ active' = [active EXCEPT ![m] = TRUE]
      /\ slot' = [slot EXCEPT ![DeviceOf[m]] = m]
      /\ since' = [since EXCEPT ![m] = e.at]
  BY <1>4 DEF StartAttack, Install
<1>6. \A f \in agenda : f.run = "stop" /\ f.module = m /\ m \in Trains => f.at # Until(schedule[j])
  BY <1>1, <1>2, NoStopAtStart
<1>7. \A i \in Posted(schedule) : i # j =>
        /\ StartOf(i) # e
        /\ schedule[i].module = m => Until(schedule[i]) # Until(schedule[j])
  <2> SUFFICES ASSUME NEW i \in Posted(schedule), i # j
               PROVE  /\ StartOf(i) # e
                      /\ schedule[i].module = m => Until(schedule[i]) # Until(schedule[j])
    OBVIOUS
  <2>1. i \in Nat /\ j \in Nat
    BY <1>1, ScheduleTypes DEF ChainInv
  <2>2. StartOf(i) # StartOf(j)
    BY <2>1 DEF StartOf, Event
  <2> QED
    BY <1>1, <1>2, <2>2, EntriesApart DEF ChainInv
<1>8. \A i \in Posted(schedule) : i # j =>
        /\ Closing(i)' = Closing(i)
        /\ (Started(i)' <=> Started(i)) /\ (Running(i)' <=> Running(i)) /\ (Done(i)' <=> Done(i))
  <2> SUFFICES ASSUME NEW i \in Posted(schedule), i # j
               PROVE  /\ Closing(i)' = Closing(i)
                      /\ (Started(i)' <=> Started(i)) /\ (Running(i)' <=> Running(i))
                      /\ (Done(i)' <=> Done(i))
    OBVIOUS
  <2>1. StartOf(i).run = "start" /\ StartOf(i) # e
    BY <1>7 DEF StartOf, Event
  <2>2. StartOf(i) \in agenda' <=> StartOf(i) \in agenda
    BY <2>1
  <2>3. \A f \in E :
          ~(f.run = "stop" /\ f.module = schedule[i].module /\ f.at = Until(schedule[i]))
    BY <1>7
  <2>4. Closing(i)' = Closing(i)
    BY <1>2, <2>3 DEF Closing, Until, TrainEnd
  <2> QED
    BY <2>2, <2>4, SameEntry
<1>9. ~Done(j) /\ ~Running(j)
  BY DEF Done, Running, Started
<1>10. Running(j)'
  <2>1. Started(j)'
    BY <1>2 DEF Started, StartOf
  <2>2. CASE m \in Trains
    <3>1. PICK f \in E : f.run = "stop"
      BY <2>2
    <3>2. f \in Closing(j)'
      BY <1>2, <3>1 DEF Closing, Until, TrainEnd
    <3> QED
      BY <2>1, <3>2 DEF Running, Lasting
  <2>3. CASE m \notin Trains
    <3>1. StopOf(j) \in agenda /\ StopOf(j).run = "stop"
      BY <1>1, <1>2, <2>3 DEF ChainInv, StopFollowsStart, StopOf, Event
    <3>2. StopOf(j) \in agenda' /\ StopOf(j).at = Until(schedule[j]) /\ StopOf(j).module = m
      BY <1>2, <2>3, <3>1 DEF StopOf, Event, Until, Lasting
    <3>3. StopOf(j) \in Closing(j)'
      BY <1>2, <3>1, <3>2 DEF Closing, Until, TrainEnd
    <3> QED
      BY <2>1, <3>3 DEF Running, Lasting
  <2> QED
    BY <2>2, <2>3
<1>11. ~Done(j)'
  BY <1>10 DEF Done, Running
<1>12. /\ active'[m] /\ slot'[DeviceOf[m]] = m /\ since'[m] = e.at
       /\ \A k \in Modules \ {m} : active'[k] = active[k] /\ since'[k] = since[k]
       /\ \A k \in Modules : DeviceOf[k] # DeviceOf[m] => slot'[DeviceOf[k]] = slot[DeviceOf[k]]
  BY <1>1, <1>2, <1>5 DEF ClockInv, QueueInv, SlotsAreDevices

<1>13. ActiveIsRunning'
  <2> SUFFICES ASSUME NEW k \in Modules, active'[k]
               PROVE  \E i \in Posted(schedule) : schedule[i].module = k /\ Running(i)'
    BY DEF ActiveIsRunning
  <2>1. CASE k = m
    BY <1>2, <1>10, <2>1
  <2>2. CASE k # m
    BY <1>1, <1>2, <1>8, <1>12, <2>2 DEF EntriesInv, ActiveIsRunning
  <2> QED
    BY <2>1, <2>2
<1>14. RunningIsInForce'
  <2> SUFFICES ASSUME NEW i \in Posted(schedule), Running(i)'
               PROVE  /\ active'[schedule[i].module]
                      /\ slot'[DeviceOf[schedule[i].module]] = schedule[i].module
                      /\ since'[schedule[i].module] = schedule[i].from
    BY DEF RunningIsInForce, InForce
  <2>1. CASE i = j
    BY <1>2, <1>12, <2>1
  <2>2. CASE i # j
    <3>1. Running(i) /\ schedule[i].module \in Modules
      BY <1>1, <1>8, <2>2, ScheduleTypes DEF ChainInv
    <3> QED
      BY <1>1, <1>3, <1>12, <3>1 DEF EntriesInv, RunningIsInForce, InForce
  <2> QED
    BY <2>1, <2>2
<1>15. StopsAreUnique'
  <2> SUFFICES ASSUME NEW f \in agenda', NEW g \in agenda',
                      f.run = "stop", g.run = "stop", f.module = g.module, f.at = g.at,
                      f.module \notin Singles
               PROVE  f = g
    BY DEF StopsAreUnique
  <2>1. ASSUME NEW x \in agenda, NEW y \in E, x.run = "stop", y.run = "stop",
               x.module = y.module, x.at = y.at
        PROVE  FALSE
    BY <1>6, <2>1
  <2>2. CASE f \in agenda /\ g \in agenda
    BY <1>1, <2>2 DEF EntriesInv, StopsAreUnique
  <2> QED
    BY <2>1, <2>2
<1>16. LogIsDone'
  <2>1. \A i \in Posted(schedule) : Done(i)' <=> Done(i)
    BY <1>8, <1>9, <1>11
  <2> QED
    BY <1>1, <2>1, LogStays DEF EntriesInv
<1>17. DoneIsPast'
  <2> SUFFICES ASSUME NEW i \in Posted(schedule), Done(i)'
               PROVE  Until(schedule[i]) <= now' /\ Fits(schedule[i])
    BY DEF DoneIsPast, Until, TrainEnd, Fits
  <2>1. Done(i)
    BY <1>8, <1>11
  <2> QED
    BY <1>1, <1>2, <2>1 DEF EntriesInv, DoneIsPast
<1>18. MessagesComeBefore'
  <2> SUFFICES ASSUME NEW f \in agenda', f.run = "message"
               PROVE  \E i \in Posted(schedule) :
                        /\ schedule[i].module = f.module /\ Running(i)'
                        /\ schedule[i].from <= f.at
                        /\ \A g \in Closing(i)' : ~Before(g, f)
    BY DEF MessagesComeBefore
  <2>1. CASE f \in agenda
    <3>1. PICK i \in Posted(schedule) :
            /\ schedule[i].module = f.module /\ Running(i) /\ schedule[i].from <= f.at
            /\ \A g \in Closing(i) : ~Before(g, f)
      BY <1>1, <2>1 DEF EntriesInv, MessagesComeBefore
    <3> QED
      BY <1>8, <1>9, <3>1
  <2>2. CASE f \in E
    <3>1. \A g \in Closing(j)' : g \in E /\ g.run = "stop"
      <4> SUFFICES ASSUME NEW g \in Closing(j)' PROVE g \in E /\ g.run = "stop"
        OBVIOUS
      <4>1. /\ g \in agenda' /\ g.run = "stop" /\ g.module = m
            /\ g.at = Until(schedule[j])
        BY <1>2 DEF Closing, Until, TrainEnd
      <4> QED
        BY <1>6, <2>2, <4>1
    <3> QED
      BY <1>2, <1>10, <2>2, <3>1
  <2> QED
    BY <2>1, <2>2
<1>19. EverythingIsCovered'
  <2> SUFFICES ASSUME NEW s \in sent' PROVE Covered(s)'
    BY DEF EverythingIsCovered
  <2>1. CASE s.module \notin Trains
    BY <2>1 DEF WindowInv, MessagesAreLabelled
  <2>2. CASE s \in sent
    <3>1. Covered(s)
      BY <1>1, <2>2 DEF EntriesInv, EverythingIsCovered
    <3>2. since \in [Modules -> Nat] /\ since' \in [Modules -> Nat]
          /\ active' \in [Modules -> BOOLEAN]
      BY <1>1 DEF WindowInv, ClockInv
    <3>3. \A k \in Modules \ {m} : active'[k] = active[k] /\ since'[k] = since[k]
      BY <1>12
    <3> QED
      BY <1>1, <1>2, <1>4, <2>2, <3>1, <3>2, <3>3, CoverStep
  <2>3. Sending(e).module = e.module
    BY DEF Sending
  <2>4. s \in sent \/ s.module \notin Trains
    BY <2>3
  <2> QED
    BY <2>1, <2>2, <2>4
<1> QED
  BY <1>13, <1>14, <1>15, <1>16, <1>17, <1>18, <1>19 DEF EntriesInv

\* An injection is done in the event that starts it.
LEMMA SingleEntry ==
  ASSUME ScheduleInv, ~over, Separate, WindowInv', schedule' = schedule,
         NEW e \in agenda, Due(e), NEW j \in Posted(schedule), e = StartOf(j),
         StartSingle(e)
  PROVE  EntriesInv'
<1> DEFINE m == e.module
<1>1. ChainInv /\ QueueInv /\ EntriesInv /\ WindowInv /\ ClockInv
  BY DEF ScheduleInv, ChainInv, WindowInv
<1>2. /\ now \in Nat /\ e.at \in Nat /\ now <= e.at /\ m \in Modules /\ m \in Singles
      /\ e.run = "start" /\ m = schedule[j].module /\ e.at = schedule[j].from
      /\ e.at = Until(schedule[j])
      /\ \A i \in Posted(schedule) : Until(schedule[i]) \in Nat
  <2>1. m \in Singles /\ m \notin Trains
    BY KindsAssumption DEF StartSingle
  <2> QED
    BY <1>1, <2>1, UntilTypes, ScheduleTypes
    DEF ChainInv, ClockInv, Proper, StartOf, Event, Until
<1>3. \A i \in Posted(schedule) :
        Running(i) => DeviceOf[schedule[i].module] # DeviceOf[m] /\ schedule[i].module # m
  BY <1>1, <1>2, NoneAtStart
<1>4. ~active[m]
  BY <1>1, <1>2, <1>3 DEF EntriesInv, ActiveIsRunning
<1>5. /\ active' = [active EXCEPT ![m] = FALSE]
      /\ slot' = [slot EXCEPT ![DeviceOf[m]] = m]
      /\ since' = [since EXCEPT ![m] = e.at]
      /\ now' = e.at /\ agenda' = agenda \ {e}
      /\ sent' = sent \cup {Sending(e)}
      /\ log' = log \cup {[module |-> m, from |-> since'[m], to |-> e.at]}
  BY <1>4 DEF StartSingle, Install, Posts, Send
<1>6. /\ active' = active /\ since'[m] = e.at
      /\ \A k \in Modules \ {m} : since'[k] = since[k]
      /\ \A k \in Modules : DeviceOf[k] # DeviceOf[m] => slot'[DeviceOf[k]] = slot[DeviceOf[k]]
  BY <1>1, <1>2, <1>4, <1>5 DEF ClockInv, QueueInv, SlotsAreDevices
<1>7. \A i \in Posted(schedule) : i # j =>
        /\ Closing(i)' = Closing(i)
        /\ (Started(i)' <=> Started(i)) /\ (Running(i)' <=> Running(i)) /\ (Done(i)' <=> Done(i))
  <2> SUFFICES ASSUME NEW i \in Posted(schedule), i # j
               PROVE  /\ Closing(i)' = Closing(i)
                      /\ (Started(i)' <=> Started(i)) /\ (Running(i)' <=> Running(i))
                      /\ (Done(i)' <=> Done(i))
    OBVIOUS
  <2>1. i \in Nat /\ j \in Nat
    BY <1>1, ScheduleTypes DEF ChainInv
  <2>2. StartOf(i) # e
    BY <2>1 DEF StartOf, Event
  <2>3. Closing(i)' = Closing(i)
    BY <1>2, <1>5 DEF Closing, Until, TrainEnd
  <2> QED
    BY <1>5, <2>2, <2>3, SameEntry
<1>8. Done(j)' /\ ~Running(j)' /\ ~Running(j)
  BY <1>2, <1>5 DEF Done, Running, Started, Lasting, StartOf
<1>9. ActiveIsRunning'
  BY <1>1, <1>6, <1>7, <1>8 DEF EntriesInv, ActiveIsRunning
<1>10. RunningIsInForce'
  <2> SUFFICES ASSUME NEW i \in Posted(schedule), Running(i)'
               PROVE  /\ active'[schedule[i].module]
                      /\ slot'[DeviceOf[schedule[i].module]] = schedule[i].module
                      /\ since'[schedule[i].module] = schedule[i].from
    BY DEF RunningIsInForce, InForce
  <2>1. Running(i) /\ schedule[i].module \in Modules
    BY <1>1, <1>7, <1>8, ScheduleTypes DEF ChainInv
  <2> QED
    BY <1>1, <1>3, <1>6, <2>1 DEF EntriesInv, RunningIsInForce, InForce
<1>11. StopsAreUnique'
  BY <1>1, <1>5 DEF EntriesInv, StopsAreUnique
<1>12. LogIsDone'
  <2>1. log' = log \cup {WindowOf(schedule[j])}
    BY <1>2, <1>5, <1>6 DEF WindowOf
  <2> QED
    BY <1>1, <1>7, <1>8, <2>1, LogGrows DEF EntriesInv
<1>13. DoneIsPast'
  <2> SUFFICES ASSUME NEW i \in Posted(schedule), Done(i)'
               PROVE  Until(schedule[i]) <= now' /\ Fits(schedule[i])
    BY DEF DoneIsPast, Until, TrainEnd, Fits
  <2>1. CASE i = j
    <3>1. e.at <= Duration
      BY <1>1, <1>2, DurationAssumption
      DEF QueueInv, EndIsPending, EndEvent, Event, Due, Before
    <3>2. schedule[j].module \notin Trains
      BY <1>2, KindsAssumption
    <3> QED
      BY <1>2, <1>5, <2>1, <3>1, <3>2, DurationAssumption DEF Fits
  <2>2. CASE i # j
    BY <1>1, <1>2, <1>5, <1>7, <2>2 DEF EntriesInv, DoneIsPast
  <2> QED
    BY <2>1, <2>2
<1>14. MessagesComeBefore'
  <2> SUFFICES ASSUME NEW f \in agenda', f.run = "message"
               PROVE  \E i \in Posted(schedule) :
                        /\ schedule[i].module = f.module /\ Running(i)'
                        /\ schedule[i].from <= f.at
                        /\ \A g \in Closing(i)' : ~Before(g, f)
    BY DEF MessagesComeBefore
  <2>1. PICK i \in Posted(schedule) :
          /\ schedule[i].module = f.module /\ Running(i) /\ schedule[i].from <= f.at
          /\ \A g \in Closing(i) : ~Before(g, f)
    BY <1>1, <1>5 DEF EntriesInv, MessagesComeBefore
  <2> QED
    BY <1>7, <1>8, <2>1
<1>15. EverythingIsCovered'
  <2> SUFFICES ASSUME NEW s \in sent' PROVE Covered(s)'
    BY DEF EverythingIsCovered
  <2>1. CASE s.module \notin Trains
    BY <2>1 DEF WindowInv, MessagesAreLabelled
  <2>2. CASE s \in sent
    <3>1. Covered(s) /\ s.module \in Modules
      BY <1>1, <2>2 DEF EntriesInv, EverythingIsCovered, ClockInv
    <3> QED
      BY <1>4, <1>5, <1>6, <3>1 DEF Covered
  <2>3. CASE s = Sending(e)
    <3>1. s.module = m
      BY <2>3 DEF Sending
    <3> QED
      BY <1>2, <2>1, <3>1, KindsAssumption
  <2> QED
    BY <1>5, <2>1, <2>2, <2>3
<1> QED
  BY <1>9, <1>10, <1>11, <1>12, <1>13, <1>14, <1>15 DEF EntriesInv

\* A stop ends the entry it belongs to; that of an injection finds it over.
LEMMA StopEntry ==
  ASSUME ScheduleInv, ~over, Separate, WindowInv', schedule' = schedule,
         NEW e \in agenda, Due(e), Stop(e)
  PROVE  EntriesInv'
<1> DEFINE m == e.module
<1>1. ChainInv /\ QueueInv /\ EntriesInv /\ WindowInv /\ ClockInv
  BY DEF ScheduleInv, ChainInv, WindowInv
<1>2. /\ now \in Nat /\ e.at \in Nat /\ now <= e.at /\ m \in Modules /\ e.run = "stop"
      /\ \A i \in Posted(schedule) : Until(schedule[i]) \in Nat
      /\ since' = since /\ slot' = slot /\ sent' = sent /\ now' = e.at
  BY <1>1, UntilTypes DEF ChainInv, ClockInv, Proper, Stop
<1>3. /\ agenda' \subseteq agenda \ {e}
      /\ \A f \in agenda : f # e /\ f.run # "wave" => f \in agenda'
  BY DEF Stop, Waves
<1>4. PICK j \in Posted(schedule) :
        /\ m = schedule[j].module
        /\ IF m \in Trains
           THEN /\ Started(j)
                /\ e.at = Until(schedule[j]) /\ e.uid > 2 * Len(schedule) + 2
           ELSE e = StopOf(j)
  BY <1>1, <1>2 DEF QueueInv, StopsAreEntries
<1>5. Started(j)
  <2>1. CASE m \notin Trains
    <3>1. /\ j \in Nat /\ schedule[j].from \in Nat /\ schedule[j].to \in Nat
          /\ schedule[j].from <= schedule[j].to
      BY <1>1, ScheduleTypes DEF ChainInv
    <3>2. e.at = schedule[j].to /\ e.uid = 2 * j + 1
      BY <1>4, <2>1 DEF StopOf, Event
    <3>3. ~Before(e, StartOf(j))
      BY <3>1, <3>2 DEF Before, StartOf, Event
    <3> QED
      BY <3>3 DEF Due, Started
  <2> QED
    BY <1>4, <2>1
<1>6. \A i \in Posted(schedule) : StartOf(i) \in agenda' <=> StartOf(i) \in agenda
  BY <1>2, <1>3 DEF StartOf, Event
<1>7. DoneIsPast /\ MessagesComeBefore /\ EverythingIsCovered
  BY <1>1 DEF EntriesInv
<1>8. StopsAreUnique'
  BY <1>1, <1>3 DEF EntriesInv, StopsAreUnique
<1>9. CASE m \in Singles
  <2>1. ~active[m]
    BY <1>1, <1>2, <1>9 DEF EntriesInv, ActiveIsRunning, Running, Lasting
  <2>2. active' = active /\ log' = log
    BY <2>1 DEF Stop, StopAttack
  <2>3. \A i \in Posted(schedule) : Lasting(i) => Closing(i)' = Closing(i)
    BY <1>3, <1>9 DEF Lasting, Closing, Until, TrainEnd
  <2>4. \A i \in Posted(schedule) :
          (Running(i)' <=> Running(i)) /\ (Done(i)' <=> Done(i))
    BY <1>6, <2>3, SameEntry
  <2>5. ActiveIsRunning' /\ RunningIsInForce'
    BY <1>1, <1>2, <2>2, <2>4 DEF EntriesInv, ActiveIsRunning, RunningIsInForce, InForce
  <2>6. LogIsDone'
    BY <1>1, <2>2, <2>4, LogStays DEF EntriesInv
  <2>7. DoneIsPast'
    <3> SUFFICES ASSUME NEW i \in Posted(schedule), Done(i)
                 PROVE  Until(schedule[i]) <= now' /\ Fits(schedule[i])
      BY <2>4 DEF DoneIsPast, Until, TrainEnd, Fits
    <3> QED
      BY <1>2, <1>7 DEF DoneIsPast
  <2>8. MessagesComeBefore'
    <3> SUFFICES ASSUME NEW f \in agenda', f.run = "message"
                 PROVE  \E i \in Posted(schedule) :
                          /\ schedule[i].module = f.module /\ Running(i)
                          /\ schedule[i].from <= f.at
                          /\ \A g \in Closing(i)' : ~Before(g, f)
      BY <2>4 DEF MessagesComeBefore
    <3> QED
      BY <1>3, <1>7, <2>3 DEF MessagesComeBefore, Running
  <2>9. EverythingIsCovered'
    BY <1>2, <1>7, <2>2, QuietCover DEF EverythingIsCovered
  <2> QED
    BY <1>8, <2>5, <2>6, <2>7, <2>8, <2>9 DEF EntriesInv
<1>10. CASE m \notin Singles
  <2>1. e.at = Until(schedule[j]) /\ e \in Closing(j) /\ Lasting(j) /\ Running(j)
    <3>1. e.at = Until(schedule[j])
      BY <1>4, <1>10 DEF StopOf, Event, Until
    <3> QED
      BY <1>2, <1>4, <1>5, <1>10, <3>1 DEF Closing, Lasting, Running
  <2>2. active[m] /\ since[m] = schedule[j].from
    BY <1>1, <1>4, <2>1 DEF EntriesInv, RunningIsInForce, InForce
  <2>3. /\ active' = [active EXCEPT ![m] = FALSE]
        /\ log' = log \cup {[module |-> m, from |-> since[m], to |-> e.at]}
        /\ log' = log \cup {WindowOf(schedule[j])}
    BY <1>4, <2>1, <2>2 DEF Stop, StopAttack, WindowOf
  <2>4. ~active'[m] /\ \A k \in Modules \ {m} : active'[k] = active[k]
    BY <1>1, <1>2, <2>3 DEF ClockInv
  <2>5. Closing(j)' = {}
    <3> SUFFICES ASSUME NEW f \in Closing(j)' PROVE FALSE
      OBVIOUS
    <3>1. /\ f \in agenda' /\ f.run = "stop" /\ f.module = m
          /\ f.at = Until(schedule[j])
      BY <1>4 DEF Closing, Until, TrainEnd
    <3>2. f = e
      BY <1>1, <1>2, <1>3, <1>10, <2>1, <3>1 DEF EntriesInv, StopsAreUnique
    <3> QED
      BY <1>3, <3>1, <3>2
  <2>6. \A i \in Posted(schedule) : i # j => Closing(i)' = Closing(i)
    <3> SUFFICES ASSUME NEW i \in Posted(schedule), i # j PROVE Closing(i)' = Closing(i)
      OBVIOUS
    <3>1. schedule[i].module = m => Until(schedule[i]) # e.at
      BY <1>1, <1>4, <2>1, EntriesApart DEF ChainInv
    <3> QED
      BY <1>3, <3>1 DEF Closing, Until, TrainEnd
  <2>7. \A i \in Posted(schedule) : i # j =>
          (Running(i)' <=> Running(i)) /\ (Done(i)' <=> Done(i))
    BY <1>6, <2>6, SameEntry
  <2>8. Done(j)' /\ ~Running(j)'
    <3>1. Started(j)'
      BY <1>5, <1>6 DEF Started, StartOf
    <3> QED
      BY <2>5, <3>1 DEF Done, Running
  <2>9. ActiveIsRunning'
    BY <1>1, <1>4, <2>4, <2>7 DEF EntriesInv, ActiveIsRunning
  <2>10. RunningIsInForce'
    <3> SUFFICES ASSUME NEW i \in Posted(schedule), Running(i)'
                 PROVE  /\ active'[schedule[i].module]
                        /\ slot'[DeviceOf[schedule[i].module]] = schedule[i].module
                        /\ since'[schedule[i].module] = schedule[i].from
      BY DEF RunningIsInForce, InForce
    <3>1. i # j /\ Running(i) /\ schedule[i].module \in Modules
      BY <1>1, <2>7, <2>8, ScheduleTypes DEF ChainInv
    <3>2. schedule[i].module # m
      BY <1>1, <1>4, <2>1, <3>1, RunningIsAlone
    <3> QED
      BY <1>1, <1>2, <2>4, <3>1, <3>2 DEF EntriesInv, RunningIsInForce, InForce
  <2>11. LogIsDone'
    BY <1>1, <2>3, <2>7, <2>8, LogGrows DEF EntriesInv
  <2>12. DoneIsPast'
    <3> SUFFICES ASSUME NEW i \in Posted(schedule), Done(i)'
                 PROVE  Until(schedule[i]) <= now' /\ Fits(schedule[i])
      BY DEF DoneIsPast, Until, TrainEnd, Fits
    <3>1. CASE i = j
      <4>1. e.at < Duration \/ (e.at = Duration /\ e.uid <= 2 * Len(schedule) + 2)
        BY <1>1 DEF QueueInv, EndIsPending, EndEvent, Event, Due, Before
      <4>2. e.uid \in Nat /\ Len(schedule) \in Nat
        BY <1>1, SchedulesAssumption DEF QueueInv, NumbersAreFresh, ChainInv
      <4>3. m \in Trains => e.at < Duration
        BY <1>4, <4>1, <4>2
      <4> QED
        BY <1>2, <1>4, <2>1, <3>1, <4>1, <4>3 DEF Fits
    <3>2. CASE i # j
      BY <1>2, <1>7, <2>7, <3>2 DEF DoneIsPast
    <3> QED
      BY <3>1, <3>2
  <2>13. MessagesComeBefore'
    <3> SUFFICES ASSUME NEW f \in agenda', f.run = "message"
                 PROVE  \E i \in Posted(schedule) :
                          /\ schedule[i].module = f.module /\ Running(i)'
                          /\ schedule[i].from <= f.at
                          /\ \A g \in Closing(i)' : ~Before(g, f)
      BY DEF MessagesComeBefore
    <3>1. PICK i \in Posted(schedule) :
            /\ schedule[i].module = f.module /\ Running(i) /\ schedule[i].from <= f.at
            /\ \A g \in Closing(i) : ~Before(g, f)
      BY <1>3, <1>7 DEF MessagesComeBefore
    <3>2. i # j
      BY <1>3, <2>1, <3>1 DEF Due
    <3> QED
      BY <2>6, <2>7, <3>1, <3>2
  <2>14. EverythingIsCovered'
    <3> SUFFICES ASSUME NEW s \in sent PROVE Covered(s)'
      BY <1>2 DEF EverythingIsCovered
    <3>1. Covered(s)
      BY <1>7 DEF EverythingIsCovered
    <3>2. since \in [Modules -> Nat] /\ since' \in [Modules -> Nat]
          /\ active' \in [Modules -> BOOLEAN]
      BY <1>1 DEF WindowInv, ClockInv
    <3>3. /\ \A k \in Modules \ {m} : active'[k] = active[k] /\ since'[k] = since[k]
          /\ log \subseteq log' /\ [module |-> m, from |-> since[m], to |-> e.at] \in log'
      BY <1>2, <2>3, <2>4
    <3> QED
      BY <1>1, <1>2, <3>1, <3>2, <3>3, CoverStep
  <2> QED
    BY <1>8, <2>9, <2>10, <2>11, <2>12, <2>13, <2>14 DEF EntriesInv
<1> QED
  BY <1>9, <1>10

-----------------------------------------------------------------------------
\* At the end, what is done is what fits: the queue still holds the end, so
\* nothing due before it is left.
LEMMA EndEntries ==
  ASSUME ScheduleInv, ~over, Separate, schedule' = schedule,
         NEW e \in agenda, Due(e), End(e)
  PROVE  FinalLog'
<1>1. ChainInv /\ QueueInv /\ EntriesInv /\ ClockInv
  BY DEF ScheduleInv, ChainInv, WindowInv
<1>2. e = EndEvent /\ active' = active /\ since' = since /\ log' = log /\ sent' = sent
  BY <1>1 DEF End, QueueInv, EndIsPending
<1>3. Len(schedule) \in Nat /\ e.at = Duration /\ e.uid = 2 * Len(schedule) + 2
  BY <1>1, <1>2, SchedulesAssumption DEF EndEvent, Event, ChainInv
<1>4. \A i \in Posted(schedule) : Done(i) <=> Fits(schedule[i])
  <2> SUFFICES ASSUME NEW i \in Posted(schedule), Fits(schedule[i]) PROVE Done(i)
    BY <1>1 DEF EntriesInv, DoneIsPast
  <2>1. /\ Until(schedule[i]) \in Nat /\ schedule[i].from <= Until(schedule[i])
        /\ i \in Nat /\ i <= Len(schedule) /\ schedule[i].from \in Nat
    BY <1>1, UntilTypes, ScheduleTypes DEF ChainInv
  <2>2. Started(i)
    <3>1. ~Before(e, StartOf(i))
      BY <1>3, <2>1, DurationAssumption DEF Before, StartOf, Event, Fits
    <3> QED
      BY <3>1 DEF Due, Started
  <2>3. ASSUME NEW f \in Closing(i), Lasting(i) PROVE FALSE
    <3>1. /\ f \in agenda /\ f.run = "stop" /\ f.module = schedule[i].module
          /\ f.at = Until(schedule[i])
      BY DEF Closing
    <3>2. Before(e, f)
      BY <3>1 DEF Due
    <3>3. f.module \notin Trains /\ f.at = Duration /\ 2 * Len(schedule) + 2 <= f.uid
      BY <1>3, <2>1, <3>1, <3>2, DurationAssumption DEF Before, Fits
    <3>4. PICK k \in Posted(schedule) : f = StopOf(k)
      BY <1>1, <3>1, <3>3 DEF QueueInv, StopsAreEntries
    <3>5. f.uid = 2 * k + 1 /\ k \in Nat /\ k <= Len(schedule)
      BY <1>1, <3>4, UntilTypes DEF StopOf, Event, ChainInv
    <3> QED
      BY <1>3, <3>3, <3>5
  <2> QED
    BY <2>2, <2>3 DEF Done
<1>5. log = {WindowOf(w) : w \in {v \in Planning : Fits(v)}}
  <2>1. {schedule[i] : i \in {k \in Posted(schedule) : Done(k)}} = {v \in Planning : Fits(v)}
    BY <1>4 DEF Planning
  <2>2. log = {WindowOf(w) : w \in {schedule[i] : i \in {k \in Posted(schedule) : Done(k)}}}
    BY <1>1 DEF EntriesInv, LogIsDone
  <2> QED
    BY <2>1, <2>2
<1>6. \A s \in sent' : Covered(s)'
  BY <1>1, <1>2, QuietCover DEF EntriesInv, EverythingIsCovered
<1> QED
  BY <1>2, <1>5, <1>6 DEF FinalLog, EverythingIsCovered, Planning, WindowOf, Fits, Until, TrainEnd

-----------------------------------------------------------------------------
LEMMA ScheduleInit == Init => ScheduleInv
<1> SUFFICES ASSUME Init PROVE ScheduleInv
  OBVIOUS
<1>1. ChainInv /\ QueueInv /\ ~over /\ schedule \in Schedules
  BY ChainInit, QueueInit DEF Init
<1>2. \A i \in Posted(schedule) : ~Started(i) /\ ~Running(i) /\ ~Done(i)
  BY DEF Init, Planned, Started, StartOf, Running, Done
<1>3. \A f \in agenda : f.run # "message" /\ (f.run = "stop" => f.module \notin Trains)
  BY DEF Init, Planned, Event
<1>4. ASSUME Separate PROVE StopsAreUnique
  <2> SUFFICES ASSUME NEW f \in agenda, NEW g \in agenda,
                      f.run = "stop", g.run = "stop", f.module = g.module, f.at = g.at,
                      f.module \notin Singles
               PROVE  f = g
    BY DEF StopsAreUnique
  <2>1. PICK i \in Posted(schedule) : f = StopOf(i) /\ f.module = schedule[i].module
    BY <1>1, <1>3 DEF QueueInv, StopsAreEntries
  <2>2. PICK j \in Posted(schedule) : g = StopOf(j) /\ g.module = schedule[j].module
    BY <1>1, <1>3 DEF QueueInv, StopsAreEntries
  <2>3. Until(schedule[i]) = f.at /\ Until(schedule[j]) = g.at
    BY <1>3, <2>1, <2>2 DEF Until, StopOf, Event
  <2>4. i = j
    BY <1>1, <1>4, <2>1, <2>2, <2>3, EntriesApart
  <2> QED
    BY <2>1, <2>2, <2>4
<1>5. LogIsDone
  <2>1. {j \in Posted(schedule) : Done(j)} = {}
    BY <1>2
  <2> QED
    BY <2>1 DEF LogIsDone, Init
<1>6. /\ ActiveIsRunning /\ RunningIsInForce /\ DoneIsPast /\ MessagesComeBefore
      /\ EverythingIsCovered
  BY <1>2, <1>3 DEF Init, ActiveIsRunning, RunningIsInForce, DoneIsPast, MessagesComeBefore,
                    EverythingIsCovered
<1> QED
  BY <1>1, <1>4, <1>5, <1>6 DEF ScheduleInv, EntriesInv

\* The condition is about the list alone.
LEMMA SeparateStays == schedule' = schedule => (Separate' <=> Separate)
BY DEF Separate, Apart, Until, Rest, TrainEnd

LEMMA ScheduleStart ==
  ASSUME ScheduleInv, ChainInv', schedule' = schedule, ~over,
         NEW e \in agenda, Due(e), Start(e)
  PROVE  QueueInv' /\ (Separate => EntriesInv')
<1>1. ChainInv /\ QueueInv /\ WindowInv' /\ e.run = "start"
  BY DEF ScheduleInv, ChainInv, Start
<1>2. PICK j \in Posted(schedule) : e = StartOf(j)
  BY <1>1 DEF ChainInv, StartsAreEntries
<1>3. /\ e.module = schedule[j].module /\ e.at = schedule[j].from /\ e.at \in Nat
      /\ uid \in Nat /\ uid > 2 * Len(schedule) + 2 /\ Len(schedule) \in Nat
  BY <1>1, <1>2, ScheduleTypes, SchedulesAssumption
  DEF StartOf, Event, ChainInv, QueueInv, NumbersAreFresh
<1>4. ASSUME NEW E, StartAttack(e), Posts(e, E), Lasting(j), log' = log,
             Cardinality(E) \in Nat,
             \A f \in E : f.run \notin {"start", "end"} /\ f.uid \in Nat,
             \A f \in E : f.run = "stop" =>
               /\ f.module = e.module /\ f.module \in Trains /\ f.at = Until(schedule[j])
               /\ f.uid > 2 * Len(schedule) + 2,
             \A f, g \in E : f.run = "stop" /\ g.run = "stop" => f = g,
             e.module \in Trains => \E f \in E : f.run = "stop",
             \A f \in E : f.run = "message" =>
               /\ f.module = e.module /\ f.module \in Trains /\ schedule[j].from <= f.at
               /\ \A g \in E : g.run = "stop" => ~Before(g, f),
             sent' \subseteq sent \cup {Sending(e)},
             e.module \in Trains => sent' = sent
      PROVE  QueueInv' /\ (Separate => EntriesInv')
  <2>1. now' = e.at /\ agenda' = (agenda \ {e}) \cup E /\ uid' = uid + Cardinality(E)
    BY <1>4 DEF Posts
  <2>2. DOMAIN slot' = DOMAIN slot
    BY <1>4 DEF StartAttack, Install
  <2>3. QueueInv'
    <3>1. uid' \in Nat /\ uid' >= uid
      BY <1>3, <1>4, <2>1
    <3>2. \A f \in E :
            /\ f.run \notin {"start", "end"} /\ f.uid \in Nat
            /\ f.run = "stop" =>
                 \E i \in Posted(schedule) :
                   /\ e = StartOf(i) /\ f.module = schedule[i].module /\ f.module \in Trains
                   /\ f.at = Until(schedule[i]) /\ f.uid > 2 * Len(schedule) + 2
      BY <1>2, <1>3, <1>4
    <3>3. agenda' \subseteq (agenda \ {e}) \cup E /\ e.run # "end"
      BY <1>1, <2>1
    <3>4. \A f \in agenda : f # e /\ f.run # "wave" => f \in agenda'
      BY <2>1
    <3> QED
      BY <1>1, <2>1, <2>2, <3>1, <3>2, <3>3, <3>4, QueueStep
  <2>4. ASSUME Separate PROVE EntriesInv'
    BY <1>1, <1>2, <1>4, <2>1, <2>4, LastingStart
  <2> QED
    BY <2>3, <2>4
<1>5. CASE StartSingle(e)
  <2> DEFINE E == {}
  <2>1. now' = e.at /\ agenda' = (agenda \ {e}) \cup E /\ uid' = uid
    BY <1>3, <1>5, FS_EmptySet DEF StartSingle, Posts
  <2>2. DOMAIN slot' = DOMAIN slot
    BY <1>5 DEF StartSingle, Install
  <2>3. QueueInv'
    <3>1. uid' \in Nat /\ uid' >= uid /\ e.run # "end"
      BY <1>1, <1>3, <2>1
    <3>2. agenda' \subseteq (agenda \ {e}) \cup E
      BY <2>1
    <3>3. \A f \in agenda : f # e /\ f.run # "wave" => f \in agenda'
      BY <2>1
    <3>4. \A f \in E :
            /\ f.run \notin {"start", "end"} /\ f.uid \in Nat
            /\ f.run = "stop" =>
                 \E i \in Posted(schedule) :
                   /\ e = StartOf(i) /\ f.module = schedule[i].module /\ f.module \in Trains
                   /\ f.at = Until(schedule[i]) /\ f.uid > 2 * Len(schedule) + 2
      OBVIOUS
    <3> HIDE DEF E
    <3> QED
      BY <1>1, <2>1, <2>2, <3>1, <3>2, <3>3, <3>4, QueueStep
  <2>4. ASSUME Separate PROVE EntriesInv'
    BY <1>1, <1>2, <1>5, <2>4, SingleEntry
  <2> QED
    BY <2>3, <2>4
<1>6. CASE StartFilter(e)
  <2> DEFINE E == {}
  <2>1. Lasting(j) /\ e.module \notin Trains
    BY <1>3, <1>6, KindsAssumption DEF Lasting, StartFilter
  <2>2. StartAttack(e) /\ Posts(e, E) /\ log' = log /\ sent' = sent
    BY <1>6 DEF StartFilter
  <2>3. Cardinality(E) \in Nat
    BY FS_EmptySet
  <2> QED
    BY <1>4, <2>1, <2>2, <2>3
<1>7. CASE StartFlood(e)
  <2> DEFINE E == {Event(e.at + Pause, uid, "run", e.module)}
  <2>1. Lasting(j) /\ e.module \notin Trains
    BY <1>3, <1>7, KindsAssumption DEF Lasting, StartFlood
  <2>2. /\ StartAttack(e) /\ Posts(e, E) /\ log' = log
        /\ sent' = sent \cup {Sending(e)}
    BY <1>7 DEF StartFlood, Send
  <2>3. Cardinality(E) \in Nat
    BY FS_Singleton
  <2>4. \A f \in E : f.run = "run" /\ f.uid \in Nat
    BY <1>3 DEF Event
  <2> HIDE DEF E
  <2> QED
    BY <1>4, <2>1, <2>2, <2>3, <2>4
<1>8. CASE StartJammer(e)
  <2> DEFINE E == IF Waves(e.module) = {} THEN {Event(e.at, uid, "wave", e.module)} ELSE {}
  <2>1. Lasting(j) /\ e.module \notin Trains
    BY <1>3, <1>8, KindsAssumption DEF Lasting, StartJammer
  <2>2. StartAttack(e) /\ Posts(e, E) /\ log' = log /\ sent' = sent
    BY <1>8 DEF StartJammer
  <2>3. Cardinality(E) \in Nat
    <3>1. Cardinality({Event(e.at, uid, "wave", e.module)}) \in Nat /\ Cardinality({}) \in Nat
      BY FS_Singleton, FS_EmptySet
    <3> QED
      BY <3>1
  <2>4. \A f \in E : f.run = "wave" /\ f.uid \in Nat
    BY <1>3 DEF Event
  <2> HIDE DEF E
  <2> QED
    BY <1>4, <2>1, <2>2, <2>3, <2>4
<1>9. CASE StartTrain(e)
  <2> DEFINE M == {Event(2 * e.at + i * Interval, uid + i, "message", e.module) :
                     i \in 0 .. Number - 1}
             stop == Event(TrainEnd(e.at), uid + Number, "stop", e.module)
             E == M \cup {stop}
  <2>1. Lasting(j) /\ e.module \in Trains
    BY <1>3, <1>9, KindsAssumption DEF Lasting, StartTrain
  <2>2. StartAttack(e) /\ Posts(e, E) /\ log' = log /\ sent' = sent
    BY <1>9 DEF StartTrain
  <2>3. Cardinality(E) \in Nat
    BY TrainIsFinite
  <2>4. /\ stop.run = "stop" /\ stop.module = e.module /\ stop.at = Until(schedule[j])
        /\ stop.uid = uid + Number /\ stop.uid \in Nat /\ stop.uid > 2 * Len(schedule) + 2
    BY <1>3, <2>1, TrainAssumption DEF Event, Until
  <2>5. \A f \in M :
          /\ f.run = "message" /\ f.module = e.module /\ f.uid \in Nat /\ e.at <= f.at
          /\ ~Before(stop, f)
    <3> SUFFICES ASSUME NEW i \in 0 .. Number - 1
                 PROVE  LET f == Event(2 * e.at + i * Interval, uid + i, "message", e.module)
                        IN  /\ f.run = "message" /\ f.module = e.module /\ f.uid \in Nat
                            /\ e.at <= f.at /\ ~Before(stop, f)
      OBVIOUS
    <3>1. i \in Nat /\ i < Number /\ Number \in Nat /\ Interval \in Nat
      BY TrainAssumption
    <3>2. i * Interval \in Nat /\ Number * Interval \in Nat /\ i * Interval <= Number * Interval
      BY <3>1
    <3>3. stop.at = 2 * e.at + Number * Interval
      BY <1>3, <3>2 DEF TrainEnd, Event
    <3> DEFINE f == Event(2 * e.at + i * Interval, uid + i, "message", e.module)
    <3>4. /\ f.run = "message" /\ f.module = e.module /\ f.uid = uid + i
          /\ f.at = 2 * e.at + i * Interval
      BY DEF Event
    <3> HIDE DEF f, stop
    <3> DEFINE x == i * Interval  y == Number * Interval
    <3>5. x \in Nat /\ y \in Nat /\ x <= y /\ f.at = 2 * e.at + x /\ stop.at = 2 * e.at + y
      BY <3>2, <3>3, <3>4
    <3> HIDE DEF x, y
    <3>6. f.uid \in Nat /\ e.at <= f.at /\ ~Before(stop, f)
      BY <1>3, <2>4, <3>1, <3>4, <3>5, SMTT(30) DEF Before
    <3> QED
      BY <3>4, <3>6 DEF f
  <2> HIDE DEF M, stop
  <2>6. \A f \in E : f \in M \/ f = stop
    OBVIOUS
  <2>7. \A f \in E : f.run \notin {"start", "end"} /\ f.uid \in Nat
    BY <2>4, <2>5
  <2>8. \A f \in E : f.run = "stop" => f = stop
    BY <2>5
  <2>9. stop \in E
    OBVIOUS
  <2>10. \A f \in E : f.run = "message" =>
           /\ f.module = e.module /\ f.module \in Trains /\ schedule[j].from <= f.at
           /\ \A g \in E : g.run = "stop" => ~Before(g, f)
    BY <1>3, <2>1, <2>4, <2>5, <2>8
  <2> HIDE DEF E
  <2> QED
    BY <1>4, <2>1, <2>2, <2>3, <2>4, <2>7, <2>8, <2>9, <2>10
<1> QED
  BY <1>5, <1>6, <1>7, <1>8, <1>9 DEF Start

\* The events that open and close no window and post at most one of their kind.
LEMMA ScheduleWork ==
  ASSUME ScheduleInv, ChainInv', schedule' = schedule, ~over,
         NEW e \in agenda, Due(e),
         RunAttack(e) \/ GenerateWaveform(e) \/ SendPosted(e)
  PROVE  QueueInv' /\ (Separate => EntriesInv')
<1>1. ChainInv /\ QueueInv /\ WindowInv' /\ uid \in Nat
  BY DEF ScheduleInv, ChainInv, QueueInv, NumbersAreFresh
<1>2. ASSUME NEW E, Posts(e, E), Cardinality(E) \in Nat,
             \A f \in E : f.run \in {"run", "wave"} /\ f.uid \in Nat
      PROVE  QueueInv' /\ (Separate => EntriesInv')
  <2>1. /\ now' = e.at /\ agenda' = (agenda \ {e}) \cup E /\ uid' = uid + Cardinality(E)
        /\ active' = active /\ since' = since /\ slot' = slot /\ log' = log
        /\ sent' \subseteq sent \cup {Sending(e)}
        /\ e.run \notin {"start", "stop", "end"}
    BY <1>2 DEF Posts, RunAttack, GenerateWaveform, SendPosted, Send
  <2>2. uid' \in Nat /\ uid' >= uid
    BY <1>1, <1>2, <2>1
  <2>3. \A f \in E : f.run \notin {"start", "stop", "end", "message"} /\ f.uid \in Nat
    BY <1>2
  <2>4. QueueInv'
    <3>1. agenda' \subseteq (agenda \ {e}) \cup E /\ e.run # "end"
          /\ DOMAIN slot' = DOMAIN slot
      BY <2>1
    <3>2. \A f \in agenda : f # e /\ f.run # "wave" => f \in agenda'
      BY <2>1
    <3>3. \A f \in E :
            /\ f.run \notin {"start", "end"} /\ f.uid \in Nat
            /\ f.run = "stop" =>
                 \E i \in Posted(schedule) :
                   /\ e = StartOf(i) /\ f.module = schedule[i].module /\ f.module \in Trains
                   /\ f.at = Until(schedule[i]) /\ f.uid > 2 * Len(schedule) + 2
      BY <2>3
    <3> QED
      BY <1>1, <2>1, <2>2, <3>1, <3>2, <3>3, QueueStep
  <2>5. ASSUME Separate PROVE EntriesInv'
    <3>1. \A f \in E : f.run \notin {"start", "stop", "end", "message"}
      BY <2>3
    <3> QED
      BY <1>1, <2>1, <2>5, <3>1, QuietStep
  <2> QED
    BY <2>4, <2>5
<1>3. CASE Posts(e, {})
  <2> DEFINE E == {}
  <2>1. Cardinality(E) \in Nat
    BY FS_EmptySet
  <2> QED
    BY <1>2, <1>3, <2>1
<1>4. CASE \E r \in {"run", "wave"} : Posts(e, {Event(e.at + Pause, uid, r, e.module)})
  <2>1. PICK r \in {"run", "wave"} : Posts(e, {Event(e.at + Pause, uid, r, e.module)})
    BY <1>4
  <2> DEFINE f == Event(e.at + Pause, uid, r, e.module)  E == {f}
  <2>2. Cardinality(E) \in Nat
    <3> HIDE DEF f
    <3> QED
      BY FS_Singleton
  <2>3. \A g \in E : g.run \in {"run", "wave"} /\ g.uid \in Nat
    BY <2>1, <1>1 DEF Event
  <2>4. Posts(e, E)
    BY <2>1
  <2> HIDE DEF E
  <2> QED
    BY <1>2, <2>2, <2>3, <2>4
<1> QED
  BY <1>3, <1>4 DEF RunAttack, GenerateWaveform, SendPosted

LEMMA ScheduleNext == ScheduleInv /\ [Next]_vars => ScheduleInv'
<1> SUFFICES ASSUME ScheduleInv, [Next]_vars PROVE ScheduleInv'
  OBVIOUS
<1>1. ChainInv /\ ChainInv'
  BY ChainNext DEF ScheduleInv
<1>2. CASE Next
  <2>1. PICK e \in agenda :
          /\ Due(e)
          /\ \/ Start(e) \/ Stop(e) \/ RunAttack(e) \/ GenerateWaveform(e)
             \/ SendPosted(e) \/ End(e)
          /\ schedule' = schedule
    BY <1>2 DEF Next
  <2>2. ~over /\ QueueInv /\ (Separate' <=> Separate)
    BY <1>1, <2>1, SeparateStays DEF ChainInv, ScheduleInv
  <2>3. CASE Start(e)
    <3>1. over' = over
      BY <2>3 DEF Start
    <3>2. QueueInv' /\ (Separate => EntriesInv')
      BY <1>1, <2>1, <2>2, <2>3, ScheduleStart
    <3> QED
      BY <1>1, <2>2, <3>1, <3>2 DEF ScheduleInv
  <2>4. CASE Stop(e)
    <3> DEFINE E == {}
    <3>1. /\ now' = e.at /\ over' = over /\ uid' = uid /\ slot' = slot /\ e.run = "stop"
          /\ agenda' \subseteq (agenda \ {e}) \cup E
          /\ \A f \in agenda : f # e /\ f.run # "wave" => f \in agenda'
      BY <2>4 DEF Stop, Waves
    <3>2. uid' \in Nat /\ uid' >= uid
      BY <2>2, <3>1 DEF QueueInv, NumbersAreFresh
    <3>3. \A f \in E :
            /\ f.run \notin {"start", "end"} /\ f.uid \in Nat
            /\ f.run = "stop" =>
                 \E i \in Posted(schedule) :
                   /\ e = StartOf(i) /\ f.module = schedule[i].module /\ f.module \in Trains
                   /\ f.at = Until(schedule[i]) /\ f.uid > 2 * Len(schedule) + 2
      OBVIOUS
    <3> HIDE DEF E
    <3>4. e.run # "end" /\ DOMAIN slot' = DOMAIN slot
      BY <3>1
    <3>5. QueueInv'
      BY <1>1, <2>1, <2>2, <3>1, <3>2, <3>3, <3>4, QueueStep
    <3>6. ASSUME Separate PROVE EntriesInv'
      BY <1>1, <2>1, <2>2, <2>4, <3>6, StopEntry DEF ChainInv
    <3> QED
      BY <1>1, <2>2, <3>1, <3>5, <3>6 DEF ScheduleInv
  <2>5. CASE RunAttack(e) \/ GenerateWaveform(e) \/ SendPosted(e)
    <3>1. over' = over
      BY <2>5 DEF RunAttack, GenerateWaveform, SendPosted
    <3>2. QueueInv' /\ (Separate => EntriesInv')
      BY <1>1, <2>1, <2>2, <2>5, ScheduleWork
    <3> QED
      BY <1>1, <2>2, <3>1, <3>2 DEF ScheduleInv
  <2>6. CASE End(e)
    <3>1. over'
      BY <2>6 DEF End
    <3>2. ASSUME Separate PROVE FinalLog'
      BY <2>1, <2>2, <2>6, <3>2, EndEntries
    <3> QED
      BY <1>1, <2>2, <3>1, <3>2 DEF ScheduleInv
  <2> QED
    BY <2>1, <2>3, <2>4, <2>5, <2>6
<1>3. CASE UNCHANGED vars
  <2>1. /\ schedule' = schedule /\ agenda' = agenda /\ over' = over /\ active' = active
        /\ now' = now /\ uid' = uid /\ since' = since /\ slot' = slot /\ sent' = sent
        /\ log' = log
    BY <1>3 DEF vars
  <2>2. Separate' <=> Separate
    BY <2>1, SeparateStays
  <2>3. QueueInv' <=> QueueInv
    BY <2>1 DEF QueueInv, NumbersAreFresh, StartsArePast, Started, StartOf, StopsAreEntries,
                StopOf, Until, TrainEnd, EndIsPending, EndEvent, SlotsAreDevices
  <2>4. \A i \in Posted(schedule) :
          /\ StartOf(i) \in agenda' <=> StartOf(i) \in agenda
          /\ Closing(i)' = Closing(i)
    BY <2>1 DEF Closing, Until, TrainEnd
  <2>5. \A i \in Posted(schedule) : (Running(i)' <=> Running(i)) /\ (Done(i)' <=> Done(i))
    BY <2>1, <2>4, SameEntry
  <2>6. ASSUME EntriesInv PROVE EntriesInv'
    <3>1. LogIsDone'
      BY <2>1, <2>5, <2>6, LogStays DEF EntriesInv
    <3>2. ActiveIsRunning' /\ RunningIsInForce' /\ StopsAreUnique'
      BY <2>1, <2>5, <2>6
      DEF EntriesInv, ActiveIsRunning, RunningIsInForce, InForce, StopsAreUnique
    <3>3. DoneIsPast'
      BY <2>1, <2>5, <2>6 DEF EntriesInv, DoneIsPast, Until, TrainEnd, Fits
    <3>4. MessagesComeBefore'
      BY <2>1, <2>4, <2>5, <2>6 DEF EntriesInv, MessagesComeBefore
    <3>5. EverythingIsCovered'
      BY <2>1, <2>6 DEF EntriesInv, EverythingIsCovered, Covered
    <3> QED
      BY <3>1, <3>2, <3>3, <3>4, <3>5 DEF EntriesInv
  <2>7. FinalLog' <=> FinalLog
    BY <2>1 DEF FinalLog, EverythingIsCovered, Covered, Planning, WindowOf, Fits, Until, TrainEnd
  <2> QED
    BY <1>1, <2>1, <2>2, <2>3, <2>6, <2>7 DEF ScheduleInv
<1> QED
  BY <1>2, <1>3

\* What the list says of every device, the entries that are skipped left out,
\* tells at each moment which modules are active and what is logged
\* (testbed.cc:453-608, attack-base.cc:15-39).
THEOREM ScheduleIsKept == Spec => []ScheduleInv
<1> QED
  BY ScheduleInit, ScheduleNext, PTL DEF Spec

\* Whatever the list and the setting, as long as the entries on one device that
\* are not skipped (Posted) lie apart: between events a module's hooks are in
\* force while one of these entries has work to do and at no other time, although
\* no StopAttack gives the slot back (attack-base.cc:15-39, testbed.cc:453-608).
\* An entry that is skipped has no hooks in force.
THEOREM HooksAreInForceAsScheduled == Spec => []HooksFollowSchedule
<1>1. ScheduleInv => HooksFollowSchedule
  <2> SUFFICES ASSUME ScheduleInv, Separate, Idle, ~over, NEW m \in Modules
               PROVE  InForce(m) <=>
                        \E w \in Planning : w.module = m /\ w.from <= now /\ now < Until(w)
    BY DEF HooksFollowSchedule
  <2>1. ChainInv /\ QueueInv /\ EntriesInv
    BY DEF ScheduleInv
  <2>2. ASSUME InForce(m)
        PROVE  \E w \in Planning : w.module = m /\ w.from <= now /\ now < Until(w)
    <3>1. PICK i \in Posted(schedule) : schedule[i].module = m /\ Running(i)
      BY <2>1, <2>2 DEF EntriesInv, ActiveIsRunning, InForce
    <3>2. PICK f \in agenda : f.at = Until(schedule[i])
      BY <3>1 DEF Running, Closing
    <3>3. schedule[i].from <= now
      BY <2>1, <3>1 DEF QueueInv, StartsArePast, Running
    <3>4. now < Until(schedule[i])
      <4>1. now \in Nat /\ Until(schedule[i]) \in Nat
        BY <2>1, UntilTypes DEF ChainInv, WindowInv, ClockInv
      <4> QED
        BY <3>2, <4>1 DEF Idle
    <3> QED
      BY <3>1, <3>3, <3>4 DEF Planning
  <2>3. ASSUME NEW w \in Planning, w.module = m, w.from <= now, now < Until(w)
        PROVE  InForce(m)
    <3>1. PICK i \in Posted(schedule) : w = schedule[i]
      BY DEF Planning
    <3>2. now \in Nat /\ schedule[i].from \in Nat /\ Until(schedule[i]) \in Nat
      BY <2>1, ScheduleTypes, UntilTypes DEF ChainInv, WindowInv, ClockInv
    <3>3. Started(i)
      BY <2>3, <3>1, <3>2 DEF Started, Idle, StartOf, Event
    <3>4. ~Done(i)
      BY <2>1, <2>3, <3>1, <3>2 DEF EntriesInv, DoneIsPast
    <3>5. Running(i)
      BY <3>3, <3>4 DEF Running, Done
    <3> QED
      BY <2>1, <2>3, <3>1, <3>5 DEF EntriesInv, RunningIsInForce
  <2> QED
    BY <2>2, <2>3
<1> QED
  BY <1>1, ScheduleIsKept, PTL

\* Whatever the list and the setting, as long as the entries on one device that
\* are not skipped (Posted) lie apart: at the end attacks.json holds exactly the
\* windows of those of them whose work fits, a train's up to the time its own
\* code computes, and every message sent lies in a logged or still open one, a
\* jammer's last waveform up to its length (attack-base.cc:29-39,
\* injection.cc:10-15, multi-injection.cc:10-24, testbed.cc:453-608).
THEOREM LabelsAreTheSchedule == Spec => []LogIsTheSchedule
<1>1. ScheduleInv => LogIsTheSchedule
  BY DEF ScheduleInv, FinalLog, LogIsTheSchedule, WindowOf, EverythingIsCovered
<1> QED
  BY <1>1, ScheduleIsKept, PTL
=============================================================================
