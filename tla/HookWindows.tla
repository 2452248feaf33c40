---------------------------- MODULE HookWindows ----------------------------
(* The modules that work on a device for a scheduled window of time          *)
(* (attacks/*.cc): StartAttack and StopAttack are events that testbed.cc     *)
(* posts for the entries of the runAttacks option that it does not skip, the *)
(* modules post further events of their own, and StopAttack writes the       *)
(* window to attacks.json, the labels of the data set.  Modules on one       *)
(* device share its hooks (slot).  The event queue is ns-3's: by time, then  *)
(* in the order of posting.  Contents of messages and descriptions are left  *)
(* out, and so is SpectrumAnalysis, which has neither hooks nor a window.    *)
EXTENDS Naturals, Sequences, FiniteSets
CONSTANTS
  Filters,   \* SuppressionAttack, MitM, ForcedHandover: nothing but a window
  Floods,    \* DoS, PGWFlooding: a message every Pause ticks
  Singles,   \* InjectionAttack: one message
  Trains,    \* MultiInjectionAttack: Number messages, Interval ticks apart
  Jammers,   \* Jammer: a waveform of its generator every Pause ticks
  DeviceOf,  \* [Modules -> device whose hooks the module takes]
  Wireless,  \* Jammer, PGWFlooding, ForcedHandover: skipped in a wired setting
  Once,      \* ForcedHandover: skipped after its first entry
  Using5G,   \* the setting
  Pause, Number, Interval,
  WaveLength,  \* how long a waveform lasts: period times duty cycle
  Duration,  \* length of the simulation
  Schedules  \* the values of the runAttacks option considered

Modules == Filters \cup Floods \cup Singles \cup Trains \cup Jammers
Entries == [module : Modules, from : Nat, to : Nat]

\* Every object of testbed.cc is of one class.
ASSUME KindsAssumption ==
  /\ Singles \cap (Filters \cup Floods \cup Trains \cup Jammers) = {}
  /\ Trains \cap (Filters \cup Floods \cup Jammers) = {}
ASSUME SettingAssumption ==
  Wireless \subseteq Modules /\ Once \subseteq Modules /\ Using5G \in BOOLEAN
ASSUME PauseAssumption == Pause \in Nat \ {0}
ASSUME WaveAssumption == WaveLength \in Nat
ASSUME TrainAssumption == Number \in Nat /\ Interval \in Nat
ASSUME DurationAssumption == Duration \in Nat
ASSUME SchedulesAssumption ==
  Schedules \subseteq {s \in Seq(Entries) : \A i \in DOMAIN s : s[i].from <= s[i].to}

VARIABLES
  schedule,  \* the runAttacks option of this simulation
  now,       \* time of the event that ran last
  agenda,    \* events posted and not yet run
  uid,       \* the number of the next event
  active,    \* m_active of every module
  since,     \* m_startTime of every module
  slot,      \* the module whose hooks the device calls
  sent,      \* what the modules sent, from when until when
  log,       \* attacks.json
  over       \* Simulator::Stop has run
vars == <<schedule, now, agenda, uid, active, since, slot, sent, log, over>>

Nobody == "nobody"
Event(at, n, run, m) == [at |-> at, uid |-> n, run |-> run, module |-> m]

\* The entries of list s that are not skipped.  (The background jammer is posted
\* like an entry at the end of a list that has no other of the jammer.)
Posted(s) ==
  {i \in DOMAIN s :
     /\ s[i].module \in Wireless => Using5G
     /\ s[i].module \in Once => \A j \in 1 .. i - 1 : s[j].module # s[i].module}

\* Both events of every such entry in the order of the list, then the end.  A
\* train is given no event for the end of its entry.
Planned(s) ==
  {Event(s[i].from, 2 * i, "start", s[i].module) : i \in Posted(s)}
  \cup {Event(s[i].to, 2 * i + 1, "stop", s[i].module) :
          i \in {j \in Posted(s) : s[j].module \notin Trains}}
  \cup {Event(Duration, 2 * Len(s) + 2, "end", Nobody)}

Init ==
  /\ schedule \in Schedules
  /\ now = 0
  /\ agenda = Planned(schedule)
  /\ uid = 2 * Len(schedule) + 3
  /\ active = [m \in Modules |-> FALSE]
  /\ since = [m \in Modules |-> 0]
  /\ slot = [d \in {DeviceOf[m] : m \in Modules} |-> Nobody]
  /\ sent = {}
  /\ log = {}
  /\ over = FALSE

-----------------------------------------------------------------------------
\* ns-3 runs the earliest event, of several the one posted first.
Before(e, f) == e.at < f.at \/ (e.at = f.at /\ e.uid <= f.uid)
Due(e) == \A f \in agenda : Before(e, f)

\* The event e has run and posted the events E, numbered from uid on.
Posts(e, E) ==
  /\ now' = e.at
  /\ agenda' = (agenda \ {e}) \cup E
  /\ uid' = uid + Cardinality(E)

\* What the event e sends: a message, or a waveform, which has a length.
Sending(e) ==
  [module |-> e.module, at |-> e.at,
   until |-> IF e.run = "wave" THEN e.at + WaveLength ELSE e.at]
Send(e) == sent' = sent \cup {Sending(e)}

\* AttackBase::StartAttack up to m_active; a module that is already active
\* keeps its start time and does not take the hooks again.
Install(e) ==
  IF active[e.module]
  THEN UNCHANGED <<slot, since>>
  ELSE /\ slot' = [slot EXCEPT ![DeviceOf[e.module]] = e.module]
       /\ since' = [since EXCEPT ![e.module] = e.at]

StartAttack(e) == Install(e) /\ active' = [active EXCEPT ![e.module] = TRUE]

StartFilter(e) ==
  /\ e.module \in Filters
  /\ StartAttack(e) /\ Posts(e, {}) /\ UNCHANGED <<sent, log>>

\* RunAttack is called even if the module was active.
StartFlood(e) ==
  /\ e.module \in Floods
  /\ StartAttack(e) /\ Send(e)
  /\ Posts(e, {Event(e.at + Pause, uid, "run", e.module)})
  /\ UNCHANGED log

\* Starts, sends and stops within one event.
StartSingle(e) ==
  /\ e.module \in Singles
  /\ Install(e) /\ active' = [active EXCEPT ![e.module] = FALSE]
  /\ Send(e)
  /\ log' = log \cup {[module |-> e.module, from |-> since'[e.module], to |-> e.at]}
  /\ Posts(e, {})

\* The delays are computed from Simulator::Now() and counted from it again.
\* (Mutant: the stop is counted once, as the entry's start suggests.)
TrainEndsEarly(start) == start + Number * Interval
TrainEnd(start) == start + (start + Number * Interval)

StartTrain(e) ==
  /\ e.module \in Trains
  /\ StartAttack(e)
  /\ Posts(e, {Event(2 * e.at + i * Interval, uid + i, "message", e.module) :
                 i \in 0 .. Number - 1}
              \cup {Event(TrainEnd(e.at), uid + Number, "stop", e.module)})
  /\ UNCHANGED <<sent, log>>

\* MmWaveJammingGenerator::Start: only if no waveform is pending (m_nextWave).
Waves(m) == {f \in agenda : f.run = "wave" /\ f.module = m}
StartJammer(e) ==
  /\ e.module \in Jammers
  /\ StartAttack(e)
  /\ Posts(e, IF Waves(e.module) = {} THEN {Event(e.at, uid, "wave", e.module)} ELSE {})
  /\ UNCHANGED <<sent, log>>

Start(e) ==
  /\ e.run = "start"
  /\ \/ StartFilter(e) \/ StartFlood(e) \/ StartSingle(e) \/ StartTrain(e) \/ StartJammer(e)
  /\ UNCHANGED over

\* AttackBase::StopAttack: the window is logged, the hooks stay installed.
\* (Mutants: logs whether or not the module is active; leaves it active.)
LogsAlways(m, t) ==
  /\ active' = [active EXCEPT ![m] = FALSE]
  /\ log' = log \cup {[module |-> m, from |-> since[m], to |-> t]}
StaysActive(m, t) ==
  /\ UNCHANGED active
  /\ log' = IF active[m] THEN log \cup {[module |-> m, from |-> since[m], to |-> t]} ELSE log
StopAttack(m, t) ==
  IF active[m]
  THEN /\ active' = [active EXCEPT ![m] = FALSE]
       /\ log' = log \cup {[module |-> m, from |-> since[m], to |-> t]}
  ELSE UNCHANGED <<active, log>>

\* A jammer's stop cancels its pending waveform as well, active or not; one that
\* is being sent goes on.
Stop(e) ==
  /\ e.run = "stop"
  /\ StopAttack(e.module, e.at)
  /\ now' = e.at
  /\ agenda' = agenda \ ({e} \cup IF e.module \in Jammers THEN Waves(e.module) ELSE {})
  /\ UNCHANGED <<uid, since, slot, sent, over>>

\* DoS::RunAttack, PGWFloodingAttack::RunAttack.  (Mutant: without the test.)
RunAttackAlways(e) ==
  /\ e.run = "run"
  /\ Send(e) /\ Posts(e, {Event(e.at + Pause, uid, "run", e.module)})
  /\ UNCHANGED <<active, since, slot, log, over>>
RunAttack(e) ==
  /\ e.run = "run"
  /\ IF active[e.module]
     THEN Send(e) /\ Posts(e, {Event(e.at + Pause, uid, "run", e.module)})
     ELSE Posts(e, {}) /\ UNCHANGED sent
  /\ UNCHANGED <<active, since, slot, log, over>>

\* MmWaveJammingGenerator::GenerateWaveform.
GenerateWaveform(e) ==
  /\ e.run = "wave"
  /\ Send(e) /\ Posts(e, {Event(e.at + Pause, uid, "wave", e.module)})
  /\ UNCHANGED <<active, since, slot, log, over>>

\* A message that a train posted: IndustrialDevice::SendModbusRequest.
SendPosted(e) ==
  /\ e.run = "message"
  /\ Send(e) /\ Posts(e, {})
  /\ UNCHANGED <<active, since, slot, log, over>>

\* Simulator::Stop: what is still in the queue never runs.
End(e) ==
  /\ e.run = "end"
  /\ now' = e.at /\ agenda' = {} /\ over' = TRUE
  /\ UNCHANGED <<uid, active, since, slot, sent, log>>

Next ==
  \E e \in agenda :
    /\ Due(e)
    /\ \/ Start(e) \/ Stop(e) \/ RunAttack(e) \/ GenerateWaveform(e) \/ SendPosted(e) \/ End(e)
    /\ UNCHANGED schedule

Spec == Init /\ [][Next]_vars

-----------------------------------------------------------------------------
\* When an entry's module has done its work.
Until(w) ==
  IF w.module \in Trains THEN TrainEnd(w.from)
  ELSE IF w.module \in Singles THEN w.from ELSE w.to

\* The entries of a device lie apart, those of a flood by more than its pause.
Rest(v, w) == IF v.module = w.module /\ v.module \in Floods THEN Pause ELSE 0
Apart(v, w) ==
  DeviceOf[v.module] = DeviceOf[w.module] =>
    Until(v) + Rest(v, w) < w.from \/ Until(w) + Rest(v, w) < v.from
Separate ==
  \A i, j \in Posted(schedule) : i # j => Apart(schedule[i], schedule[j])
Planning == {schedule[i] : i \in Posted(schedule)}

InForce(m) == active[m] /\ slot[DeviceOf[m]] = m
Idle == \A e \in agenda : e.at > now

\* How long a module's last sending may outlast the end of its window.
Overrun(m) == IF m \in Jammers THEN WaveLength ELSE 0

\* Whatever a module sends, except a train, begins in a window of that module
\* that is logged or still open, however the entries overlap, and a logged window
\* that it began in misses no more of it than the rest of a waveform: what a
\* jammer sends lasts up to WaveLength longer than its label, anything else lies
\* within (attack-base.cc, dos.cc, pgw-flooding.cc, injection.cc, jammer.cc and
\* the generator, whose stop cancels the next waveform only).
Covered(s) ==
  \/ active[s.module] /\ since[s.module] <= s.at
  \/ \E w \in log :
       w.module = s.module /\ w.from <= s.at /\ s.at <= w.to
       /\ s.until <= w.to + Overrun(s.module)
MessagesAreLabelled == \A s \in sent : s.module \notin Trains => Covered(s)

\* The next three are about the entries that are not skipped (Posted): of the
\* list itself they say nothing where testbed.cc skips an entry of it.

\* If entries lie apart, a module's hooks are in force exactly while one of its
\* entries has work to do: no other module's hooks are left in its way and its
\* own do not outlast it (the slot is never given back).
HooksFollowSchedule ==
  Separate /\ Idle /\ ~over =>
    \A m \in Modules :
      InForce(m) <=> \E w \in Planning : w.module = m /\ w.from <= now /\ now < Until(w)

\* If entries lie apart, a flood never has two chains of RunAttack events,
\* which would double its rate (RunAttack is called without a test).
OneChain ==
  Separate => \A m \in Floods : Cardinality({e \in agenda : e.run = "run" /\ e.module = m}) <= 1

\* The entry's work ends within the simulation.  At its last moment the entry's
\* own stop, posted before the end, still runs; the stop of a train does not.
Fits(w) == Until(w) < Duration \/ (Until(w) = Duration /\ w.module \notin Trains)

\* If entries lie apart, the log holds at the end one window for every entry
\* whose work fits into the simulation, and no other; also for a train, whose
\* messages all lie within its window.
LogIsTheSchedule ==
  Separate /\ over =>
    /\ log = {[module |-> w.module, from |-> w.from, to |-> Until(w)] :
                w \in {v \in Planning : Fits(v)}}
    /\ \A s \in sent : Covered(s)
=============================================================================
