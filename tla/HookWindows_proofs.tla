------------------------- MODULE HookWindows_proofs -------------------------
(* Whatever the list of windows, all that is not a train's begins in a       *)
(* logged or open window of its module, and outlasts it by no more than the  *)
(* rest of a jammer's waveform.  A waveform is sent without                  *)
(* looking at m_active, so the invariant must say that one is pending only   *)
(* while its jammer is active; the rest is about the clock: nothing in the   *)
(* queue lies in the past, and nothing sent or started lies in the future.   *)
EXTENDS HookWindows, FiniteSetTheorems, TLAPS

Runs == {"start", "stop", "run", "wave", "message", "end"}

\* An event is posted for a module of the class that handles it.
Proper(e) ==
  /\ e.at \in Nat
  /\ e.run \in Runs
  /\ e.run # "end" => e.module \in Modules
  /\ e.run = "run" => e.module \in Floods
  /\ e.run = "wave" => e.module \in Jammers
  /\ e.run = "message" => e.module \in Trains

ClockInv ==
  /\ now \in Nat
  /\ active \in [Modules -> BOOLEAN]
  /\ since \in [Modules -> Nat]
  /\ \A e \in agenda : Proper(e) /\ now <= e.at
  /\ \A m \in Modules : active[m] => since[m] <= now
  /\ \A s \in sent :
       /\ s.module \in Modules /\ s.at \in Nat /\ s.at <= now
       /\ s.until \in Nat /\ s.until <= s.at + Overrun(s.module)

WavesAreActive == \A e \in agenda : e.run = "wave" => active[e.module]

WindowInv == ClockInv /\ WavesAreActive /\ MessagesAreLabelled

\* At the beginning only the entries' own events and the end are posted.
LEMMA PlannedIsProper ==
  ASSUME NEW s \in Schedules
  PROVE  \A e \in Planned(s) : Proper(e) /\ e.run # "wave"
<1>1. s \in Seq(Entries) /\ \A i \in Posted(s) : s[i] \in Entries
  BY SchedulesAssumption DEF Posted
<1> QED
  BY <1>1, DurationAssumption DEF Planned, Event, Proper, Runs, Entries

\* What an event sends begins with it, and only a waveform outlasts it.
LEMMA SendingFacts ==
  ASSUME NEW e, Proper(e)
  PROVE  /\ Sending(e).module = e.module /\ Sending(e).at = e.at
         /\ Sending(e).until \in Nat /\ Sending(e).until <= e.at + Overrun(e.module)
<1>1. e.at \in Nat /\ WaveLength \in Nat /\ (e.run = "wave" => e.module \in Jammers)
  BY WaveAssumption DEF Proper
<1> QED
  BY <1>1 DEF Sending, Overrun

LEMMA WindowInit == Init => WindowInv
<1> SUFFICES ASSUME Init PROVE WindowInv
  OBVIOUS
<1>1. \A e \in agenda : Proper(e) /\ e.run # "wave"
  BY PlannedIsProper DEF Init
<1>2. \A e \in agenda : 0 <= e.at
  BY <1>1 DEF Proper
<1> QED
  BY <1>1, <1>2 DEF Init, WindowInv, ClockInv, WavesAreActive, MessagesAreLabelled

-----------------------------------------------------------------------------
\* What StartAttack does to the windows: the module's start time does not move
\* while it is active, and is now otherwise.
LEMMA InstallStep ==
  ASSUME ClockInv, NEW e \in agenda, e.module \in Modules, Install(e)
  PROVE  /\ since' \in [Modules -> Nat]
         /\ since'[e.module] \in Nat /\ since'[e.module] <= e.at
         /\ active[e.module] => since' = since
         /\ \A m \in Modules \ {e.module} : since'[m] = since[m]
<1>1. e.at \in Nat /\ now <= e.at /\ now \in Nat /\ since \in [Modules -> Nat]
  BY DEF ClockInv, Proper
<1>2. CASE active[e.module]
  <2>1. since' = since
    BY <1>2 DEF Install
  <2>2. since[e.module] \in Nat /\ since[e.module] <= now
    BY <1>1, <1>2 DEF ClockInv
  <2> QED
    BY <1>1, <2>1, <2>2
<1>3. CASE ~active[e.module]
  BY <1>1, <1>3 DEF Install
<1> QED
  BY <1>2, <1>3

\* A message stays covered when its module's window is opened, kept, or closed
\* into the log.
LEMMA CoverStep ==
  ASSUME WindowInv, NEW m \in Modules, NEW t \in Nat, now <= t,
         since \in [Modules -> Nat], since' \in [Modules -> Nat],
         active' \in [Modules -> BOOLEAN],
         log \subseteq log',
         \A k \in Modules \ {m} : active'[k] = active[k] /\ since'[k] = since[k],
         active[m] => \/ active'[m] /\ since'[m] = since[m]
                      \/ [module |-> m, from |-> since[m], to |-> t] \in log'
  PROVE  \A s \in sent : Covered(s) => Covered(s)'
<1> SUFFICES ASSUME NEW s \in sent, Covered(s) PROVE Covered(s)'
  OBVIOUS
<1>1. /\ s.module \in Modules /\ s.at \in Nat /\ s.at <= now /\ now \in Nat
      /\ s.until \in Nat /\ s.until <= s.at + Overrun(s.module)
  BY DEF WindowInv, ClockInv
<1>2. CASE \E w \in log : /\ w.module = s.module /\ w.from <= s.at /\ s.at <= w.to
                         /\ s.until <= w.to + Overrun(s.module)
  BY <1>2 DEF Covered
<1>3. CASE active[s.module] /\ since[s.module] <= s.at
  <2>1. CASE s.module # m
    BY <1>1, <1>3, <2>1 DEF Covered
  <2>2. CASE s.module = m /\ active'[m] /\ since'[m] = since[m]
    BY <1>3, <2>2 DEF Covered
  <2>3. CASE s.module = m /\ [module |-> m, from |-> since[m], to |-> t] \in log'
    <3>0. Overrun(s.module) \in Nat
      BY WaveAssumption DEF Overrun
    <3>1. s.at <= t /\ s.until <= t + Overrun(s.module)
      BY <1>1, <3>0
    <3> DEFINE w == [module |-> m, from |-> since[m], to |-> t]
    <3>2. /\ w \in log' /\ w.module = s.module /\ w.from <= s.at /\ s.at <= w.to
          /\ s.until <= w.to + Overrun(s.module)
      BY <1>3, <2>3, <3>1
    <3> QED
      BY <3>2 DEF Covered
  <2> QED
    BY <1>3, <2>1, <2>2, <2>3
<1> QED
  BY <1>1, <1>2, <1>3 DEF Covered

\* The queue and the clock after an event: what was posted lies not before it.
LEMMA PostsStep ==
  ASSUME ClockInv, NEW e \in agenda, Due(e), NEW E,
         now' = e.at, agenda' \subseteq (agenda \ {e}) \cup E,
         \A f \in E : Proper(f) /\ e.at <= f.at
  PROVE  /\ now' \in Nat /\ now <= now'
         /\ \A f \in agenda' : Proper(f) /\ now' <= f.at
<1>1. now \in Nat /\ e.at \in Nat /\ now <= e.at
  BY DEF ClockInv, Proper
<1>2. \A f \in agenda : Proper(f) /\ e.at <= f.at
  BY <1>1 DEF ClockInv, Due, Before, Proper
<1> QED
  BY <1>1, <1>2

-----------------------------------------------------------------------------
\* Every StartAttack that leaves its module active.
LEMMA OpenStep ==
  ASSUME WindowInv, NEW e \in agenda, Due(e), e.run = "start", StartAttack(e), NEW E,
         now' = e.at, agenda' = (agenda \ {e}) \cup E,
         \A f \in E : Proper(f) /\ e.at <= f.at /\ (f.run = "wave" => f.module = e.module),
         sent' \subseteq sent \cup {Sending(e)}, log' = log
  PROVE  WindowInv'
<1>1. ClockInv /\ e.at \in Nat /\ now <= e.at /\ now \in Nat /\ e.module \in Modules
  BY DEF WindowInv, ClockInv, Proper
<1>2. Install(e) /\ active' = [active EXCEPT ![e.module] = TRUE]
  BY DEF StartAttack
<1>3. /\ since' \in [Modules -> Nat] /\ since'[e.module] <= e.at
      /\ active[e.module] => since' = since
      /\ \A m \in Modules \ {e.module} : since'[m] = since[m]
  BY <1>1, <1>2, InstallStep
<1>4. /\ active' \in [Modules -> BOOLEAN] /\ active'[e.module]
      /\ \A m \in Modules \ {e.module} : active'[m] = active[m]
  BY <1>1, <1>2 DEF ClockInv
<1>5. now' \in Nat /\ \A f \in agenda' : Proper(f) /\ now' <= f.at
  <2>1. agenda' \subseteq (agenda \ {e}) \cup E
    OBVIOUS
  <2>2. \A f \in E : Proper(f) /\ e.at <= f.at
    OBVIOUS
  <2> QED
    BY <1>1, <2>1, <2>2, PostsStep
<1>6. \A m \in Modules : active'[m] => since'[m] <= now'
  <2> SUFFICES ASSUME NEW m \in Modules, active'[m] PROVE since'[m] <= e.at
    OBVIOUS
  <2>1. CASE m = e.module
    BY <1>3, <2>1
  <2>2. CASE m # e.module
    <3>1. since[m] <= now /\ since[m] \in Nat /\ since'[m] = since[m]
      BY <1>3, <1>4, <2>2 DEF WindowInv, ClockInv
    <3> QED
      BY <1>1, <3>1
  <2> QED
    BY <2>1, <2>2
<1>7. \A s \in sent' :
        /\ s.module \in Modules /\ s.at \in Nat /\ s.at <= now'
        /\ s.until \in Nat /\ s.until <= s.at + Overrun(s.module)
  BY <1>1, SendingFacts DEF ClockInv
<1>8. ClockInv'
  BY <1>3, <1>4, <1>5, <1>6, <1>7 DEF ClockInv, Proper
<1>9. WavesAreActive'
  BY <1>1, <1>4, <1>5 DEF WavesAreActive, WindowInv, ClockInv, Proper
<1>10. \A s \in sent : s.module \notin Trains => Covered(s)'
  <2>1. log \subseteq log' /\ since \in [Modules -> Nat]
    BY <1>1 DEF ClockInv
  <2>2. active[e.module] => active'[e.module] /\ since'[e.module] = since[e.module]
    BY <1>3, <1>4
  <2>3. e.at \in Nat /\ now <= e.at /\ e.module \in Modules
    BY <1>1
  <2>4. /\ since' \in [Modules -> Nat] /\ active' \in [Modules -> BOOLEAN]
        /\ \A k \in Modules \ {e.module} : active'[k] = active[k] /\ since'[k] = since[k]
    BY <1>3, <1>4
  <2>5. \A s \in sent : Covered(s) => Covered(s)'
    BY <2>1, <2>2, <2>3, <2>4, CoverStep
  <2> QED
    BY <2>5 DEF WindowInv, MessagesAreLabelled
<1>11. MessagesAreLabelled'
  <2> SUFFICES ASSUME NEW s \in sent', s.module \notin Trains PROVE Covered(s)'
    BY DEF MessagesAreLabelled
  <2>1. CASE s \in sent
    BY <1>10, <2>1
  <2>2. CASE s = Sending(e)
    BY <1>1, <1>3, <1>4, <2>2, SendingFacts DEF Covered, ClockInv
  <2> QED
    BY <2>1, <2>2
<1> QED
  BY <1>8, <1>9, <1>11 DEF WindowInv

\* An injection: its window is closed at once.
LEMMA SingleStep ==
  ASSUME WindowInv, NEW e \in agenda, Due(e), e.run = "start", StartSingle(e)
  PROVE  WindowInv'
<1> DEFINE m == e.module
           entry == [module |-> m, from |-> since'[m], to |-> e.at]
<1>1. ClockInv /\ e.at \in Nat /\ now <= e.at /\ now \in Nat /\ m \in Modules
  BY DEF WindowInv, ClockInv, Proper
<1>2. /\ Install(e) /\ active' = [active EXCEPT ![m] = FALSE]
      /\ now' = e.at /\ agenda' \subseteq agenda
      /\ sent' = sent \cup {Sending(e)} /\ log' = log \cup {entry}
  BY DEF StartSingle, Posts, Send
<1>3. /\ since' \in [Modules -> Nat] /\ since'[m] <= e.at /\ since'[m] \in Nat
      /\ active[m] => since' = since
      /\ \A k \in Modules \ {m} : since'[k] = since[k]
  BY <1>1, <1>2, InstallStep
<1>4. /\ active' \in [Modules -> BOOLEAN] /\ ~active'[m]
      /\ \A k \in Modules \ {m} : active'[k] = active[k]
  BY <1>1, <1>2 DEF ClockInv
<1>5. now' \in Nat /\ \A f \in agenda' : Proper(f) /\ now' <= f.at
  <2> DEFINE E == {}
  <2>1. agenda' \subseteq (agenda \ {e}) \cup E
    BY DEF StartSingle, Posts
  <2>2. \A f \in E : Proper(f) /\ e.at <= f.at
    OBVIOUS
  <2> HIDE DEF m, entry, E
  <2> QED
    BY <1>1, <1>2, <2>1, <2>2, PostsStep
<1>6. \A k \in Modules : active'[k] => since'[k] <= now'
  <2> SUFFICES ASSUME NEW k \in Modules, active'[k] PROVE since'[k] <= e.at
    BY <1>2
  <2>1. since[k] <= now /\ since[k] \in Nat /\ since'[k] = since[k]
    BY <1>3, <1>4 DEF WindowInv, ClockInv
  <2> QED
    BY <1>1, <2>1
<1>7. \A s \in sent' :
        /\ s.module \in Modules /\ s.at \in Nat /\ s.at <= now'
        /\ s.until \in Nat /\ s.until <= s.at + Overrun(s.module)
  BY <1>1, <1>2, SendingFacts DEF ClockInv
<1>8. ClockInv'
  BY <1>3, <1>4, <1>5, <1>6, <1>7 DEF ClockInv, Proper
<1>9. WavesAreActive'
  <2>1. m \notin Jammers
    BY KindsAssumption DEF StartSingle
  <2>2. \A f \in agenda' : f \in agenda /\ Proper(f)
    BY <1>2, <1>5
  <2> QED
    BY <1>4, <2>1, <2>2 DEF WavesAreActive, WindowInv, Proper, Modules
<1>10. \A s \in sent : s.module \notin Trains => Covered(s)'
  <2>1. log \subseteq log' /\ since \in [Modules -> Nat]
    BY <1>1, <1>2 DEF ClockInv
  <2>2. active[m] => [module |-> m, from |-> since[m], to |-> e.at] \in log'
    BY <1>2, <1>3
  <2> QED
    BY <1>1, <1>3, <1>4, <2>1, <2>2, CoverStep DEF WindowInv, MessagesAreLabelled
<1>11. MessagesAreLabelled'
  <2> SUFFICES ASSUME NEW s \in sent', s.module \notin Trains PROVE Covered(s)'
    BY DEF MessagesAreLabelled
  <2>1. CASE s \in sent
    BY <1>10, <2>1
  <2>2. CASE s = Sending(e)
    <3>1. s.module = m /\ s.at = e.at /\ s.until <= e.at + Overrun(s.module)
      BY <1>1, <2>2, SendingFacts DEF ClockInv
    <3>2. /\ entry \in log' /\ entry.module = s.module /\ entry.from <= s.at
          /\ s.at <= entry.to /\ s.until <= entry.to + Overrun(s.module)
      BY <1>1, <1>2, <1>3, <3>1
    <3> QED
      BY <3>2 DEF Covered
  <2> QED
    BY <1>2, <2>1, <2>2
<1> QED
  BY <1>8, <1>9, <1>11 DEF WindowInv

\* The five classes of modules.
LEMMA StartStep ==
  ASSUME WindowInv, NEW e \in agenda, Due(e), Start(e)
  PROVE  WindowInv'
<1>1. e.at \in Nat /\ e.module \in Modules /\ e.run = "start"
  BY DEF WindowInv, ClockInv, Proper, Start
<1>2. CASE StartFilter(e)
  <2> DEFINE E == {}
  <2>1. /\ StartAttack(e) /\ now' = e.at /\ agenda' = (agenda \ {e}) \cup E
        /\ sent' = sent /\ log' = log
    BY <1>2 DEF StartFilter, Posts
  <2>2. \A f \in E : Proper(f) /\ e.at <= f.at /\ (f.run = "wave" => f.module = e.module)
    OBVIOUS
  <2>3. sent' \subseteq sent \cup {Sending(e)}
    BY <2>1
  <2> HIDE DEF E
  <2> QED
    BY <1>1, <2>1, <2>2, <2>3, OpenStep
<1>3. CASE StartFlood(e)
  <2> DEFINE E == {Event(e.at + Pause, uid, "run", e.module)}
  <2>1. /\ StartAttack(e) /\ now' = e.at /\ agenda' = (agenda \ {e}) \cup E
        /\ sent' = sent \cup {Sending(e)} /\ log' = log
    BY <1>3 DEF StartFlood, Posts, Send
  <2>2. \A f \in E : Proper(f) /\ e.at <= f.at /\ (f.run = "wave" => f.module = e.module)
    BY <1>1, <1>3, PauseAssumption DEF Event, Proper, Runs, StartFlood
  <2> HIDE DEF E
  <2> QED
    BY <1>1, <2>1, <2>2, OpenStep
<1>4. CASE StartSingle(e)
  BY <1>1, <1>4, SingleStep
<1>5. CASE StartTrain(e)
  <2> DEFINE E == {Event(2 * e.at + i * Interval, uid + i, "message", e.module) :
                     i \in 0 .. Number - 1}
                  \cup {Event(TrainEnd(e.at), uid + Number, "stop", e.module)}
  <2>1. /\ StartAttack(e) /\ now' = e.at /\ agenda' = (agenda \ {e}) \cup E
        /\ sent' = sent /\ log' = log
    BY <1>5 DEF StartTrain, Posts
  <2>2. \A i \in Nat : i * Interval \in Nat
    BY TrainAssumption
  <2>3. \A i \in Nat : 2 * e.at + i * Interval \in Nat /\ e.at <= 2 * e.at + i * Interval
    BY <1>1, <2>2
  <2>4. TrainEnd(e.at) \in Nat /\ e.at <= TrainEnd(e.at)
    <3>1. Number * Interval \in Nat
      BY <2>2, TrainAssumption
    <3> QED
      BY <1>1, <3>1 DEF TrainEnd
  <2>5. \A f \in E : Proper(f) /\ e.at <= f.at /\ (f.run = "wave" => f.module = e.module)
    <3> SUFFICES ASSUME NEW f \in E
                 PROVE  Proper(f) /\ e.at <= f.at /\ (f.run = "wave" => f.module = e.module)
      OBVIOUS
    <3>1. CASE \E i \in 0 .. Number - 1 :
                 f = Event(2 * e.at + i * Interval, uid + i, "message", e.module)
      <4>1. PICK i \in 0 .. Number - 1 :
               f = Event(2 * e.at + i * Interval, uid + i, "message", e.module)
        BY <3>1
      <4>2. f.at = 2 * e.at + i * Interval /\ f.run = "message" /\ f.module = e.module
        BY <4>1 DEF Event
      <4>3. i \in Nat
        BY TrainAssumption
      <4>4. f.at \in Nat /\ e.at <= f.at
        BY <2>3, <4>2, <4>3
      <4> QED
        BY <1>1, <1>5, <4>2, <4>4 DEF Proper, Runs, StartTrain
    <3>2. CASE f = Event(TrainEnd(e.at), uid + Number, "stop", e.module)
      BY <1>1, <2>4, <3>2 DEF Event, Proper, Runs
    <3> QED
      BY <3>1, <3>2
  <2> HIDE DEF E
  <2> QED
    BY <1>1, <2>1, <2>5, OpenStep
<1>6. CASE StartJammer(e)
  <2> DEFINE E == IF Waves(e.module) = {} THEN {Event(e.at, uid, "wave", e.module)} ELSE {}
  <2>1. /\ StartAttack(e) /\ now' = e.at /\ agenda' = (agenda \ {e}) \cup E
        /\ sent' = sent /\ log' = log
    BY <1>6 DEF StartJammer, Posts
  <2>2. \A f \in E : Proper(f) /\ e.at <= f.at /\ (f.run = "wave" => f.module = e.module)
    BY <1>1, <1>6 DEF Event, Proper, Runs, StartJammer
  <2> HIDE DEF E
  <2> QED
    BY <1>1, <2>1, <2>2, OpenStep
<1> QED
  BY <1>2, <1>3, <1>4, <1>5, <1>6 DEF Start

\* A stop moves the window into the log; a jammer's takes its waveform along.
LEMMA StopStep ==
  ASSUME WindowInv, NEW e \in agenda, Due(e), Stop(e)
  PROVE  WindowInv'
<1> DEFINE m == e.module
<1>1. ClockInv /\ e.at \in Nat /\ now <= e.at /\ now \in Nat /\ m \in Modules
  BY DEF WindowInv, ClockInv, Proper, Stop
<1>2. /\ StopAttack(m, e.at) /\ now' = e.at /\ since' = since /\ sent' = sent
      /\ agenda' \subseteq agenda \ {e}
      /\ m \in Jammers => agenda' \cap Waves(m) = {}
  BY DEF Stop
<1>3. /\ active' \in [Modules -> BOOLEAN] /\ ~active'[m]
      /\ \A k \in Modules \ {m} : active'[k] = active[k]
  BY <1>1, <1>2 DEF ClockInv, StopAttack
<1>4. now' \in Nat /\ \A f \in agenda' : Proper(f) /\ now' <= f.at
  <2>1. agenda' \subseteq (agenda \ {e}) \cup {}
    BY <1>2
  <2> QED
    BY <1>1, <1>2, <2>1, PostsStep
<1>5. \A k \in Modules : active'[k] => since'[k] <= now'
  <2> SUFFICES ASSUME NEW k \in Modules, active'[k] PROVE since[k] <= e.at
    BY <1>2
  <2>1. since[k] <= now /\ since[k] \in Nat
    BY <1>3 DEF WindowInv, ClockInv
  <2> QED
    BY <1>1, <2>1
<1>6. \A s \in sent' :
        /\ s.module \in Modules /\ s.at \in Nat /\ s.at <= now'
        /\ s.until \in Nat /\ s.until <= s.at + Overrun(s.module)
  BY <1>1, <1>2 DEF ClockInv
<1>7. ClockInv'
  BY <1>1, <1>2, <1>3, <1>4, <1>5, <1>6 DEF ClockInv, Proper
<1>8. WavesAreActive'
  <2> SUFFICES ASSUME NEW f \in agenda', f.run = "wave" PROVE active'[f.module]
    BY DEF WavesAreActive
  <2>1. f \in agenda /\ f.module \in Jammers /\ f.module \in Modules /\ active[f.module]
    BY <1>2, <1>4 DEF WavesAreActive, WindowInv, Proper, Modules
  <2>2. f.module # m
    BY <1>2, <2>1 DEF Waves
  <2> QED
    BY <1>3, <2>1, <2>2
<1>9. \A s \in sent : s.module \notin Trains => Covered(s)'
  <2>1. since \in [Modules -> Nat] /\ since' \in [Modules -> Nat] /\ log \subseteq log'
    BY <1>1, <1>2 DEF ClockInv, StopAttack
  <2>2. active[m] => [module |-> m, from |-> since[m], to |-> e.at] \in log'
    BY <1>2 DEF StopAttack
  <2> QED
    BY <1>1, <1>2, <1>3, <2>1, <2>2, CoverStep DEF WindowInv, MessagesAreLabelled
<1> QED
  BY <1>2, <1>7, <1>8, <1>9 DEF WindowInv, MessagesAreLabelled

\* Events between start and stop: they may send for a module that is active
\* (or is a train), and post the same event again.
LEMMA WorkStep ==
  ASSUME WindowInv, NEW e \in agenda, Due(e), e.module \in Modules, NEW E,
         now' = e.at, agenda' = (agenda \ {e}) \cup E,
         \A f \in E : Proper(f) /\ e.at <= f.at /\ f.run = e.run /\ f.module = e.module,
         \/ sent' = sent
         \/ /\ sent' = sent \cup {Sending(e)}
            /\ e.module \in Trains \/ active[e.module],
         active' = active, since' = since, log' = log
  PROVE  WindowInv'
<1>1. ClockInv /\ e.at \in Nat /\ now <= e.at /\ now \in Nat
  BY DEF WindowInv, ClockInv, Proper
<1>2. now' \in Nat /\ now <= now' /\ \A f \in agenda' : Proper(f) /\ now' <= f.at
  <2>1. agenda' \subseteq (agenda \ {e}) \cup E
    OBVIOUS
  <2>2. \A f \in E : Proper(f) /\ e.at <= f.at
    OBVIOUS
  <2> QED
    BY <1>1, <2>1, <2>2, PostsStep
<1>3. \A m \in Modules : active[m] => since[m] \in Nat /\ since[m] <= now'
  <2> SUFFICES ASSUME NEW m \in Modules, active[m] PROVE since[m] \in Nat /\ since[m] <= now'
    OBVIOUS
  <2>1. since[m] \in Nat /\ since[m] <= now
    BY <1>1 DEF ClockInv
  <2> QED
    BY <1>1, <1>2, <2>1
<1>4. \A s \in sent' :
        /\ s.module \in Modules /\ s.at \in Nat /\ s.at <= now'
        /\ s.until \in Nat /\ s.until <= s.at + Overrun(s.module)
  BY <1>1, SendingFacts DEF ClockInv
<1>5. ClockInv'
  BY <1>1, <1>2, <1>3, <1>4 DEF ClockInv, Proper
<1>6. WavesAreActive'
  BY DEF WavesAreActive, WindowInv
<1>7. MessagesAreLabelled'
  <2> SUFFICES ASSUME NEW s \in sent', s.module \notin Trains PROVE Covered(s)'
    BY DEF MessagesAreLabelled
  <2>1. CASE s \in sent
    BY <2>1 DEF WindowInv, MessagesAreLabelled, Covered
  <2>2. CASE s \notin sent
    <3>1. s = Sending(e)
      BY <2>2
    <3>2. s.module = e.module /\ s.at = e.at
      BY <1>1, <3>1, SendingFacts DEF ClockInv
    <3>3. active[e.module]
      BY <2>2, <3>2
    <3> QED
      BY <1>2, <1>3, <3>2, <3>3 DEF Covered
  <2> QED
    BY <2>1, <2>2
<1> QED
  BY <1>5, <1>6, <1>7 DEF WindowInv

LEMMA RunStep ==
  ASSUME WindowInv, NEW e \in agenda, Due(e), RunAttack(e)
  PROVE  WindowInv'
<1>1. e.at \in Nat /\ e.module \in Floods /\ e.module \in Modules /\ e.run = "run"
  BY DEF WindowInv, ClockInv, Proper, RunAttack
<1>2. active' = active /\ since' = since /\ log' = log
  BY DEF RunAttack
<1>3. CASE active[e.module]
  <2> DEFINE E == {Event(e.at + Pause, uid, "run", e.module)}
  <2>1. /\ now' = e.at /\ agenda' = (agenda \ {e}) \cup E
        /\ sent' = sent \cup {Sending(e)}
    BY <1>3 DEF RunAttack, Posts, Send
  <2>2. \A f \in E : Proper(f) /\ e.at <= f.at /\ f.run = e.run /\ f.module = e.module
    BY <1>1, PauseAssumption DEF Event, Proper, Runs
  <2> HIDE DEF E
  <2> QED
    BY <1>1, <1>2, <1>3, <2>1, <2>2, WorkStep
<1>4. CASE ~active[e.module]
  <2> DEFINE E == {}
  <2>1. now' = e.at /\ agenda' = (agenda \ {e}) \cup E /\ sent' = sent
    BY <1>4 DEF RunAttack, Posts
  <2>2. \A f \in E : Proper(f) /\ e.at <= f.at /\ f.run = e.run /\ f.module = e.module
    OBVIOUS
  <2> HIDE DEF E
  <2> QED
    BY <1>1, <1>2, <2>1, <2>2, WorkStep
<1> QED
  BY <1>3, <1>4

\* The waveform's own function asks for nothing: that its jammer is active is
\* what the invariant adds.
LEMMA WaveStep ==
  ASSUME WindowInv, NEW e \in agenda, Due(e), GenerateWaveform(e)
  PROVE  WindowInv'
<1> DEFINE E == {Event(e.at + Pause, uid, "wave", e.module)}
<1>1. /\ e.at \in Nat /\ e.module \in Jammers /\ e.module \in Modules /\ e.run = "wave"
      /\ active[e.module]
  BY DEF WindowInv, ClockInv, WavesAreActive, Proper, GenerateWaveform
<1>2. /\ active' = active /\ since' = since /\ log' = log
      /\ now' = e.at /\ agenda' = (agenda \ {e}) \cup E
      /\ sent' = sent \cup {Sending(e)}
  BY DEF GenerateWaveform, Posts, Send
<1>3. \A f \in E : Proper(f) /\ e.at <= f.at /\ f.run = e.run /\ f.module = e.module
  BY <1>1, PauseAssumption DEF Event, Proper, Runs
<1> HIDE DEF E
<1> QED
  BY <1>1, <1>2, <1>3, WorkStep

LEMMA PostedStep ==
  ASSUME WindowInv, NEW e \in agenda, Due(e), SendPosted(e)
  PROVE  WindowInv'
<1> DEFINE E == {}
<1>1. e.module \in Trains /\ e.module \in Modules
  BY DEF WindowInv, ClockInv, Proper, SendPosted
<1>2. /\ active' = active /\ since' = since /\ log' = log
      /\ now' = e.at /\ agenda' = (agenda \ {e}) \cup E
      /\ sent' = sent \cup {Sending(e)}
  BY DEF SendPosted, Posts, Send
<1>3. \A f \in E : Proper(f) /\ e.at <= f.at /\ f.run = e.run /\ f.module = e.module
  OBVIOUS
<1> HIDE DEF E
<1> QED
  BY <1>1, <1>2, <1>3, WorkStep

LEMMA EndStep ==
  ASSUME WindowInv, NEW e \in agenda, Due(e), End(e)
  PROVE  WindowInv'
<1>1. /\ active' = active /\ since' = since /\ log' = log /\ sent' = sent
      /\ now' = e.at /\ agenda' = {}
  BY DEF End
<1>2. e.at \in Nat /\ now <= e.at /\ now \in Nat
  BY DEF WindowInv, ClockInv, Proper
<1>3. \A m \in Modules : active[m] => since[m] <= e.at
  <2> SUFFICES ASSUME NEW m \in Modules, active[m] PROVE since[m] <= e.at
    OBVIOUS
  <2>1. since[m] \in Nat /\ since[m] <= now
    BY DEF WindowInv, ClockInv
  <2> QED
    BY <1>2, <2>1
<1>4. \A s \in sent :
        /\ s.module \in Modules /\ s.at \in Nat /\ s.at <= e.at
        /\ s.until \in Nat /\ s.until <= s.at + Overrun(s.module)
  BY <1>2 DEF WindowInv, ClockInv
<1>5. ClockInv'
  BY <1>1, <1>2, <1>3, <1>4 DEF WindowInv, ClockInv, Proper
<1>6. WavesAreActive' /\ MessagesAreLabelled'
  BY <1>1 DEF WindowInv, WavesAreActive, MessagesAreLabelled, Covered
<1> QED
  BY <1>5, <1>6 DEF WindowInv

-----------------------------------------------------------------------------
LEMMA WindowNext == WindowInv /\ [Next]_vars => WindowInv'
<1> SUFFICES ASSUME WindowInv, [Next]_vars PROVE WindowInv'
  OBVIOUS
<1>1. CASE Next
  <2>1. PICK e \in agenda :
          /\ Due(e)
          /\ \/ Start(e) \/ Stop(e) \/ RunAttack(e) \/ GenerateWaveform(e)
             \/ SendPosted(e) \/ End(e)
    BY <1>1 DEF Next
  <2> QED
    BY <2>1, StartStep, StopStep, RunStep, WaveStep, PostedStep, EndStep
<1>2. CASE UNCHANGED vars
  BY <1>2 DEF vars, WindowInv, ClockInv, Proper, WavesAreActive, MessagesAreLabelled, Covered
<1> QED
  BY <1>1, <1>2

\* The clock, the windows and the pending waveforms (attack-base.cc:15-39,
\* jammer.cc:34-44) agree in every reachable state.
THEOREM WindowsAreInvariant == Spec => []WindowInv
<1> QED
  BY WindowInit, WindowNext, PTL DEF Spec

\* Whatever the modules, the devices they share, the pauses and the list of
\* entries: no message of a flood or an injection is sent outside a window of its
\* module that attacks.json holds or will hold at its stop, and no waveform of a
\* jammer begins outside one or outlasts it by more than its length, period times
\* duty cycle, since the stop does not end it (attack-base.cc:29-39, dos.cc:17-22,
\* pgw-flooding.cc:24-30, injection.cc:10-15, mmwave-jamming-model.cc:199-222, 255-262).
THEOREM NothingGoesUnlabelled == Spec => []MessagesAreLabelled
<1>1. WindowInv => MessagesAreLabelled
  BY DEF WindowInv
<1> QED
  BY <1>1, WindowsAreInvariant, PTL

-----------------------------------------------------------------------------
(* One chain of RunAttack events.  Where entries lie apart, the next start   *)
(* of a flood comes after the last event that the previous window can have   *)
(* left behind: that one lies at most Pause after the window's end, because  *)
(* the stop is still in the queue when the event before it runs.             *)

StartOf(i) == Event(schedule[i].from, 2 * i, "start", schedule[i].module)
StopOf(i) == Event(schedule[i].to, 2 * i + 1, "stop", schedule[i].module)

\* The window i of m has been opened.
Opened(i, m) ==
  schedule[i].module = m /\ StartOf(i) \notin agenda /\ schedule[i].from <= now

StartsAreEntries == \A e \in agenda : e.run = "start" => \E i \in Posted(schedule) : e = StartOf(i)
StopFollowsStart ==
  \A i \in Posted(schedule) :
    schedule[i].module \notin Trains /\ StartOf(i) \in agenda => StopOf(i) \in agenda
ActiveIsOpened ==
  \A m \in Floods : active[m] /\ ~over =>
    \E i \in Posted(schedule) : Opened(i, m) /\ StopOf(i) \in agenda
RunsFollowWindows ==
  \A r \in agenda : r.run = "run" =>
    \E i \in Posted(schedule) : Opened(i, r.module) /\ r.at <= schedule[i].to + Pause
RunsAreUnique ==
  Separate => \A r, q \in agenda : r.run = "run" /\ q.run = "run" /\ r.module = q.module => r = q

ChainInv ==
  /\ WindowInv
  /\ schedule \in Schedules
  /\ over => agenda = {}
  /\ StartsAreEntries /\ StopFollowsStart /\ ActiveIsOpened
  /\ RunsFollowWindows /\ RunsAreUnique

LEMMA ScheduleTypes ==
  ASSUME schedule \in Schedules, NEW i \in Posted(schedule)
  PROVE  /\ i \in Nat /\ schedule[i] \in Entries /\ schedule[i].module \in Modules
         /\ schedule[i].from \in Nat /\ schedule[i].to \in Nat
         /\ schedule[i].from <= schedule[i].to
<1>1. schedule \in Seq(Entries) /\ \A j \in DOMAIN schedule : schedule[j].from <= schedule[j].to
  BY SchedulesAssumption
<1>2. i \in DOMAIN schedule /\ DOMAIN schedule = 1 .. Len(schedule) /\ Len(schedule) \in Nat
  BY <1>1 DEF Posted
<1>3. i \in Nat /\ schedule[i] \in Entries
  BY <1>1, <1>2
<1> QED
  BY <1>1, <1>2, <1>3 DEF Entries

LEMMA ChainInit == Init => ChainInv
<1> SUFFICES ASSUME Init PROVE ChainInv
  OBVIOUS
<1>1. WindowInv /\ schedule \in Schedules /\ ~over /\ agenda = Planned(schedule)
  BY WindowInit DEF Init
<1>2. \A e \in agenda : e.run # "run" /\ (e.run = "start" => \E i \in Posted(schedule) : e = StartOf(i))
  BY <1>1 DEF Planned, Event, StartOf
<1>3. StartsAreEntries /\ RunsFollowWindows /\ RunsAreUnique
  BY <1>2 DEF StartsAreEntries, RunsFollowWindows, RunsAreUnique
<1>4. StopFollowsStart
  <2> SUFFICES ASSUME NEW i \in Posted(schedule), schedule[i].module \notin Trains
               PROVE  StopOf(i) \in agenda
    BY DEF StopFollowsStart
  <2> QED
    BY <1>1 DEF Planned, StopOf
<1>5. ActiveIsOpened
  BY DEF Init, ActiveIsOpened, Modules
<1> QED
  BY <1>1, <1>3, <1>4, <1>5 DEF ChainInv

\* An event that is no stop leaves the entries' events alone, its own excepted.
LEMMA EntriesStep ==
  ASSUME ChainInv, schedule' = schedule, NEW e \in agenda, e.run # "stop", NEW E,
         now <= e.at, now' = e.at, agenda' = (agenda \ {e}) \cup E, \A f \in E : f.run # "start"
  PROVE  /\ StartsAreEntries' /\ StopFollowsStart'
         /\ \A i \in Posted(schedule) : StopOf(i) \in agenda => StopOf(i) \in agenda'
         /\ \A i \in Posted(schedule), m \in Modules : Opened(i, m) => Opened(i, m)'
<1>1. \A i \in Posted(schedule) : StartOf(i).run = "start" /\ StopOf(i).run = "stop"
  BY DEF StartOf, StopOf, Event
<1>2. \A i \in Posted(schedule) : StopOf(i)' = StopOf(i) /\ StartOf(i)' = StartOf(i)
  BY DEF StartOf, StopOf
<1>3. \A i \in Posted(schedule) : StopOf(i) \in agenda => StopOf(i) \in agenda'
  BY <1>1
<1>4. \A i \in Posted(schedule) : StartOf(i) \in agenda' => StartOf(i) \in agenda
  BY <1>1
<1>5. StartsAreEntries'
  BY <1>2 DEF ChainInv, StartsAreEntries
<1>6. StopFollowsStart'
  BY <1>2, <1>3, <1>4 DEF ChainInv, StopFollowsStart
<1>7. \A i \in Posted(schedule) : schedule[i].from <= now => schedule[i].from <= now'
  <2> SUFFICES ASSUME NEW i \in Posted(schedule), schedule[i].from <= now
               PROVE  schedule[i].from <= e.at
    OBVIOUS
  <2>1. schedule[i].from \in Nat /\ now \in Nat /\ e.at \in Nat
    BY ScheduleTypes DEF ChainInv, WindowInv, ClockInv, Proper
  <2> QED
    BY <2>1
<1> QED
  BY <1>2, <1>3, <1>4, <1>5, <1>6, <1>7 DEF Opened

LEMMA ChainStart ==
  ASSUME ChainInv, WindowInv', schedule' = schedule, NEW e \in agenda, Due(e), Start(e)
  PROVE  ChainInv'
<1> DEFINE m == e.module
<1>1. e.at \in Nat /\ now \in Nat /\ now <= e.at /\ m \in Modules /\ e.run = "start"
  BY DEF ChainInv, WindowInv, ClockInv, Proper, Start
<1>2. PICK j \in Posted(schedule) : e = StartOf(j)
  BY <1>1 DEF ChainInv, StartsAreEntries
<1>3. m = schedule[j].module /\ e.at = schedule[j].from
  BY <1>2 DEF StartOf, Event
<1>4. schedule[j].to \in Nat /\ schedule[j].from <= schedule[j].to
  BY ScheduleTypes DEF ChainInv
<1> DEFINE E == agenda' \ (agenda \ {e})
<1>5. /\ now' = e.at /\ agenda' = (agenda \ {e}) \cup E
      /\ \A f \in E :
           \/ f.run # "start" /\ f.run # "run"
           \/ m \in Floods /\ f = Event(e.at + Pause, uid, "run", m)
  <2>1. CASE StartFlood(e)
    BY <2>1 DEF StartFlood, Posts
  <2>2. CASE StartFilter(e) \/ StartSingle(e)
    BY <2>2 DEF StartFilter, StartSingle, Posts
  <2>3. CASE StartTrain(e)
    BY <2>3 DEF StartTrain, Posts, Event
  <2>4. CASE StartJammer(e)
    BY <2>4 DEF StartJammer, Posts, Event
  <2> QED
    BY <2>1, <2>2, <2>3, <2>4 DEF Start
<1> HIDE DEF E
<1>6. \A f \in E : f.run # "start"
  BY <1>5 DEF Event
<1>7. /\ StartsAreEntries' /\ StopFollowsStart'
      /\ \A i \in Posted(schedule) : StopOf(i) \in agenda => StopOf(i) \in agenda'
      /\ \A i \in Posted(schedule), k \in Modules : Opened(i, k) => Opened(i, k)'
  BY <1>1, <1>5, <1>6, EntriesStep
<1>8. Opened(j, m)'
  <2>1. e \notin agenda'
    BY <1>1, <1>5, <1>6
  <2>2. StartOf(j)' = e
    BY <1>2 DEF StartOf
  <2> QED
    BY <1>1, <1>3, <1>4, <1>5, <2>1, <2>2 DEF Opened
<1>9. \A k \in Modules \ {m} : active'[k] = active[k]
  BY <1>1 DEF Start, StartFilter, StartFlood, StartSingle, StartTrain, StartJammer, StartAttack,
              ChainInv, WindowInv, ClockInv
<1>10. over' = over /\ ~over
  BY DEF Start, ChainInv
<1>11. ActiveIsOpened'
  <2> SUFFICES ASSUME NEW k \in Floods, active'[k]
               PROVE  \E i \in Posted(schedule) : Opened(i, k)' /\ StopOf(i)' \in agenda'
    BY DEF ActiveIsOpened
  <2>1. k \in Modules /\ \A i \in Posted(schedule) : StopOf(i)' = StopOf(i)
    BY DEF Modules, StopOf
  <2>2. CASE k = m
    <3>1. StopOf(j) \in agenda
      BY <1>2, <1>3, <2>2, KindsAssumption DEF ChainInv, StopFollowsStart
    <3> QED
      BY <1>7, <1>8, <2>1, <2>2, <3>1
  <2>3. CASE k # m
    BY <1>7, <1>9, <1>10, <2>1, <2>3 DEF ChainInv, ActiveIsOpened
  <2> QED
    BY <2>2, <2>3
<1>12. RunsFollowWindows'
  <2> SUFFICES ASSUME NEW r \in agenda', r.run = "run"
               PROVE  \E i \in Posted(schedule) :
                        Opened(i, r.module)' /\ r.at <= schedule[i].to + Pause
    BY DEF RunsFollowWindows
  <2>1. CASE r \in agenda
    <3>1. r.module \in Modules
      BY <2>1 DEF ChainInv, WindowInv, ClockInv, Proper
    <3> QED
      BY <1>7, <2>1, <3>1 DEF ChainInv, RunsFollowWindows
  <2>2. CASE r \in E
    <3>1. r.at = e.at + Pause /\ r.module = m
      BY <1>5, <2>2 DEF Event
    <3>2. r.at <= schedule[j].to + Pause
      BY <1>1, <1>3, <1>4, <3>1, PauseAssumption
    <3> QED
      BY <1>8, <3>1, <3>2
  <2> QED
    BY <1>5, <2>1, <2>2
<1>13. ASSUME Separate, m \in Floods, NEW r \in agenda, r.run = "run", r.module = m
       PROVE  FALSE
  <2>1. PICK i \in Posted(schedule) : Opened(i, m) /\ r.at <= schedule[i].to + Pause
    BY <1>13 DEF ChainInv, RunsFollowWindows
  <2>2. i # j
    BY <1>2, <2>1 DEF Opened
  <2>3. Apart(schedule[i], schedule[j])
    BY <1>13, <2>2 DEF Separate
  <2>4. /\ schedule[i].from \in Nat /\ schedule[i].to \in Nat
        /\ schedule[i].module = m /\ schedule[i].from <= now
    BY <2>1, ScheduleTypes DEF ChainInv, Opened
  <2>5. m \notin Trains /\ m \notin Singles
    BY <1>13, KindsAssumption
  <2>6. \/ schedule[i].to + Pause < schedule[j].from
        \/ schedule[j].to + Pause < schedule[i].from
    BY <1>3, <1>13, <2>3, <2>4, <2>5 DEF Apart, Until, Rest
  <2>7. schedule[i].to + Pause < schedule[j].from
    BY <1>1, <1>3, <1>4, <2>4, <2>6, PauseAssumption
  <2>8. r.at \in Nat /\ e.at <= r.at
    BY <1>1, <1>13 DEF ChainInv, WindowInv, ClockInv, Proper, Due, Before
  <2> QED
    BY <1>1, <1>3, <2>1, <2>4, <2>7, <2>8, PauseAssumption
<1>14. RunsAreUnique'
  <2> SUFFICES ASSUME Separate, NEW r \in agenda', NEW q \in agenda',
                      r.run = "run", q.run = "run", r.module = q.module
               PROVE  r = q
    BY DEF RunsAreUnique, Separate, Apart, Until, Rest, TrainEnd
  <2>1. CASE r \in agenda /\ q \in agenda
    BY <2>1 DEF ChainInv, RunsAreUnique
  <2>2. CASE r \in E \/ q \in E
    <3>1. m \in Floods /\ r.module = m /\ q.module = m
      BY <1>5, <2>2 DEF Event
    <3>2. r \in E /\ q \in E
      BY <1>5, <1>13, <3>1
    <3> QED
      BY <1>5, <3>2
  <2> QED
    BY <1>5, <2>1, <2>2
<1> QED
  BY <1>7, <1>10, <1>11, <1>12, <1>14 DEF ChainInv

LEMMA ChainStop ==
  ASSUME ChainInv, WindowInv', schedule' = schedule, NEW e \in agenda, Due(e), Stop(e)
  PROVE  ChainInv'
<1> DEFINE m == e.module
<1>1. e.at \in Nat /\ now \in Nat /\ now <= e.at /\ m \in Modules /\ e.run = "stop"
  BY DEF ChainInv, WindowInv, ClockInv, Proper, Stop
<1>2. /\ now' = e.at /\ over' = over /\ ~over /\ agenda' \subseteq agenda
      /\ \A f \in agenda : f # e /\ f.run # "wave" => f \in agenda'
  BY DEF Stop, Waves, ChainInv
<1>3. ~active'[m] /\ \A k \in Modules \ {m} : active'[k] = active[k]
  BY <1>1 DEF Stop, StopAttack, ChainInv, WindowInv, ClockInv
<1>4. \A i \in Posted(schedule) :
        /\ StartOf(i)' = StartOf(i) /\ StopOf(i)' = StopOf(i)
        /\ StartOf(i).run = "start" /\ StopOf(i).run = "stop"
        /\ StopOf(i).module = schedule[i].module
  BY DEF StartOf, StopOf, Event
<1>5. \A i \in Posted(schedule), k \in Modules : Opened(i, k) => Opened(i, k)'
  <2> SUFFICES ASSUME NEW i \in Posted(schedule), NEW k \in Modules, Opened(i, k)
               PROVE  Opened(i, k)'
    OBVIOUS
  <2>1. schedule[i].from \in Nat /\ schedule[i].from <= now
    BY ScheduleTypes DEF ChainInv, Opened
  <2> QED
    BY <1>1, <1>2, <1>4, <2>1 DEF Opened
<1>6. StartsAreEntries'
  BY <1>2, <1>4 DEF StartsAreEntries, ChainInv
<1>7. StopFollowsStart'
  <2> SUFFICES ASSUME NEW i \in Posted(schedule), schedule[i].module \notin Trains,
                      StartOf(i) \in agenda
               PROVE  StopOf(i) \in agenda'
    BY <1>2, <1>4 DEF StopFollowsStart
  <2>1. StopOf(i) \in agenda
    BY DEF ChainInv, StopFollowsStart
  <2>2. StopOf(i) # e
    <3>1. Before(e, StartOf(i))
      BY DEF Due
    <3>2. i \in Nat /\ schedule[i].from \in Nat /\ schedule[i].to \in Nat
          /\ schedule[i].from <= schedule[i].to
      BY ScheduleTypes DEF ChainInv
    <3> QED
      BY <3>1, <3>2 DEF Before, StartOf, StopOf, Event
  <2> QED
    BY <1>2, <1>4, <2>1, <2>2
<1>8. ActiveIsOpened'
  <2> SUFFICES ASSUME NEW k \in Floods, active'[k]
               PROVE  \E i \in Posted(schedule) : Opened(i, k)' /\ StopOf(i)' \in agenda'
    BY DEF ActiveIsOpened
  <2>1. k \in Modules /\ k # m /\ active[k]
    BY <1>3 DEF Modules
  <2>2. PICK i \in Posted(schedule) : Opened(i, k) /\ StopOf(i) \in agenda
    BY <1>2, <2>1 DEF ChainInv, ActiveIsOpened
  <2>3. StopOf(i) # e
    BY <1>4, <2>1, <2>2 DEF Opened
  <2> QED
    BY <1>2, <1>4, <1>5, <2>1, <2>2, <2>3
<1>9. RunsFollowWindows'
  <2> SUFFICES ASSUME NEW r \in agenda', r.run = "run"
               PROVE  \E i \in Posted(schedule) :
                        Opened(i, r.module)' /\ r.at <= schedule[i].to + Pause
    BY DEF RunsFollowWindows
  <2>1. r \in agenda /\ r.module \in Modules
    BY <1>2 DEF ChainInv, WindowInv, ClockInv, Proper
  <2> QED
    BY <1>5, <2>1 DEF ChainInv, RunsFollowWindows
<1>10. RunsAreUnique'
  BY <1>2 DEF ChainInv, RunsAreUnique, Separate, Apart, Until, Rest, TrainEnd
<1> QED
  BY <1>2, <1>6, <1>7, <1>8, <1>9, <1>10 DEF ChainInv

\* Events that leave the windows as they are and post at most one event of
\* their own kind again; a RunAttack does so only while its module is active.
LEMMA ChainWork ==
  ASSUME ChainInv, WindowInv', schedule' = schedule, NEW e \in agenda, Due(e),
         e.run \notin {"start", "stop"}, NEW E,
         now' = e.at, agenda' = (agenda \ {e}) \cup E,
         \A f \in E : f.run = e.run /\ f.module = e.module,
         \A f, g \in E : f = g,
         e.run = "run" => \A f \in E : active[e.module] /\ f.at = e.at + Pause,
         active' = active, over' = over, ~over
  PROVE  ChainInv'
<1>1. e.at \in Nat /\ now \in Nat /\ now <= e.at /\ Proper(e)
  BY DEF ChainInv, WindowInv, ClockInv, Proper
<1>2. \A f \in E : f.run # "start"
  OBVIOUS
<1>3. /\ StartsAreEntries' /\ StopFollowsStart'
      /\ \A i \in Posted(schedule) : StopOf(i) \in agenda => StopOf(i) \in agenda'
      /\ \A i \in Posted(schedule), k \in Modules : Opened(i, k) => Opened(i, k)'
  BY <1>1, <1>2, EntriesStep
<1>4. \A i \in Posted(schedule) : StopOf(i)' = StopOf(i)
  BY DEF StopOf
<1>5. Floods \subseteq Modules
  BY DEF Modules
<1>6. ActiveIsOpened'
  BY <1>3, <1>4, <1>5 DEF ChainInv, ActiveIsOpened
<1>7. RunsFollowWindows'
  <2> SUFFICES ASSUME NEW r \in agenda', r.run = "run"
               PROVE  \E i \in Posted(schedule) :
                        Opened(i, r.module)' /\ r.at <= schedule[i].to + Pause
    BY DEF RunsFollowWindows
  <2>1. CASE r \in agenda
    <3>1. r.module \in Modules
      BY <2>1 DEF ChainInv, WindowInv, ClockInv, Proper
    <3> QED
      BY <1>3, <2>1, <3>1 DEF ChainInv, RunsFollowWindows
  <2>2. CASE r \in E
    <3>1. e.run = "run" /\ r.module = e.module /\ active[e.module] /\ r.at = e.at + Pause
      BY <2>2
    <3>2. e.module \in Floods
      BY <1>1, <3>1 DEF Proper
    <3>3. PICK i \in Posted(schedule) : Opened(i, e.module) /\ StopOf(i) \in agenda
      BY <3>1, <3>2 DEF ChainInv, ActiveIsOpened
    <3>4. schedule[i].to \in Nat
      BY ScheduleTypes DEF ChainInv
    <3>5. e.at <= schedule[i].to
      BY <1>1, <3>3, <3>4 DEF Due, Before, StopOf, Event
    <3>6. r.at <= schedule[i].to + Pause
      BY <1>1, <3>1, <3>4, <3>5, PauseAssumption
    <3> QED
      BY <1>3, <1>5, <3>1, <3>2, <3>3, <3>6
  <2> QED
    BY <2>1, <2>2
<1>8. RunsAreUnique'
  <2> SUFFICES ASSUME Separate, NEW r \in agenda', NEW q \in agenda',
                      r.run = "run", q.run = "run", r.module = q.module
               PROVE  r = q
    BY DEF RunsAreUnique, Separate, Apart, Until, Rest, TrainEnd
  <2>1. CASE r \in agenda \ {e} /\ q \in agenda \ {e}
    BY <2>1 DEF ChainInv, RunsAreUnique
  <2>2. CASE r \in E /\ q \in E
    BY <2>2
  <2>3. ASSUME NEW x \in agenda \ {e}, NEW y \in E, x.run = "run", y.run = "run",
               x.module = y.module
        PROVE  FALSE
    <3>1. e.run = "run" /\ e.module = x.module
      BY <2>3
    <3> QED
      BY <2>3, <3>1 DEF ChainInv, RunsAreUnique
  <2> QED
    BY <2>1, <2>2, <2>3
<1> QED
  BY <1>3, <1>6, <1>7, <1>8 DEF ChainInv

LEMMA ChainNext == ChainInv /\ [Next]_vars => ChainInv'
<1> SUFFICES ASSUME ChainInv, [Next]_vars PROVE ChainInv'
  OBVIOUS
<1>1. WindowInv'
  BY WindowNext DEF ChainInv
<1>2. CASE Next
  <2>1. PICK e \in agenda :
          /\ Due(e)
          /\ \/ Start(e) \/ Stop(e) \/ RunAttack(e) \/ GenerateWaveform(e)
             \/ SendPosted(e) \/ End(e)
          /\ schedule' = schedule
    BY <1>2 DEF Next
  <2>2. ~over
    BY DEF ChainInv
  <2>3. CASE Start(e)
    BY <1>1, <2>1, <2>3, ChainStart
  <2>4. CASE Stop(e)
    BY <1>1, <2>1, <2>4, ChainStop
  <2>5. CASE RunAttack(e) /\ active[e.module]
    <3> DEFINE E == {Event(e.at + Pause, uid, "run", e.module)}
    <3>1. /\ now' = e.at /\ agenda' = (agenda \ {e}) \cup E /\ e.run = "run"
          /\ active' = active /\ over' = over
      BY <2>5 DEF RunAttack, Posts
    <3>2. \A f \in E : f.run = e.run /\ f.module = e.module /\ f.at = e.at + Pause
      BY <3>1 DEF Event
    <3>3. \A f, g \in E : f = g
      OBVIOUS
    <3> HIDE DEF E
    <3> QED
      BY <1>1, <2>1, <2>2, <2>5, <3>1, <3>2, <3>3, ChainWork
  <2>6. CASE GenerateWaveform(e)
    <3> DEFINE E == {Event(e.at + Pause, uid, "wave", e.module)}
    <3>1. /\ now' = e.at /\ agenda' = (agenda \ {e}) \cup E /\ e.run = "wave"
          /\ active' = active /\ over' = over
      BY <2>6 DEF GenerateWaveform, Posts
    <3>2. \A f \in E : f.run = e.run /\ f.module = e.module
      BY <3>1 DEF Event
    <3>3. \A f, g \in E : f = g
      OBVIOUS
    <3> HIDE DEF E
    <3> QED
      BY <1>1, <2>1, <2>2, <3>1, <3>2, <3>3, ChainWork
  <2>7. CASE SendPosted(e) \/ (RunAttack(e) /\ ~active[e.module])
    <3> DEFINE E == {}
    <3>1. /\ now' = e.at /\ agenda' = (agenda \ {e}) \cup E /\ e.run \notin {"start", "stop"}
          /\ active' = active /\ over' = over
      BY <2>7 DEF SendPosted, RunAttack, Posts
    <3>2. /\ \A f \in E : f.run = e.run /\ f.module = e.module
          /\ \A f, g \in E : f = g
          /\ \A f \in E : active[e.module] /\ f.at = e.at + Pause
      OBVIOUS
    <3> HIDE DEF E
    <3> QED
      BY <1>1, <2>1, <2>2, <3>1, <3>2, ChainWork
  <2>8. CASE End(e)
    BY <1>1, <2>1, <2>8 DEF End, ChainInv, StartsAreEntries, StopFollowsStart, ActiveIsOpened,
                            RunsFollowWindows, RunsAreUnique
  <2>9. CASE RunAttack(e)
    BY <2>5, <2>7, <2>9
  <2>10. CASE SendPosted(e)
    BY <2>7, <2>10
  <2> QED
    BY <2>1, <2>3, <2>4, <2>6, <2>8, <2>9, <2>10
<1>3. CASE UNCHANGED vars
  <2>1. /\ schedule' = schedule /\ agenda' = agenda /\ over' = over /\ active' = active
        /\ now' = now
    BY <1>3 DEF vars
  <2>2. \A i \in Posted(schedule) :
          /\ StartOf(i)' = StartOf(i) /\ StopOf(i)' = StopOf(i)
          /\ \A m : Opened(i, m)' <=> Opened(i, m)
    BY <2>1 DEF StartOf, StopOf, Opened
  <2>3. StartsAreEntries' /\ StopFollowsStart'
    BY <2>1, <2>2 DEF ChainInv, StartsAreEntries, StopFollowsStart
  <2>4. ActiveIsOpened' /\ RunsFollowWindows'
    BY <2>1, <2>2 DEF ChainInv, ActiveIsOpened, RunsFollowWindows
  <2>5. Separate' <=> Separate
    BY <2>1 DEF Separate, Apart, Until, Rest, TrainEnd
  <2>6. RunsAreUnique'
    BY <2>1, <2>5 DEF ChainInv, RunsAreUnique
  <2> QED
    BY <1>1, <2>1, <2>3, <2>4, <2>6 DEF ChainInv
<1> QED
  BY <1>2, <1>3

\* Whatever the list, as long as the entries on one device lie apart and those
\* of one flood by more than its pause, a flood has at most one pending
\* RunAttack (dos.cc:14, pgw-flooding.cc:21: called without a test).
THEOREM FloodsKeepTheirRate == Spec => []OneChain
<1>1. ChainInv => OneChain
  <2> SUFFICES ASSUME ChainInv, Separate, NEW m \in Floods
               PROVE  Cardinality({e \in agenda : e.run = "run" /\ e.module = m}) <= 1
    BY DEF OneChain
  <2> DEFINE S == {e \in agenda : e.run = "run" /\ e.module = m}
  <2>1. \A r, q \in S : r = q
    BY DEF ChainInv, RunsAreUnique
  <2>2. S = {} \/ \E r : S = {r}
    BY <2>1
  <2>3. Cardinality(S) <= 1
    <3> HIDE DEF S
    <3>1. CASE S = {}
      BY <3>1, FS_EmptySet
    <3>2. CASE \E r : S = {r}
      BY <3>2, FS_Singleton
    <3> QED
      BY <2>2, <3>1, <3>2
  <2> QED
    BY <2>3
<1>2. Spec => []ChainInv
  BY ChainInit, ChainNext, PTL DEF Spec
<1> QED
  BY <1>1, <1>2, PTL
=============================================================================
