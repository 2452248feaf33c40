# Verification of the SWICS testbed

SWICS (`src/README.md`) simulates a bottle filling plant whose controllers talk
Modbus/TCP over an ns-3 network.  The program's own logic is in
`src/simulation/scratch/thesis/`; everything else under `src/simulation` is the
vendored simulator.  This directory holds TLA+ models of that logic, TLC
configurations that check them on small instances, and proofs about them that
TLAPS checks for every value of the constants.

Everything runs in one discrete-event simulator: a handler is one event, runs to
completion, and is one action here.  What interleaves are the events, of all
devices, and what is hard are their orders: responses against timeouts,
requests against connection set-up, delayed messages against fresh ones, a
device that is client and server at once, and controllers that share a plant
without being synchronised.

Paths below are relative to `src/simulation/scratch/thesis/`.

## Inventory

| Part | State | Operations | Talks to | Correct if | Here |
|---|---|---|---|---|---|
| **IndustrialDevice** `model/industrial-device.cc` | transaction id, sockets and connected flags per server, clients, a context per (id, server), a timeout event per id, three message hooks | SendModbusRequest, ReceiveModbusMessage, HandleTimeout, connection callbacks, HandleAccept, SendModbusResponse, Start/Stop | TCP; subclass through `m_recvCallback` and virtual HandleTimeout | each request ends exactly once, in one way; no response is taken for a request; what the device believes of a connection is so | `ModbusDevice` (Stop is never scheduled, not modelled) |
| **Framing** `ReceiveModbusMessage`, `utils/modbus-header.cc` | none between two reads | write a message, take apart what was read | TCP stream | the callback sees the messages that were sent, in order | `ModbusFraming` |
| **PLC base** `model/plc.cc` | timeout flag per device, sensor data, snapshot of both | Cycle, ReceiveModbusData (response), HandleTimeout | sensors, actuators | data trusted was measured, newer data stays, silence is noticed, actuators end up with the latest decision | `PLC` |
| **PLC as a server** `model/plc.cc` | four Modbus tables, names to addresses | function codes 1-6, 15, 16, 43; Set... | HMI | a request is atomic on exactly the items it names, or refused | `ModbusServer` (43 not modelled) |
| **HMI** `model/hmi.cc` | none beside the device's | four delayed reads per cycle, decode of timeout flags | PLCs | reads what is there, decodes what was sent | reads and decoding in `ModbusServer`, operator's script in `FillingLine`; the pace of its cycle not |
| **Sensors, actuators** `model/sensor.cc`, `model/actuator.cc` | names of plant values | the PLC's request checks over plant values | PLCs, plant | as the PLC as a server | value and command in `PLC`, readings and their overflow in `FillingLine` |
| **Control logic** `simulation/plc-a.cc`, `plc-b.cc` | valves, motor, previous level, cycle time | RunControlLogic, ControlActuators, RequestSensorData | through PLC | the tank does not overflow, nothing is spilled, only filled bottles leave, production goes on | `FillingLine` |
| **Plant** `model/physical-system.cc`, `simulation/bottle-filling-system.cc` | values, actuator inputs | Update every 25 ms | sensors, actuators | - (the environment) | `FillingPlant` |
| **Hooks** `attacks/*.cc` | active flag, slot in the device | start (install), stop (which leaves the hooks in place); pass, delay, drop or change a message | IndustrialDevice | the devices keep their promises whatever a hook does with a message's timing; hooks are in force when scheduled, and `attacks.json` labels what was sent | verdicts, as a constant of `ModbusDevice`; start, stop, installation and log in `HookWindows` |
| Jammer, spectrum `attacks/jammer.cc`, `spectrum-analysis.cc` | a pending waveform | start, stop | ns-3 channel | as hooks | windows and waveforms in `HookWindows`; radio power and the spectrum analysis (no hooks, no log) not |
| Testbed `testbed.cc`, helpers | the schedule, options, files | post the events of a simulation | all | - | schedule and end in `HookWindows`, operator's script in `FillingLine`; wiring, options and I/O not |
| Scheduler script | - | - | - | - | not modelled: independent processes |
| ns-3, mmWave | - | - | - | - | external |

The hazards these parts are exposed to are listed with their lines in
`PROJECT.json` ("hazards"); the properties are aimed at them.

## Modules

    ModbusRequest          what a device promises about its requests   (abstract)
      ^ implemented by
    ModbusDevice  <--- MCModbusDevice, ModbusDevice_proofs
      ^ extended by
    PLC           <--- MCPLC, PLC_proofs <- PLCOrder_proofs

    ModbusFraming <--- ModbusFraming_proofs

    ModbusMemory           what the Modbus tables promise to a client  (abstract)
      ^ implemented by
    ModbusServer  <--- MCModbusServer, ModbusServer_proofs

    FillingPlant           tank, bottle, belt
      ^ extended by
    FillingLine   <--- FillingMargins <--- MCFillingLine, FillingLine_proofs

    HookWindows   <--- MCHookWindows, HookWindows_proofs <- HookSchedule_proofs

**ModbusRequest.** `outcome[t]`: idle, open, then answered, timedOut or
suppressed, once, until the id is used again; `Spec` adds that no request stays
open for ever.

**ModbusDevice.** A device with servers it asks and clients that ask it.
`transactionId`, `isConnectedServer`, `connectionContext`, `openRequests`,
`connectedClients` are the members of those names.  `connectCallback[s]` is the
request captured by the lambda of `SendModbusRequest` (the only copy of a message
until the connection stands), `delayedSend` and `delayedCall` are the events that
hooks delay, `link`, `toServer`, `delayedReply`, `toDevice` the TCP connection and
the server behind it.  `outcome` is history.  A message is the pair (id, server)
that the context map uses as its key.  Each handler is an action with the code's
name; `ReceiveModbusMessage` is two, for a response and for a request, because
what it finds in `connectionContext` differs.  The actions of the network
(`ConnectionSucceeded`, the failure of a connection, order of delivery) are
external: they follow from which callbacks ns-3 calls.  One choice is worth
noting: `HandleSocketError` installs no connect callback, so the new socket's
success and failure are both silent, and `m_isConnectedServer` is already true.

A transaction id is not reused while a message, timer or callback of its first use
is left (`t \notin Busy`): the 16-bit counter would have to wrap (some minutes)
within the delay of one message.

**PLC.** EXTENDS ModbusDevice; every action of the device is taken together with
what the PLC does in the callback.  `register` is the data of the sensors,
`timeoutFlag` the discrete inputs `<name>timeout`, `registerCache` and `flagCache`
the snapshot of `Cycle`.  `Cycle` is one event but sends several requests; it is
the action `Cycle` followed by one `SendNext` per request, and no other event
happens until the last one is sent (`toSend = <<>>` guards `Event`), so that it
is as atomic as in the code.  The decisions of the control logic are arbitrary.
`sample` counts the values a sensor has measured, so `register` tells the age of
its value; `about[t]` is what the request of transaction t is about, `payload[t]` the value in
its messages.  An actuator has a target for each coil or register that is commanded, as the motor
has its speed and its start, which PLC_B sends one after the other (plc-b.cc:107-108); a command
changes its own target only (`ActuatorObeys`).  `CycleRequests` are the sequences of
requests a cycle may consist of, `Closing` the targets that come last on their actuator in each of
them.  `early` (history) remembers the targets whose latest command found no connection.
The sensors in `Refusing` may answer with an error response, which clears the flag and
brings no data (plc.cc:49-62).

**ModbusFraming.** One direction of one connection as offsets in a byte stream.
`SendData` appends header and PDU, `Transmit` cuts at most a segment off what
waits, `ReceiveModbusMessage` reads everything that has arrived and takes it
apart.  A read that starts inside a message takes its first bytes for a header:
anything may come of it.

**ModbusMemory / ModbusServer.** `ModbusServer` is the request branch of
`PLC::ReceiveModbusData` with its checks in the code's order, its packing of bits
and words, and the addresses that `SetDiscreteInputValue` and
`SetInputRegisterValue` assign; the client is the HMI's read requests and its
decoding.  `ModbusMemory` knows neither bytes nor loops: a request inside its table
acts on exactly the items it names, any other is refused and changes nothing.
`Meant` and `Understood` are the refinement mapping: what the client meant by its
request and what it makes of the answer.  A request that gives too few values, or announces another
number of bytes than its count needs, means none; of the data of a single coil (0x05) only the
first two bytes count, as the code does not look at its length, so a longer one is carried out.
Requests shorter than the fields they announce, and 0x05 with less than these two bytes, are not sent
(the code reads behind the end of the vector; no device of the testbed sends one), except for the byte that function code 16 always takes from
there, which is a choice over `StrayBytes`.

**FillingPlant.** The three update functions of `bottle-filling-system.cc` over
`m_values` and `m_inputs`, in any order a hash table may have.  A step is one plant
cycle of 25 ms.  The tank's unit is what the pump delivers in that time; since the real
outflow follows the root of the level, the model says only that a cycle of pouring
costs the tank a unit or less (`Drains`).  The bottle's unit is a part of what a
cycle of pouring gives it, the belt's is a step of the ramped motor.

**FillingLine.** Both controllers around that plant.  `Cycle(p)` is `PLC::Cycle` with
`RunControlLogic`, `Exchange(p)` the arrival of its commands and of the answers of all
sensors that answer, `HandleTimeout(l)` the flag of a request that was lost, `Tick` the
plant's cycle, `Operate` the four writes that the testbed schedules for the HMI.  A
controller's cycle lasts 33 to 50 ms, one or two Ticks, chosen anew each time, so
the two drift against each other in every way.  `register` holds what the
logic tells apart in a reading (below, between or above thresholds).  Single messages
are the business of PLC and ModbusDevice; here a link between a PLC and a sensor
may be silent for a while (`Silences`), and what was asked on it times out.
A full tank reads as full or as empty: the conversion in `sensor.cc:196` overflows.
`FillingMargins` says how much room the delays of the controllers need around the
filler (`LineMargins`), which is what the theorems on bottles assume.

**HookWindows.** The events of the modules in `attacks/`, the schedule that
`testbed.cc` posts, the shared hooks of a device (`slot`), and `attacks.json` (`log`).
The queue is ns-3's: by time, then in the order of posting, so for a given schedule the
run is determined and TLC enumerates schedules.  A flood posts its next message itself,
an injection starts and stops in one event, a train posts its messages at once, the
jammer's generator keeps one waveform pending.  A waveform lasts for the period times the duty cycle
(mmwave-jamming-model.cc:209; the period is 0.4 s, testbed.cc:500), here `WaveLength`, and the
generator's stop cancels the next one only (:255-262).
Entries may overlap, touch or repeat, but `testbed.cc` does not post them all (`Posted`): it skips every
ForceHandover after the first (testbed.cc:528, :594-596; `Once`) and, in the wired setting, Jammer,
PGWFlooding and ForceHandover (:495, :518, :525; `Wireless`).  A skipped entry has neither hooks nor a window in
the log, and the properties on the schedule are about the others.  The background jammer (:604-610) is posted
as an entry at the end of a list without a jammer would be.

## Runs

| Run | Instance | Checks | States |
|---|---|---|---|
| `device_client` | two servers, no clients, two ids, all hook verdicts, breaking links | `TypeOK`, `NoOrphanResponse`, `OpenHasTimeout`, `EveryRequestEnds` (refinement of `ModbusRequest!Spec`, with liveness) | 48,782 |
| `plc_sensor` | one sensor with two values that may refuse, three ids, drops, breaking links | `NewestDataStays`, `SilenceIsDetected` | 801,155 |
| `plc_actuator` | the motor with two targets, speed and running, commanded as PLC_B does (speed and start, or stop), two values, four ids | `LastCommandWins` | 1,873,915 |
| `plc_trust` | one sensor, the HMI as a client, all hook verdicts, breaking links | `PLCInv`, `EndsOnce` (refinement of `ModbusRequest!SafeSpec`) | 115,260 |
| `framing` | messages of 9, 12 and 13 bytes, segments of 36, up to 48 bytes waiting, 5 messages | `CutsAreTheOnlyLoss` | 40,228 |
| `server` | nine coils (two bytes), two flags and a third discrete input, two input and two holding registers; requests inside, at and beyond the ends, with too few or too many bytes | `AddressesFit`, `ServesMemory` (refinement of `ModbusMemory`) | 227,520 |
| `filling` | the line from an empty plant, one outage of one of two links at any moment, no operator | `NothingSpilled`, `OnlyFullBottlesLeave` | 5,791,935 |
| `filling_live` | no outage, a tank that drains, the operator's script up to full resumption | `TankNeverOverflows`, `Productive` (liveness) | 148,964 |
| `windows` | six modules on three devices; all lists of up to two entries that start at 0-4 and last 0-3, three short ones; one module is skipped when it repeats; the end at 6 | `MessagesAreLabelled`, `HooksFollowSchedule`, `OneChain`, `LogIsTheSchedule` | 169,128 |

Three runs end in a violation; each is a disagreement of the code with its own
comments, quoted in `PROJECT.json` ("findings"):

- `device_lost_timeout`: the timeout map is keyed by the id alone, and every
  message cancels; a client's request with the same id cancels the timeout of the
  device's own request, which then never ends if its answer is lost.  This is why
  `OpenHasTimeout` and `EveryRequestEnds` are claimed without clients only.
- `device_stuck_link`: after a socket error the device believes it is connected, even
  when the reconnection fails.
- `server_registers`: function code 16 writes one register only, with a wrong low
  byte.  In `server` it is used for one register at a time, where it is right.

**What else the models show.**  These follow from the code and bound what the passing
runs claim; they have no run of their own.

- "Only if response is newer" (plc.cc:86) compares two times that are always zero, since
  the context is stored (industrial-device.cc:115) before its time is set (:126, :161).
  The order of TCP protects the data, as `plc_sensor` shows; under hooks that delay,
  `NewestDataStays` fails.
- Of the requests sent before a connection stands only the last is delivered; the others
  are lost with their callback (industrial-device.cc:141-145) and time out.  In the cycles before PLC_B's
  connection to the motor stands, the start (0x0F) replaces the speed (0x06) of the same cycle, so the motor is
  started without the speed that was decided, until the next cycle.  `LastCommandWins` is therefore stated per
  target, and for a target that is not the last its cycle commands (`Closing`) only if its command found the
  connection (`early`); without that condition it fails on `plc_actuator`.
- When PLC_A alone loses the position of the bottle, it may pour where the bottle
  was: PLC_B moves a full bottle on while PLC_A's last position is still trusted.  That link is
  therefore not in `Silences`, and `LineMargins` excludes it; the other links may be silent.
- PLC_A fills within nine tenths of the accepted variation (plc-a.cc:111), PLC_B stops the belt
  within all of it (plc-b.cc:73).  A bottle that a halt brings to rest between the two stays
  there for ever: `Stranded` in `Productive`.
- A train (`multi-injection.cc:18`) adds the present time to its delays, so it sends and
  stops at about twice its start time and ignores the end of its entry.  The comment
  at testbed.cc:465 speaks of twice `AttackNumber` messages; it sends `AttackNumber`.
- The end of the simulation is posted before it runs (testbed.cc:621), the stop of a train
  when the train starts (multi-injection.cc:25).  A train that is done at the very end is
  therefore not logged, while an entry that ends there is: `Fits`.  The proof of
  `LogIsTheSchedule` needed the distinction.
- A jammer outlasts its label in `attacks.json` by what is left of a waveform, up to 0.4 s times the
  duty cycle (`Overrun` in `Covered`): the label says when the next waveform was cancelled.
- For a train, `Until` is the doubled time that the code computes, so `LogIsTheSchedule` says that the log
  agrees with what the train did, not that it agrees with the (name|start|end) of its entry that
  Readme.md:13 promises.
- Entries of one device must lie apart (`Separate`), a flood's by more than its pause; otherwise
  hooks are lost (the slot is never given back), windows merge, or a flood doubles its rate.
  Only `MessagesAreLabelled` needs no such assumption.  `HooksFollowSchedule`,
  `OneChain` and `LogIsTheSchedule` fail on `windows` without it.

**Bounds.** `TidMod` (two to four ids) stands for 2^16: it is the number of
requests in flight at once, and two already show a request overtaken by another
one's response, timeout or reconnection, the same id at two servers and its reuse; four let
commands of several cycles wait for one connection.  `plc_actuator` leaves out the
sensors, whose requests use connections of their own; PLC_A's actuators have one target each, which
is the part of PLC_B's cycle that only stops the motor.  `MaxSample` is two: an older and a newer value.
Two servers show that messages of one do not disturb the other.  Nine coils need two
bytes, with the last one not full; nine, eight and one item are read and written.
`MaxMessages` ends a behaviour, as the end of the simulation does in `windows` (hence
`CHECK_DEADLOCK FALSE` in these two and nowhere else); five messages give whole, combined and cut ones.
The line's constants keep the proportions that matter, or err towards less time for the
controllers.  From the upper threshold to the brim the tank takes 14 cycles of the pump
(14.1 by config.h), a request times out after 6 plant cycles (150 ms), a full bottle takes 16
more cycles of pouring (17 at the highest level of the tank), and a bottle crosses the zone of the
filler in 12 cycles (16 at the speed of 100 that the testbed uses) and fills in 13 (170 or
more).  The rest of the tank's range, of the spacing of bottles and of the leak sensor's five
seconds is shortened: nothing in the logic depends on it.  An outage may begin at any
moment and last for ever, but it is one outage of one link; overlapping ones are left to the theorems.
Each run takes one order of the plant's updates, `filling` the tank first and `filling_live` the belt
first; the theorems are for all.  The room of `filling` is smaller than
`LineMargins` asks for, which adds up worst cases that cannot all come together; so TLC covers numbers that
the theorems do not.  `filling_live` lies within `LineMargins` (`MarginsAssumption`), hence its longer belt.
`windows` has times 0 to 6 with a pause of 2: entries that touch, nest, overlap and lie apart by the pause
exactly, an entry and a train that end with the simulation; three entries show a window between two others.  A
waveform lasts 1, so that its jammer may stop in its middle, or at its end, and the next entry begin there.
The setting is the wireless one; in the wired one a list is what is left of it without the three modules.
`SizeAssumption` excludes tables whose size does not fit the eight-bit loop counters
(the loops would not end); the testbed's are far smaller.  `RequestAssumption` excludes requests that bring
more than 32 bytes of coils: the offset in plc.cc:328 has eight bits and would start over, on the first coils.

**Fairness.** Only of events that the simulator has scheduled and nothing but the
modelled cancellation removes: `HandleTimeout`, delayed callbacks, for the PLC its
`Cycle` event and the sends inside it, and for the line `Work`, the events of controllers and
plant taken together (time passes only up to the next event that is due, so one of
them always comes).  The operator and the outages are not fair.  Nothing is assumed of the network, the
servers or the hooks: requests end, and silent sensors are flagged, because of
timeouts alone.  `SilenceIsDetected` relies on the cycle asking the sensor each
time, as both PLCs do.

## Proofs

| Theorem | Of | Along |
|---|---|---|
| `TypeCorrect`, `ResponsesAreExpected` | `[]TypeOK`, `[]NoOrphanResponse` | `DeviceInv` |
| `DeviceEndsOnce` | `Spec => EndsOnce` (refinement) | `DeviceInv`: a step ends or opens the outcome of one id, or stutters |
| `ClientNeverForgets` | `[]OpenHasTimeout`, assuming `Clients = {}` | `DeviceInv`; only responses cancel, and only their own id |
| `PLCCorrect` | `[]PLCInv` | `PLCInv` |
| `PLCIsADevice` | the PLC keeps `EndsOnce` | each PLC step is a device step or a stutter |
| `OnlyCutsLose`, `NothingIsCut` | `[]CutsAreTheOnlyLoss`; `[]StreamIsMessages` if `Backlog <= SegmentSize` | `FramingInv`, `SmallBacklogInv` |
| `AddressesAlwaysFit` | `[]AddressesFit` | `ServerInv` |
| `PLCServesMemory` | `Spec => ServesMemory` (refinement), assuming `RegistersOneByOne` | `MemoryInv`: what a request does and what its client makes of the bytes is what the memory does |
| `DataStaysNewest` | `NewestDataStays`, assuming no hook delays | `OrderInv` |
| `ActuatorsObeyLatest` | `[]LastCommandWins`, assuming no hooks, no breaking links, `ClosingComesLast` | `CommandInv` |
| `LineTypes`, `PumpTurnsOffInTime` | `[]LineTypeOK`, `[]TankNeverOverflows` | `PumpInv` |
| `BottlesAreHandledWell`, `NoSpill`, `BottlesLeaveFull` | `[]BottleLineInv`, `[]NothingSpilled`, `OnlyFullBottlesLeave`, assuming `LineMargins` | `BottleInv` |
| `WindowsAreInvariant`, `NothingGoesUnlabelled` | `[]WindowInv`, `[]MessagesAreLabelled` | `WindowInv` |
| `FloodsKeepTheirRate` | `[]OneChain` | `ChainInv` |
| `ScheduleIsKept`, `HooksAreInForceAsScheduled`, `LabelsAreTheSchedule` | `[]ScheduleInv`, `[]HooksFollowSchedule`, `[]LogIsTheSchedule` | `ScheduleInv` |

`NoOrphanResponse` is not inductive: to know that the context of a message on its
way is still there when a *response* erases a context, one must know that the
response belongs to another message.  `DeviceInv` therefore adds that a
transaction has one server (`OneMessage`), that its message is in one place at a
time (`OnePlace`), and that context and outcome agree (`ContextTellsOutcome`), which also
gives the refinement: the outcome of a message is open exactly when its context
says so, so a response that is expected ends an open request.  The one assumption
behind it is the guard on reused ids.

That the data the control logic trusts was measured needs the same of the flags outside
the snapshot and of every value on its way to the PLC (`MeasuredInv`).  Of a sensor that refuses
requests only less is true: its flag may be clear over the initial content (`From`).  That a late response cannot bring an
unmeasured value follows from `OnePlace`: the payload of an id is not changed by a
new request while a response with it is still travelling.

`NewestDataStays` and `LastCommandWins` are about order across reused ids.  `Age(t)` counts
back from the latest id sent; a new request makes every other one older by one
(`AgesGrow`), so ages compare two messages however often the counter has wrapped.
`OrderInv` says that what travels to a server is younger than what travels back
(`RequestsAreNewer`), that younger answers carry later values (`AnswersInOrder`), and that the
register holds none later than one still to come (`RegisterIsOlder`).  A request that
waited for its connection could break the first; that it cannot is `LinksAgree`: while a
connection is set up nothing travels back on it, and a captured request means that
the connected flag is clear.  This holds with dropped messages and breaking links.

`LatestIsCommanded` follows the commands about one target: the youngest under way carries the
decision, or, if none is, the target holds it.  Over a connection nothing is lost and the actuator takes
the oldest first, so what it holds when nothing is left was the youngest.  Without one, the new command
replaces the captured one, whatever that is about (`InstallCallback`), and is itself replaced by a later one.
So nothing can be said of a target in `early`, unless its cycle commands it last (`Closing`):
`ClosesLast(toSend)` says that such a command is still to come while anything for its actuator is, and when
the cycle is over it is the one that waits (`WaitingFor`), and the one that is sent when the connection
stands.  `ClosingComesLast` is what both PLCs do: 0x0F is the last that PLC_B sends to the motor in either case
(plc-b.cc:104-112), and PLC_A's valves have one command each (plc-a.cc:143-157).  A hook that drops commands
or a link that breaks loses the last one, and `LastCommandWins` with it, until the next cycle.

`AddressesFit` needs that tables never shrink below the flags, whatever a client
writes, hence `ServerInv` bounds the tables by what they were.

`ServesMemory` goes over the wire twice: what a client meant by its bytes, and what it makes of the
bytes it gets back.  `RequestsAreServed` takes the handlers one by one: a request that is not `Valid` is
refused, any other reads or writes the items it names.  `AnswersAreUnderstood` follows the answer back: the client's
bits and words are those that were packed (`BitsSurvive`: a byte is a sum of binary digits; `WordsSurvive`).
Both hold only while the tables are small enough, since the byte count of 128 words wraps in eight bits;
`MemoryInv` knows that they are, because a table grows by one for each new name (`SizeAssumption`) and
a write keeps its length (`ReplacedFacts`).  It also keeps the types of the tables, and that the
client's context is the request on its way.  `RegistersOneByOne` is needed because function code 16 serves
several registers wrongly, as `server_registers` shows; no device of the testbed uses it.
The proof corrected the mapping: `Meant` used to give values to writes that the code refuses,
which no request of the run had shown, so `server` now sends such requests too.

`NothingIsCut` states what the framing relies on: with `TcpNoDelay`, messages of
some fifteen bytes and segments of 536, a message is cut only if several hundred
bytes wait for the window.  When that happens, `ReceiveModbusMessage` drops the first
part (industrial-device.cc:256) and reads the rest as a header; the assumption is
the project's, the code neither checks nor states it.

`TankNeverOverflows` is about time: the pump may go on while the level that was read is
trusted, and a level is trusted until the flag of its sensor rises, `Timeout` after a
request that got no answer.  The invariant bounds the tank by `TankMax` plus the age of
the data behind the decision: at most `Timeout + MaxAge` when it is taken, two more
cycles until the next decision has reached the pump.  This is `MarginAssumption`,
`TankMax + Timeout + 3 * MaxAge < TankCapacity`; with config.h it is 12 cycles of 14.1.  The theorem
needs nothing of the bottle, the belt, which links fail, how often, or the order in
which the plant updates its values, and lets a full tank read as empty.

`NothingSpilled` and `OnlyFullBottlesLeave` are about two controllers that see the same bottle at
different times and never speak to each other.  `BottleInv` follows what was read
until it no longer acts.  A decision is taken on data at most a cycle old, or
`Timeout` older if the link may lose requests (`Ages`), and stays in force
for another cycle and the time a command is under way: `HorizonA` for the valve, `HorizonB` for the belt.

- PLC_B drives a bottle that is not full only as long as, by its data, it may stand before the filler.  When the
  motor is turned off it rolls on, by the sum of the speeds that are left
  (`RollInv`).  So a bottle that is not full comes to rest above `Stop` (`PlaceB`, `MoveB`,
  `StartB`), wherever the operator halts it.
- PLC_A opens the valve over a bottle in place.  While the valve is open the bottle has moved at most
  `HorizonA - 1` cycles' way, and if it is full, it started from above `Stop`:
  it has not left the filler (`PlaceA`), and gained no more than `HorizonA`
  cycles of pouring since it was read (`FillA`).
- PLC_B moves a full bottle once more after it has read the next one, because of what it remembers
  (`wasFull`).  A halt keeps that memory for as long as it lasts.  No harm is done: a bottle
  halted before PLC_B has read it again has gone no further than `Held`, so it is still on
  the belt, and full, when the memory is used (`FullB`, `FillB`).

All this holds for any order of the plant's updates, any drift of the cycles, any
script and any number of outages, with one exception: PLC_A's link to the
position of the bottle, as told above.  `LineMargins` also holds with the numbers of config.h.  Take seven
units for the 0.625 mm of a cycle at the speed of 100, so that the model's motor rolls on for 21 units, as the
real one does for three cycles' way; the accepted variation of 5 mm is then 56 units.  The first
margin takes 224 of 226 half-units when either PLC_A's fill level or PLC_B's links may be
silent, and fails when both may; a full bottle has room for 17 more cycles of pouring and needs 10; the
belt goes on for 470 units behind the filler and 154 are needed.

`MessagesAreLabelled` rests on three facts of `WindowInv`: no event lies behind the clock, a
waveform is pending only while its jammer is active (the stop cancels it), and every start
time is in the past.  So a waveform begins at the latest when its jammer stops, and ends no more than
its length later.  `OneChain` needs the schedule: a message that is still posted when
its module has stopped lies at most a pause behind the end of an entry whose start and
stop are where the list says, so a later entry that is apart finds it gone (`ChainInv`).

`HooksFollowSchedule` and `LogIsTheSchedule` say what the whole list comes to, so `ScheduleInv`
reads the place of each entry that is not skipped off the queue: its start is still to come (`StartsArePast`), it
is running (`RunningIsInForce`: active since its start, its hooks installed, its stop pending), or it
is done (`DoneIsPast`, `LogIsDone`: exactly its window is in the log).  The events of the
list are told apart by their numbers (`NumbersAreFresh`), a stop belongs to an entry
(`StopsAreEntries`), and an active module has an entry that is running (`ActiveIsRunning`), so a stop
never ends another entry's work.  At equal times it matters what was posted first:
the events of the list, then the end, then what handlers post.

Only model-checked: liveness (`EveryRequestEnds`, `SilenceIsDetected`, `Productive`;
beyond the prover).

## Not modelled

- Device identification (0x2B; constant strings), `StopApplication` (no application is
  given a stop time), the pace of the HMI's cycle (its requests may come at any time).
- Message contents changed by hooks: `ModbusDevice` lets every message be delayed or
  dropped; the one content the testbed changes keeps the motor running, which is meant to break
  the line.
- Real time between devices: in the device and PLC models every pending event may be next, so they
  allow more orders than the durations do.  Only `FillingLine` and `HookWindows` have
  clocks, in units of their own.
- The plant's real arithmetic: flows are whole units, see the bounds.
- Radio power, spectrum analysis, logging other than `attacks.json`, command line, wiring.
- The vendored simulator.  It is by far most of the repository's lines, and the models
  take from it only what the devices' callbacks promise: the order of events, TCP's stream
  and the outcome of connections.

## Plan

Done, in this order: device, PLC, framing, server; plant and filling line; windows of the
modules; and their proofs.  What would add most from here:

1. `FillingLine` with hooks in force on a controller, by the windows of `HookWindows`.
2. The HMI's cycle on `ModbusDevice`, with its first four requests before the connection stands.
