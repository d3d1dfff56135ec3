# EV battery service gateway: models, checks and proofs

This directory holds TLA+ models of the EV battery service system, the TLC
configurations that check them on small instances, and proofs of the properties
that matter most for instances of every size. Everything is translated from the
sources under `linux-gateway/app` and `tools/can-simulator`; the documents under
`docs/` are quoted only where a run compares the program with what they promise.

Contents: [1 the system](#1-the-system), [2 the plan](#2-the-plan),
[3 modules and code](#3-modules-and-code), [4 the runs](#4-the-runs),
[5 fairness](#5-fairness), [6 proofs](#6-what-is-proved),
[7 disagreements](#7-where-code-and-documents-disagree),
[8 limits](#8-what-is-not-modelled).

## 1. The system

A Linux gateway (one Python process, one asyncio loop) sits between the main
controller of a battery test bench on a CAN bus, the operator's browsers, and an
ERPNext server in which repair jobs and measurements are kept.

| part | source | state it keeps | operations |
|---|---|---|---|
| CAN service | `can_service.py` | the bus, `_running`, `_sequence`, the `GatewayStatus` object, three asyncio tasks | `start`, `stop`, `send_command`, the heartbeat, receive and timeout loops |
| status folding | `models.py`, `can_service.py` | fields of `GatewayStatus`, tables of cell voltages and resistances | one per kind of decoded frame |
| live status stream | `main.py` 33, 233-253 | the set `websockets`, one handler coroutine per browser, an iterator per running broadcast | `websocket_status`, `broadcast_status` |
| command endpoint | `main.py` 199-230 | `resistance_measurement_running` | `POST /api/command` |
| CAN codec | `can_protocol.py` | none | one decoder per frame, three encoders |
| ERPNext client | `integrations/` | none of its own; documents in ERPNext | list and read repair jobs, write the measurement status, create or overwrite a Battery Measurement |
| service processes | `service_processes.py` | none | build a measurement from the status and the request |
| local store, reports | `measurement_store.py`, `reporting/` | one file per measurement, a dict of reports | save, add, get, list, CSV |
| operator's page | `main.py` 1192-2351 | job lists, selected job, one form per tab, cached status, rows of the last measurement | fetches, button handlers, the websocket |
| CAN simulator | `tools/can-simulator/send_status.py` | a cycle counter | send the messages of a cycle |
| dev scripts | `start-dev.sh`, `stop-dev.sh` | pid file, port | choose a port, start, clean up |
| main controller | `firmware/` (README only) | its own state machine | external: takes commands, sends frames |

How they interact: the receive and timeout loops call the status callbacks and
*await* them, so `broadcast_status` runs inside those tasks and whatever it does
to itself (suspend, raise) it does to them. The command endpoint sends through
the CAN service's bus and writes into its status. The browser calls the HTTP
endpoints and listens on the websocket; one of the endpoints calls ERPNext with
blocking requests, during which the loop does nothing else.

What is hard about each part, and what would make it correct:

* **Live stream.** Two tasks iterate over one mutable set and suspend inside the
  loop, while handlers add to and discard from it, or end by an exception
  that discards nothing. Correct: nobody live is dropped, nobody unreachable
  survives the next broadcast, everybody ends up with the latest status, nobody
  is sent an older one after a newer one, a stall that ends leaves nobody behind.
* **CAN service.** Three tasks that die, hang or are cancelled at any await, a
  bus handle shared among them, frames out of order or repeated, a send that
  fails, a thread in `recv` that outlives its task. Correct: `stop` always
  completes, takes the bus away from no task, and ends what the status shows;
  silence is noticed; the measurement flag moves with frames really sent; what is shown
  of the cells agrees with itself.
* **Gateway and controller.** Lost frames, refused commands, a restart of the
  gateway under a running test, two commands that begin one. Correct: what can
  hide a running test is known, a test shown as stopped is stopped but for the
  same reasons, readings of an old test do not replace those of a new.
* **ERPNext upload.** A look-up and a store in two requests, answers that are
  lost or late, requests that are processed after the caller gave up, other
  users. Correct: an upload takes effect at most once, replaces a record only if
  it was asked to, its answer claims no more than happened, and the measurement
  is never lost locally.
* **Operator's page.** Handlers interleave at each `await`; five forms and six
  lists mirror one selection. Correct: what the page shows is what is saved,
  where it says it is saved.
* **ERPNext job status, event loop.** A status is read and written back in two
  requests; every ERPNext request blocks the loop the heartbeat and the emergency
  stop need. Correct: other people's changes of a job survive; the number of
  blocking handlers a heartbeat or a stop waits for is bounded, and a stop is
  tried and answered in the end.
* **Codec and simulator.** Byte order, signs, padding, ids that run into each
  other. Correct: a reading on show was made on that cell.
* **Service processes, reports.** Thresholds, rounding, cells beyond a count,
  two places that compute the same thing. Correct: the values in a record, in
  the report of the same moment and in its CSV agree, and none says more than
  was measured.

The list of hazards with their lines is in `PROJECT.json`.

## 2. The plan

Ordered by importance. All of it is done but the last item.

1. `GatewayStatus`, `CanService` with `CanServiceProofs`: the component
   everything depends on.
2. `StatusHub` with `StatusHubProofs`: the most intricate interleaving.
3. `Gateway` with `GatewayProofs`: 1 and 2 composed, the rx and timeout tasks
   being the broadcasters.
4. `MeasurementRun`: `CanService` composed with the controller.
5. `MeasurementRegistry` (abstract), `ErpUpload` which implements it, and
   `ErpUploadProofs`.
6. `OperatorConsole` with `OperatorConsoleProofs`, using the registry for the
   gateway and ERPNext behind it.
7. `EventLoop` and `JobStatus` on top of it, with `EventLoopProofs`:
   what blocking requests do to the heartbeat and the emergency stop, and the
   read-modify-write of a job's status among operators and ERPNext's users.
8. `CanProtocol`, `CanSimulator` and `SimulatedBus`, with `FrameProofs`: decoders
   and encoders on bytes, against the simulator and end to end into the status.
9. `ServiceProcesses`, `ReportContent` and `ServiceRecords`, with
   `ServiceRecordsProofs`: records and reports made of the live status.
10. Left: the page's status display (first fetch against the websocket) and the
    store of reports. Section 8 says why both are of little interest.

## 3. Modules and code

`PROJECT.json` maps every definition to its lines. In short:

| module | models | a step is |
|---|---|---|
| `GatewayStatus` | how one decoded frame changes the status | (operators only) |
| `CanService` | `can_service.py` and `/api/command`; `canRx` and `canTx` are the interface's queues | what a task does between two awaits |
| `StatusHub` | `websockets`, `/ws/status`, `broadcast_status`; `link` and `Wake` are what uvicorn does to a send | what a task does between two suspensions, a whole stretch of sends that do not suspend being one |
| `Gateway` | both; a broadcast is the callback of the rx or the timeout task, lives inside it and is cancelled with it | a step of either, or one of both where the callback is called, returns or raises |
| `MeasurementRun` | `CanService` and a controller that obeys or refuses each command, finishes or fails | a step of the gateway or of the controller, or a restart |
| `CanProtocol` | every decoder and encoder of `can_protocol.py`, on sequences of bytes | (operators only) |
| `CanSimulator` | the messages of a simulator's cycle | (operators only) |
| `SimulatedBus` | `CanService` whose frames are what `CanProtocol` makes of what `CanSimulator` sends, plus what only the controller sends | a step of `CanService` without `stop` |
| `ServiceProcesses` | `build_measurement_payload` for every test type | (operators only) |
| `ReportContent` | `build_report_from_status`, the verdict, the cells of the CSV | (operators only) |
| `ServiceRecords` | the live status those two read, as frames come in | a frame, silence, a start or stop of a measurement |
| `MeasurementRegistry` | what `start_service_process` and the client together promise of an upload | one effect or one answer |
| `ErpUpload` | `start_service_process`, the local store and `create_battery_measurement`, with ERPNext outside | one request or one answer |
| `EventLoop` | the asyncio loop, `_heartbeat_loop`, the emergency stop, and handlers that block in `urlopen` | a handler's start, one request's end, a poll of the loop, a heartbeat, or one tick |
| `JobStatus` | `update_measurement_status` on that loop, the button that asks for it, ERPNext and its users | a step of the loop, or one of ERPNext |
| `OperatorConsole` | the page's script around jobs, forms and saving | a handler up to its next await |

State by state. `StatusHub.cast[b]` is the frame of a running `broadcast_status`:
`size` and `ahead` are the set iterator (CPython compares the size on each
element and raises), `at` and `wait` the suspended send, `dead` the local list.
`CanService.rx`, `heartbeat` and `timeout` say where each task is suspended,
`dead` that an exception ended it, `cancelled` that `stop` asked it to end;
`lingering` is a cancelled rx task whose executor thread is still in `recv`
(`can_service.py:80`), which `stop` does not wait for and under which it shuts
the bus down: the thread ends at any moment after, with a frame of the interface
or without (`ThreadReturns`). `StatusHub.HandlerFails` is every end of a browser's
handler but `WebSocketDisconnect`: it leaves the socket in the set.
`MeasurementRun.mode` knows resistance tests only; `StartsTest` recognises the
frame of one, whether `internal_resistance_start` made it or a `measurement_start`
with the value 257, as both are the same bytes (`Parameter`, `main.py:215-223`).
`ErpUpload.call[c]` is the handler's progress, `server[c]` what ERPNext made of
its storing request, which goes on existing after the caller gave up.
`JobStatus.wire` holds the writes that are on their way, `live` while a handler
still waits for the answer. `EventLoop.waiting` and `batch` are the requests
that have arrived and those the loop has taken into its present iteration; one
iteration of the model stands for the few asyncio takes from a request's arrival
to its handler, none of which the heartbeat could be missed in.
`OperatorConsole.options`, `picked` and `module` are the DOM's select elements;
`run` holds the local variables of a `startServiceProcess` call that is awaited.
How long a request to ERPNext takes is left open in `EventLoop`: `timeout_s` is
for each wait on the socket (`erpnext_client.py:310`), not for the request.

Data is abstract where nothing depends on it and concrete where something does:
payloads of the simple frames are model values in `CanService` and bytes in
`CanProtocol`; voltages, currents and resistances are integers in the units of
the wire (1 mV, 0.01 A, 0.01 mOhm; records state a tenth of that resistance), so
that a comparison of the code is one of integers. A rounding whose exact half is
decided by binary fractions is the set of its possible results (`Roundings`), so
`LoadVoltages` and `ResistanceRows` are sets. A record name is the tuple of its
parts. In `ErpUpload` times are seconds of one clock.

History variables (`gap`, `excused`, `restarts`, `meant`, `beforeBeat`,
`beforeStop`) are marked in the modules; no action of the code reads them.

Each module also holds the mutants listed in `PROJECT.json`: operators whose
comment begins with "Mutant" and that no specification uses. Each is a plausible
slip in one definition and makes a property fail.

## 4. The runs

| run | question | result |
|---|---|---|
| `StatusHub_browsers` | three browsers, two broadcasters, every interleaving, with handlers that fail: is anybody dropped, left behind or sent back in time, does an unreachable socket survive a broadcast? | no |
| `CanService_lifecycle` | start, stop, commands and failures, with a callback that returns, suspends, hangs or raises: does stop complete and take the bus after the tasks, does the status stay as it was although a thread is still in recv, does the flag move with frames sent? | yes |
| `CanService_tables` | the simulator's packets in any order, lost and repeated, byte by byte: is each reading on show one of that cell, the summary that of the table, the sign of the current kept? | yes |
| `Gateway_working` | does a broadcast live exactly as long as its task; if no stall lasts for ever, do browsers that are behind catch up, and is silence noticed in spite of broadcasts that hang; does shutdown complete? | yes |
| `Gateway_fault` | does a fault frame always reach the status? | **violated** |
| `MeasurementRun_test` | is a running test shown but for a restart, a raw start or a refused stop, does one shown as stopped stop, are the newest readings kept? | yes |
| `ErpUpload_registry` | does uploading implement the registry; are records whole, is nothing lost? | yes |
| `OperatorConsole_lists` | late, reordered and changed job lists against choices in two tabs and uploads under way: do all forms agree with the selected job and stay within its modules? | yes |
| `OperatorConsole_overwrite` | is the record overwritten the one the operator was asked about? | **violated** |
| `ServiceRecords` | for every status frames can lead to and every request: are stored resistances as exact as the current allows, cells in place, modules in order, record, report and CSV in agreement, faults never forgotten? | yes |
| `JobStatus_loop` | two browsers that write statuses or use other endpoints, an emergency stop, writes lost or late, users who edit: do a due heartbeat and an arrived stop wait for two handlers of a connection at most, is the stop answered, no flag taken back? | yes |
| `EventLoop_erpnext` | with the code's own times, does the heartbeat meet the controller's watchdog? | **violated** |

What the holding runs show is narrower than their titles in some places, and
the properties say so. `Fresh`, `UnreachableDropped` and `BehindCatchesUp` except
what a broadcast left undone that ended in an exception or skipped a browser
(`gap`). `BehindCatchesUp` and `SilenceNoticed` suppose that no connection stalls
for ever (`StallsEnd`), which the code does not see to. `BusOutlivesTasks` is about
the three tasks, not about the thread in `recv`. `TestIsShown` and
`StoppedMeansStopping` except a test under which the gateway was restarted, one
begun by a raw `measurement_start` and one the controller refused to stop
(`excused`); and neither forbids that a refused start is shown as running.
`GapBounded` and `StopBounded` count handlers, not time, and `StopIsAnswered` says
that the operator is told whether the stop was sent, not that it was.
`SummaryMatchesCells` and `RecordAgreesWithReport` except a table that now reads 0
everywhere, and the latter records of fewer cells than were read. `NothingLost`
excepts measurements of one kind, job and module saved within one second, of which
the last is kept; `WholeRecords` names a caller chose. `FlagsAsMeant` is about the
*other* flag: a write that is processed late counts as meant, also after a user
cleared the same flag. `FaultStaysInReports` states what the code does, a report
that fails for ever after one fault, and not that this is wanted.

Bounds, and why they are enough.

* `MaxPublished` (status changes announced) and the number of browsers:
  `StatusHub_browsers` has three browsers, one that joins, one that leaves (the
  two hide each other from the size check) and one on which a send is suspended,
  and three changes, so that a suspended broadcast is overtaken by one of the
  other task and the latter by a new one of the former. `Gateway_working` has two
  browsers and four changes; `Gateway_fault` needs five, as `Room` keeps some for
  frames on their way.
* `RxCap`, `TxCap` (interface queues): with two slots, a queue is full, empty,
  or holds a frame that waits behind another; with one, full or empty.
* `MaxAge` is the timeout in ticks; ages above it are alike, so they stop there.
* `SeqModulus` stands for 256: the counter wraps after two, or at once where it
  does not matter.
* `MaxRuns` 2 gives an old and a new test, `MaxRestarts` 1 one the gateway has
  forgotten. The requests are a start of the test on the lowest level, the same
  start as a raw `measurement_start` of 257, one of 0, and a stop.
* `Cells` 4 makes a second packet with one cell and two fillers; `Counters` 1 and
  2 give every cell two readings, so that an old one is told from a new one.
* `MaxNow` 1 gives the same and a different second. Three uploads give a lost
  one, its retry and a competitor under one name.
* `OperatorConsole`: two jobs, one that has its module count and one that leaves
  it to the operator (`MaxModule` 2); the list of both, and the empty list (the
  theorems are for all lists); two `Loads`, interchangeable by `SYMMETRY` since
  only their answers matter, let one list overtake another; two calls are an
  upload and its overwriting repetition; `Edits` are two records other users
  may make.
* `ServiceRecords`: two packets of cells, and readings, currents and requests on
  both sides of each threshold of the code (30 and 50 mV, 3 and 5 mOhm, the
  warning limits, no current, a tiny one, one of the other sign, no cell read,
  fewer cells or more modules than there are).
* `JobStatus_loop`: two connections with two requests each, the least that lets a
  handler overtake and be overtaken; `Period` is one tick, since no property checked
  here depends on how many it is. `sinceBeat` is counted up to `Watchdog` + 1.
* `EventLoop_erpnext`: ticks of 250 ms, so `Period` 2 is the 500 ms of
  `_heartbeat_loop`, `Watchdog` 4 the documented 1000 ms; requests take as long as
  they take.

`CHECK_DEADLOCK FALSE` where bounded counters run out and where a gateway that
was shut down and browsers that left do stop. `ServiceRecords`, `JobStatus_loop`
and `EventLoop_erpnext` are checked for deadlock.

## 5. Fairness

Weak fairness only, and only of what the event loop or the kernel does by itself.
`CanService`: ready tasks run, cancelled tasks are thrown their exception; a
status callback need never return, nobody need send frames or commands, and `Tick`
is not fair either; nor is the thread left in `recv`. `Gateway` adds that a task
whose send was woken is resumed. Nothing says that a congested connection drains
or is closed: a peer that keeps TCP alive and does not read holds it up as long as
it likes, and uvicorn's keepalive waits for the same buffer. So this is no
fairness but the hypothesis `StallsEnd` of the two properties that need it,
`BehindCatchesUp` and `SilenceNoticed`. `WorkingSpec`, which only the violated run
`Gateway_fault` uses, assumes more than the code gives: an interface that never
fails and stalls that end, so that its counterexample is about neither.
`MeasurementRun` assumes the controller reads what is queued for it. `JobStatus`
assumes that the loop goes round (`Iterate`, `Served`) and that every request ends
(`Answered`): each wait on the socket does by `timeout_s`, and that ERPNext does
not answer piecemeal for ever is an assumption about ERPNext, on which
`StopIsAnswered` rests. It need process nothing. `StatusHub`, `ErpUpload`,
`OperatorConsole`, `SimulatedBus`, `ServiceRecords` and `EventLoop` assume
nothing: their properties are safety properties.

## 6. What is proved

`tlapm` checks the proofs below for all values of the constants, under the
assumptions named in the modules: browsers, sockets and connections are finitely
many, `NoSocket`, `None` and the like are none of the values they stand apart
from, uploads are numbers, times and bounds are natural numbers, decoded cell
packets hold natural numbers (`FramesDecoded`, which `AnythingDecodes` shows of
the codec), a request's numbers are integers or missing (`RequestsTyped`, the
types of `ServiceProcessStartRequest`, `service_processes.py:107`), currents are
16-bit signed (`CurrentsFit`) and the fields of an acknowledgement bytes
(`AcksFit`). TLC evaluates these assumptions for the instances it checks. Every
invariant and every action property of the passing runs has a theorem; only
liveness is left to TLC.

**StatusHub** (`StatusHubProofs`). `TypeCorrect`, `NobodyDropped`
(`LiveRegistered`), `LatestStatusDelivered` (`Fresh`), `UnreachableLeave`
(`UnreachableDropped`) and `NeverBackwards` (`SentInOrder`). `Fresh` and
`UnreachableDropped` are not inductive. Both speak of the moment when all
broadcasts have ended, and what makes them true then is `Covered` throughout: a
registered socket, reachable or not, that is not up to date is ahead of some running
iterator or on its dead list, or the iterator was disturbed by a newcomer, or a gap
is on record. `LiveRegistered` needs `DeadAreClosed`: a dead list contains closed
connections only, and closed ones never come back. `SentInOrder` needs
`SeenBounded`: nobody has seen what is not yet published, and every send writes the
current version. `CallShape` says
which call records occur. The conjunction `IInv` is inductive (`Invariance`);
one lemma per action, and two (`RunIntoStep`, `RunOutStep`) for the stretch of
the loop that a start and a resumption share.

**CAN service** (`CanServiceProofs`). `TypeCorrect`, `BusLast`
(`BusOutlivesTasks`), `StoppedStays` (`StoppedStatusStays`), `SummaryKept`
(`SummaryMatchesCells`) and `FlagWithFrame` (`FlagFollowsSend`). The invariant's
part `Life` relates the three tasks, the bus and `stop`: a running service is not
being stopped, before `start` no task is there, and the bus is open unless all
tasks that use it have ended, which is what `stop` waits for in its gather.
`StoppedStays` needs that the thread left in `recv` hands its frame to nobody. Its
part `StatusInv` says the tables are sequences of readings and the summary is
theirs (`Shaped`, `Summarized`); `FrameApplied` shows that every frame keeps that.
`TestShown` (`TestIsShown`) is about `MeasurementRun`, for queues of any length.
What is shown depends on commands that are still queued, so the invariant
`ShownAhead` looks at the whole queue: whenever a test *may* run once the queue is
through (`MayRun`: it runs and no stop is queued, or a start is queued and no stop
behind it), the flag is up or the test is excused. `NewestKept` (`NewestTestWins`)
needs the whole line from the controller to the table (`Order`): the tests of the
readings in the table are none newer than that of the frame the receive task
holds, which is none newer than the queue's, which ascend up to the present test.
A restart empties the first three at once.

**End to end** (`CanServiceProofs`). `CellsKeepTheirReadings`
(`ReadingsOfTheirCells`) and `MeasuredIsShown` (`ShownAsMeasured`), for any number
of cells and cycles, under the hypothesis that the service receives the
simulator's frames (`Frames \subseteq SimulatedFrames`; the run gives `Frames`
exactly that value). The invariant `MeasuredInv` says that each cell's entry is 0,
for not measured, or a reading of that cell. It rests on `SimulatedSent`: the
message of each kind decodes into the values it was built from, by the round trips
of the codec; and on `StoreFits`: folding a packet in puts its values where they
belong, pads with zeros and moves no other cell. The filler of the last packet is
why an entry beyond the pack may be 0.

**Gateway** (`GatewayProofs`). `StreamRefined` and `ServiceRefined`: each
behaviour of the composed gateway is one of `StatusHub`, and one of `CanService`
without its fairness. `StatusHubProofs` is instantiated for the gateway's state
(`Stream`), its assumptions shown of the gateway's constants (`StreamAssumed`), so
that its theorems apply: `NoBrowserDropped`, `LatestIsShown`, `UnreachableGo` and
`ShownForward` are the stream's `LiveRegistered`, `Fresh`, `UnreachableDropped` and
`SentInOrder` in the gateway, for any number of browsers and frames and whichever
of the service's tasks die. They follow from the refinement, so no run of the
gateway checks them again. `CallsBelong` (`CallBelongsToTask`)
needs besides itself the shape of the call records and that no task is there
before `start` (`Calls`, `NoTasksYet`).

**ERPNext upload** (`ErpUploadProofs`). `TypeCorrect`, and `Refinement`: every
behaviour is one of `MeasurementRegistry`, with a name's holder read off the
record and the upload's state off the handler's phase. The invariant it needs
relates the handler to ERPNext. `RequestsHaveCallers`: ERPNext has heard of an
upload only once its storing request was sent, an upload reported as stored was
done, and a PUT was asked to overwrite. `UploadsHaveNames`: what is uploaded has
a name of the registry. Each step then maps to a registry step or a stutter; a
request processed after its caller gave up is the registry's effect after
"failed". `Stored` (`NothingLost`): uploads begin in the order of their numbers,
so whoever wrote a file last is not older than those before. `RecordsWhole`
(`WholeRecords`): a slot's name tells the kind, so all that was ever put into it
has rows of one kind, and each write replaces those.

**Operator's page** (`OperatorConsoleProofs`). `TypeCorrect`, `ShownIsSelected`,
`ModuleWithin`, for lists of any length. The invariant `FormInv` has all selects
hold one list with one position picked (`OneList`), modules within counts and
counts equal to the selected job's.

**Records** (`ServiceRecordsProofs`). `ResolutionHolds`: from the definition of
rounding, for every integer reading and current: the error in millivolts is at most
half, and the bound on the resistance follows by multiplying out. `RecordsAgree`:
the kept summary is that of the table (the invariant of the status again), and
cutting a table at its own length changes nothing. `FaultsStay`: nothing sets
`fault` back to `None`. `RecordsOfThePack`
(`CellsOfThePack`) and `BalancedUpwards` (`BalancedToHighest`): minimum and
maximum of a table's readings are members of a finite set (`FiniteMin`,
`FiniteMax`). Induction over sets is out of reach, so those two lemmas suppose a
subset without an extreme that contains no smaller such subset
(`SmallestMember`), and take one element away. `DealtInOrder`
(`ModulesInOrder`): division by the size of a module is monotone and takes each
value for a whole block of cells, and the size, being rounded up, leaves no cell
beyond the last module.

**Codec** (`FrameProofs`). `SignedRoundTrip`, `CellPacketRoundTrip`,
`ResistancePacketRoundTrip`, `SeventeenthPacketIsPack`, `AnythingDecodes`: for all
words, packets and byte sequences. `CycleMessages` gives the messages of a
simulator's cycle, which are a concatenation of lists, without an induction: if
the function behind `FlattenSeq` left the expected set, it would do so at a least
index, and its definition there says it does not.

**Event loop and job status** (`EventLoopProofs`). `HeartbeatGap` (`GapBounded`),
`StopWaits` (`StopBounded`). The invariant counts by where a connection stands
(`Once`): while the heartbeat or the stop is due and not yet taken into an
iteration, one handler of a connection may have ended, none if it is still to run
in this one; once taken, one more. No bound in time is proved, as the code gives
none. `RunsOnTheLoop` shows `JobStatus` to be a behaviour of `EventLoop`, so both
bounds hold of it (`Timely`). `FlagsKept` (`FlagsAsMeant`): a write on the wire
contains its own flag only.

Only model-checked: liveness, since the prover has no `ENABLED`. That is six
properties: `StopCompletes`, `SilenceNoticed`, `BehindCatchesUp`,
`ShutdownCompletes`, `StoppedMeansStopping`, `StopIsAnswered`.
Where a proof needed induction over data, it was replaced by a least
counterexample as above, or by an invariant over the steps. No module uses RECURSIVE.

## 7. Where code and documents disagree

Three are runs that check one property and find it violated.

1. `Gateway_fault`: a browser that connects or leaves while a broadcast is
   suspended makes the iteration over `websockets` raise (`main.py:247`); the
   receive task that awaited it is gone for good, unnoticed. The timeout task is
   lost in the same way, and with it the supervision of a silent bus.
2. `OperatorConsole_overwrite`: after "really overwrite?" the form is read again
   (`main.py:2077`).
3. `EventLoop_erpnext`: the heartbeat stops for as long as ERPNext takes to
   answer (`erpnext_client.py:310`, called from `async` handlers), against the
   1000 ms of `docs/protocols/can-gateway-protocol.md:164`. `urlopen`'s timeout is
   for each wait on the socket, so a request may even take longer than it: the code
   bounds the number of handlers between two heartbeats (`HeartbeatGap`), and their
   time not at all.

Without a run, being one line each:

* a start the controller refuses is still shown as running: the running flag
  follows the send, not the acknowledgement (`main.py:226`), while
  `docs/protocols/linux-api-contract.md:135` wants a refusal made visible;
* likewise a stop the controller refuses: the flag is down, the test goes on
  (`main.py:228`; `docs/protocols/can-gateway-protocol.md:231-240` has the refusals);
* a `measurement_start` with the value 257 begins the same resistance test as
  `internal_resistance_start`, and is not shown as running (`main.py:204`, 226);
* a browser's handler that ends by anything but `WebSocketDisconnect` leaves its
  socket in `websockets` until the next broadcast that gets through (`main.py:241`);
* `stop` shuts the bus down while a thread may still be in `recv`
  (`can_service.py:54`, 80);
* an emergency stop that meets a full transmit queue is answered by a bare 500 and
  not tried again: `CanError` is no `RuntimeError` (`main.py:224`);
* with all cells at 0 the status keeps the summary of the last valid readings
  (`can_service.py:125`), which a report states beside a record without one;
* with fault code 0, or in the fault state without a fault frame, the report says
  FAIL (`reporting/service.py:57`) and the record of the same moment recommends
  nothing (`service_processes.py:588`);
* module 0, the whole pack, is stored as `MOD01` (`erpnext_client.py:179`, against
  `docs/erpnext-integration.md:274`);
* the full cycle is announced under the name of a rest measurement, "Várt ERP név"
  (`main.py:1552`, 2062), and stored as a cycle (`service_processes.py:90`);
* loading the list again, as each upload does, selects its first job
  (`main.py:1773`);
* without an open job left, the one selected last is still written to, because
  the report form keeps its name (`main.py:2019`);
* the stage picked in a tab goes before the stage of the process
  (`main.py:1530`);
* the weakest module of a record is always "1" (`service_processes.py:212`);
* a report's time and id come from two readings of the clock
  (`reporting/service.py:73`);
* after a status was written, the page's log names the job then selected, which
  need not be the one written (`main.py:2014`).

The models have the code's behaviour in the cases they cover. Two branches of
the code no state reaches: the verdict UNKNOWN of a report, and a cell whose load
voltage is above its rest voltage.

## 8. What is not modelled

* The store of reports (`reporting/service.py:185`): a dictionary; reports made
  in one second share an id, as `NothingLost` shows of the measurement files.
* The page's status display and its commands: the display shows what it was sent
  last, and a fetched status older than the stream's is put right by the next
  frame. The reports tab, the token prompt, HTML, CSS and number formatting.
* The API token check: a comparison of two strings without state.
* The logged-in user and single-job reads from ERPNext, except for the time they
  take; `POST /api/measurements/local`, which is `ErpUpload`'s `Begin` without a
  job; `last_measurement_id` and its time, which the last write sets.
* Energies, charges in Ah and texts of a record; a cell packet's index byte; the
  simulator's sleep and its deprecated `--cell-packets`.
* Wall-clock jumps, which `CanService`'s age of the last frame is exposed to; what
  python-can and the kernel do to a thread whose socket is closed under it, beyond
  that it may still take a frame; the duration of anything ERPNext does.
* The name the page announces before a measurement: it differs from the stored one
  for the full cycle only (section 7).
* More than one gateway on one bus; development scripts; hardware and firmware,
  of which the repository has only descriptions.
