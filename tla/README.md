# Formal models of the crowd density analysis system

The repository holds a sensor client for a Raspberry Pi (`sensor-client/`), which
fuses thermal frames and LiDAR scans, runs a crowd model on them and posts the
results, and a small HTTP backend (`backend/app/`), which keeps the results in
memory and turns the latest one into a congestion level. This directory holds
TLA+ models of it, TLC configurations that check them on small instances, and
proofs, checked by TLAPS, of the properties that matter most.

## Inventory

| component | state | operations | interacts with |
|---|---|---|---|
| `ResultMailbox` (`shared_runtime.py`) | one slot, closed flag, condition variable | `publish`, `take`, `close` | ModelAdapter and Communication threads, Main |
| `SensorClientApplication` (`sensor_client.py`), `ManagedWorker` | `stop_event`, `failure_queue`, queues, five threads, exit code | `run`, `shutdown`; a worker reports an exception | all workers, Ctrl+C |
| `ThermalSensorWorker` | one frame in hand | capture with `v4l2-ctl`, put | thermal queue |
| `LidarSensorWorker` | child process, selector, one scan in hand | read the bridge's JSON lines, put, stop the bridge | bridge, LiDAR queue |
| `rplidar_c1_bridge` (C++) | stop flag, scan counter, motor and session | scan, write a line, stop | SDK, stdout pipe, signals |
| `FusionWorker` | `check_count` | fuse a pair, flush both queues | three queues |
| `ModelAdapterWorker` | loaded adapter | get a pair, infer, publish | fused queue, mailbox |
| `CommunicationWorker` | `consecutive_failures`, next heartbeat | take, POST with retries, heartbeat | mailbox, backend |
| `environment_config`, `debug_images` | none | validation, PNG files | read at start; called by Fusion |
| backend `models`, `server` | none, one thread per request | validate, store, answer | stores, scoring |
| backend `store` | bounded deques | `add`, `all`, `recent` | request threads |
| backend `scoring` | none | status of a location | store, clock |
| legacy `lepton_sensor_client` | spool directory | capture, upload, retry, restart | file system, server |
| legacy `raspberry_pi_sensor_client`, `mock_sensor_client` | none | post with retries | server |

What makes this program hard is not in any one function: five threads, a child
process and Main share one event, three bounded queues, one slot and one failure
queue; every blocking call has a timeout after which the event is looked at; a
thread may fail at any moment, also while Main is starting or stopping the
others; Ctrl+C can hit Main anywhere; and the flush of stale data runs while the
producers go on. `PROJECT.json` lists each such hazard at its line. What makes
the components correct:

* mailbox: a result is handed over once and in order, and nobody waits for ever;
* application: one failure, or Ctrl+C, ends every thread; the exit code tells of
  failures; a clean shutdown leaves nothing behind;
* pipeline: results keep the order of frames and scans, no sample is used twice,
  a flush bounds what is stale, nothing fused is lost while the client runs, and
  no full queue keeps a worker from stopping;
* backend: a status is that of the latest result in the window and does not go
  back in time, although results may be stored in another order than stamped;
* communication: results are stored in order and none is skipped, in a bounded
  number of copies; a result is stored or the client ends; the client does not
  stay out of touch with the backend;
* bridge: neither the process nor the thread that reads it outlives the other, a
  line that was written is handled unless the whole client stops, and the device is told
  to stop;
* legacy spool: a captured frame stays on disk until the server has it, through
  crashes and restarts, and is delivered once the server accepts;
* legacy sender: exit status 0 means that everything was delivered.

## Modules

| module | models |
|---|---|
| `SingleSlotHandoff` | abstract: what the docstring of `ResultMailbox` promises, as two sequences |
| `ResultMailbox` | `publish()`, `take()` and `close()` between waits, deadlines, the event; implements `SingleSlotHandoff` |
| `WorkerGroup` | abstract: what the threads of the client promise each other about queues and the stop event |
| `SensorClientApplication` | Main from the first `start()` to the exit code, `ManagedWorker.run()`, Ctrl+C; implements `WorkerGroup` |
| `FusionPipeline` | bridge, pipe, five worker loops, queues, flush; uses `SingleSlotHandoff` as its mailbox, implements `WorkerGroup` |
| `RplidarBridge` | the bridge process, its pipe, the thread that reads it, `stop_process()`, signals and kills |
| `ResultDelivery` | abstract: results offered one after another, stored in order, in several copies |
| `Delivery` | the Communication thread, its requests under way, the backend storing late; implements `ResultDelivery` |
| `LocationStatus` | operators of `scoring.py`: latest result in the window, rounded score, level |
| `InferenceBackend` | request threads over the shared store, clock and stamps, eviction; extends `LocationStatus` |
| `LeptonSpool` | the legacy client with a directory of frames, crashes, restarts and power failures |
| `LegacySender` | the legacy client that sends its standard input; implements `ResultDelivery` too |
| `...Proofs` | the theorems of the module they are named for |
| `MC...` | instances for TLC |

A definition whose comment begins with "Variant of" is a plausible mistake in the
definition it names. No module uses it; substituted for that definition it makes
TLC report the property listed with it in `PROJECT.json`, which shows that the
property depends on the code.

### ResultMailbox

A thread inside `publish()` or `take()` holds the lock except while it waits. One
action is one pass under the lock: `PublishStores` and `TakeReturnsResult` are the
passes that change the slot, `PublishReturnsFalse` and `TakeReturnsNone` those
that give up; `CallsReturn` says that every call comes to one of them. A pass that ends in `wait()` changes nothing and is a stutter. Each
wait lasts 0.25 s at most, so a pass may happen at any moment and `notify_all()`
needs no action. `published` and `taken` record the history. The order of the
tests in `take()` matters: the slot is tested before the deadline and the event,
which is why a late or stopping `take()` still returns a result that is there.

### WorkerGroup

The client is modelled twice: `SensorClientApplication` has any number of workers of which it knows
nothing but that they use queues, return and fail; `FusionPipeline` has the five workers and
what they do. `WorkerGroup` is what joins the two views: a worker puts only into the queues
it writes and takes only from those it reads, and only until it ends (`Exchange`); the last step of a
worker, return or exception, leaves the stop event set (`End`); queues are emptied from outside
only after that (`Drain`). Both modules implement it, by refinement mappings in which a worker is
alive until its place is the last one and a queue counts only as empty or not. A
worker that returned although nobody had set the event, the silent end that a
`publish()` returning `False` too early would cause, breaks it.

### SensorClientApplication

`main` is the place of Main: `start` (lines 85-86), `monitor` and `check` (the
`get` with its timeout and the test of the event, 88-94), `got` (a failure has
been removed from the queue and not recorded, 95-101), `shutdown` (122-123),
`join` (128-131), `drain` (132-134), `collect` (107-117), `finished`, `aborted`.
`worker[w]` follows a thread through `ManagedWorker.run()`; putting the failure and
setting the event are two steps. `Exchange` abstracts what workers do with the
queues to "not empty". `Interrupt` is KeyboardInterrupt: inside the `try` it leads
to `shutdown`, elsewhere it leaves `run()`. `join` can time out only on the workers
of `MayOverrun`: `infer()` has no limit of its own, and a request timeout may
be configured to be longer than the join.

A thread that cannot be started (`RuntimeError` from `start()`) leaves `run()` just as
Ctrl+C does there, and is not a separate action.

### FusionPipeline

A frame or scan is the number of its capture, so the order of numbers is the order
of `captured_at` for one sensor; `fused_at`, the later of the two stamps,
increases when both numbers do. The wall clock is taken not to jump back. A
place in a worker's loop is kept only where others can tell: time spent in
`v4l2-ctl`, in the model or in a PNG file is time spent before the next step.
`Flush` is one `get_nowait()` of `drain_queue()`, so producers run between any two of
them. The bridge stamps a scan, then blocks on a full pipe of `PipeSize` scans
(65536 bytes hold a few). The buffer of the text reader above the pipe
(`lidar_sensor_thread.py:95`) is not kept apart here: it hands on scans in the same order, so
`PipeSize` counts the scans that fit into both, and so does the bound of `StaleAfterFlush`. `RplidarBridge` has
the two apart. `check_count` is kept modulo `flush_every_checks`. `LoadAdapter`
leaves `adapter` false when debug mode goes on without a model; pairs are dropped then.
The `except queue.Empty` at `fusion_thread.py:67` cannot be reached, as Fusion
is the only consumer, and has no action. In `StaleAfterFlush` the history variable
`flushed` holds the number of captures at the end of the last flush. `QueueWriter` and `QueueReader`
say which worker `_create_workers()` gives which end of a queue.

### InferenceBackend

A request takes one or two steps, cut where another thread can come between:
`ReceiveResult` stamps `received_at` and `AddResult` appends under the lock, so two
POSTs can be stored in the other order than they were stamped in; `ReadForStatus`
takes the snapshot and `AnswerWithData` or `AnswerWithoutData` reads the clock
later. `recent()` needs nothing but its snapshot and is one step; its loop over the reversed
list, with the filter and the limit, is stated by ranks: a result that matches is listed at the place
that is the number of matching results from it to the end (`Matching`, `Rank`), if that is within
the limit. Threads come
back from a request to the next one: a thread of `Threads` stands for one
request at work at a time. `added`, `told` and the fields `number` and `after` of a
result are history: every result stored, the newest result a status has told of,
and which results were acknowledged before a request began. `answer` is what the
last step sent, so that the properties judge each answer once.

A score is an integer number of tenths of a percent. `RoundedScores` is a set: half-way
between two tenths Python rounds the binary quotient, which may lie on either side.
A payload is valid or not; a clock that jumps back, and requests that touch neither
store nor clock, are left out. So is the rest of `do_POST` on a body that cannot be
decoded: the request ends without touching the store.

### RplidarBridge

A record is a line of two halves, because a write into a full pipe, and a read from it,
can stop in the middle of one. `buffer` is what the text reader has read ahead of
the pipe: `SelectReadable` looks at the pipe, `ReadRecord` at the buffer, `FillBuffer` moves
any number of halves from one to the other. `worker` follows `_consume_bridge()` and
`stop_process()`: `stopping`, `waiting` (`wait(2)` after `terminate()`), `killing` (after
`kill()`). `bridge` follows `main()` and `runBridge()`; before `SetSignals` a signal ends the
process, later it only sets `g_stop_requested`, and a blocked write goes on after it.
`Close` is `~DriverSession()`; `issued` is the mark that makes it stop the device, and it
is set before `startScanExpress()`, which can fail after the device has started
(`ScanStartFails` leaves `scanning` open). `WaitTimesOut` is possible only where two seconds
may pass: in an SDK call, or in a write to a full pipe nobody reads. `ClientKilled` ends
the client without any handler; from then on writes fail. The ready record and the scans have
the same form; `greeted` tells them apart. Standard error, which nobody reads
either but which carries a few messages only, is left out, and so are the options.

Lines can be lost when the bridge exits. If its device stalls while a whole line is left in the
buffer, nothing makes the pipe readable until the bridge gives up at `--max-timeouts`; `poll()`
(`lidar_sensor_thread.py:110-116`) may see that end first and raise, and the line is never read.
The same goes for lines in the pipe of a bridge that fails. `LineHandledOrClientStops` says that
they are lost in no other way: as long as nobody has set the stop event, a whole line in pipe or buffer
leads to a line being handed out, in order, again and again until none is left, and a thread that leaves
lines behind sets the event and so ends the client. Both halves can break: with a count of
timeouts that starts anew (`CountTimeoutAnew`) a stalled device keeps a line in the buffer for ever, and a
thread that takes the end of the bridge for the end of its work (`PollQuietly`) loses lines while the
client goes on.

### Delivery

A result is its place in the order of `take()`, a request is a result and the number of
the attempt. `Attempt` puts the request under way, and from then on the thread and the
request go separate ways: `BackendStores` stores any request under way at any time, also
long after the thread has given it up and newer results are stored; `RequestLost`
loses it. `PostSucceeds` needs the request to be stored; `RequestFails` is always
possible. One counter, `consecutive_failures`, serves results and heartbeats.
`RequestRaises` is the exception that the `except` clauses do not name. `latest` is the entry
the backend stored last, which is what a status shows. Three guarantees follow from
the code's order of things: the next result is taken only after the one before was
accepted, a result is attempted at most `max_consecutive_failures` times (each failed
attempt counts and only an accepted one resets the counter), and so a late copy is always
one of a result that was stored before (`StaleOnlyFromRetry`). A store that is lost
by a restart of the backend is outside of the module.

### LeptonSpool and LegacySender

`file[n]` is what the directory has of the n-th capture: nothing, the `.part` file, the
`.y16` file, a `.y16` file damaged by a power failure, or nothing any more. `todo` is the
sorted list of `retry_pending()`; the loop takes its minimum. `fresh` tells whether the frame
in hand was captured in this cycle, as `run_cycle()` and `retry_pending()` treat errors
differently (`AfterFailure`). `Crash` and `PowerFails` may come at every place and keep the
directory only; `Start` begins again from it. `troubles[n]` is history: errors and ends of the
process while just that frame was in hand; `TroubleExplains` pays each extra copy, leftover
file and wrong time with one. A frame nothing calls `fsync()` for can be empty after a
power failure; `read_y16_frame()` then raises an error that `retry_pending()` does not catch, and
every later cycle ends at it: `CapturesGoOn` and `SpoolDrains` hold without such a file only.
A power failure
damages the content of files here; that it undoes an `unlink()` or a rename the file system
had not written yet is left out. File names carry the time of the capture: the order of names is that of
captures as long as the wall clock is not set back, which `PendingInOrder` takes for granted.
Requests that arrive after the client gave them up are left to `Delivery`.

`LegacySender` is `send()` and the loop over standard input. It ends at the first line it cannot
deliver, so that it implements `ResultDelivery` with `--max-attempts` copies.

## Runs

| run | instance | states | shows |
|---|---|---|---|
| `mailbox` | 2 publishers, 2 takers, 2 results, new calls while fewer than 3 results are published | 6 thousand | order, refinement, every call returns |
| `application` | 3 workers (model, fusion, sensor), 2 queues, 2 Ctrl+C anywhere | 18 thousand | exit code, quiet shutdown, one failure stops all, so does Ctrl+C in the loop, `run()` ends |
| `ctrl_c_at_start_up` | the same, Ctrl+C during the start loop | | Ctrl+C does not stop all, there |
| `pipeline` | sensor queues of 2, fused queue of 1, flush every 3rd check, pipe of 1, 2 frames, 4 scans | 2.5 million | order, bound on stale samples, types |
| `pipeline_liveness` | sensor queues of 1, flush every 2nd check, 2 frames, 2 scans | 226 thousand | refinement of `WorkerGroup`, every worker stops, every fused pair is delivered |
| `bridge` | pipe of 3 halves, buffer of 4, queue of 1, 2 timeouts | 11 thousand | neither side outlives the other, lines are handled or the client stops, the scan is stopped |
| `delivery` | 3 results, limit of 3 failures | 270 thousand | refinement, stale entries, stored or ended, in touch or ended |
| `truncated_answer` | the same | | the client ends below the limit |
| `backend` | 2 request threads, store of 2, 3 results, 3 ticks, windows of 1 and 2 ticks, 3 status and 3 recent queries | 1.7 million | statuses are true and move forward, order of `recent()`, level within rounding |
| `congestion_level` | the same | | the level is not that of the unrounded ratio |
| `spool` | 3 frames, 2 troubles with each | 41 thousand | kept until stored, order, leftovers explained, captures go on, spool drains |
| `legacy_sender` | 3 lines, 3 attempts | 28 thousand | refinement, exit status |

The bounds. Two threads on each side of the mailbox are one more than the client
has and make two threads compete for the slot; three results fill it, empty
it and fill it again. Three workers are one that may outlive its join and is
joined first, one in the middle and the last of the list; with two Ctrl+C
one can arrive before and one during shutdown. In the pipeline two frames
fill the thermal hand and queue around a flush, and four scans are one more than
what a flush cannot reach (hand, pipe, bridge), so both bounds of
`StaleAfterFlush` can be exceeded; queues and slot are full in reachable states.
Three results overflow a store of two, two threads stamp and store in opposite
orders with statuses between and after, and three ticks let a window of one pass.
For the bridge, a pipe of three halves holds one record and the first half of the
next, so a write can block in the middle of a line; a buffer of four holds two
lines, so one can be read ahead; a queue of one blocks the thread in `put`. For the
delivery, three attempts leave one that is late, one that is stored and one still
under way, while two newer results are taken and stored. In the spool, of three frames one can be
pending, one be rejected behind it and one be fresh, and two troubles with a frame are
a crash and an error after it. Three lines and three attempts of the legacy
sender do the same as for the delivery.
The theorems need none of the bounds of their modules.

Deadlock is checked where the model goes on for ever or says how it ends
(`mailbox`, the application runs, the backend, `spool`). The pipeline, the Communication
thread, the bridge with its thread and the legacy sender really stop, and their
configurations switch the check off; `StopReachesEveryone`,
`TakenIsStoredOrClientEnds`, `ThreadEnds` and `BridgeEndsWithClient` say that
they stop in the right place.

### Fairness

`ResultMailbox`: a blocked thread wakes every 0.25 s, deadlines pass, and the
Communication loop comes back to `take()` while the event is clear.
`SensorClientApplication`: Main never waits without a timeout; a thread that has
raised finishes `run()`; a worker looks at the event between any two blocking calls,
each with a timeout, except those of `MayOverrun`, for which nothing is
assumed. `FusionPipeline`: each worker takes a step when it is not blocked;
`infer()` returns; a request ends, since it is given up after
`max_consecutive_failures`. `RplidarBridge`: the thread and the bridge each go on when they
are not blocked (SDK calls have timeouts), Fusion takes scans until the event is set, and a
process that was sent SIGKILL ends. `Delivery`: the thread goes on, as a request ends
by its timeout at the latest; strong fairness of `BeginHeartbeat` says that the clock
reaches `next_heartbeat` again and again, which weak fairness cannot, since the test
finds the time not yet come in between. Nothing is assumed of the network or the backend.
`LeptonSpool`: a running client goes on; nobody promises to start it again or that the
server accepts, so these are premises of the properties. In `SpoolDrains` that premise, from
some moment on, together with the bound on troubles, says that errors with a frame are
finitely many. `LegacySender` has safety properties only. Nowhere is it assumed that a
sensor or the bridge delivers, that a worker fails, or that Main stops.

### Disagreements with the documentation

`docs/development.md:37` says that after Ctrl+C no sensor process or thread may
remain. `ctrl_c_at_start_up` shows an execution in which one does: the loop that
starts the workers (`sensor_client.py:85-86`) is outside the `try`, so
KeyboardInterrupt leaves `run()` without setting the event, and the non-daemon
threads keep the process alive until one of them fails. A second Ctrl+C that
arrives after Main has left the loop (lines 103-106) and before the event is set at line
122 has the same effect, and
`CaughtCtrlCStopsAll` names it as the only exception in the monitoring loop.

`docs/data-contract.md:74-81` derives the level from the ratio itself.
`congestion_level` shows a status that does not: `scoring.py:53` rounds the score to one
decimal and `_level()` gets the rounded score, so 36 people where 103 fit, 34.951
percent, are MEDIUM instead of LOW. It takes a capacity above 100. `LevelNearRatio`
bounds the difference: the level is right for a ratio at most 0.05 points away.

`sensor-client/README.md:124` says that communication failures are warnings and the client
ends when the limit of consecutive failures is reached. `truncated_answer` shows an end
below the limit: an answer that breaks off raises `http.client.IncompleteRead`
or `BadStatusLine`, which are none of the exceptions of `communication_thread.py:93-96`.

Behaviour the models have and no document speaks of, so that it is no finding: a bridge that is
killed two seconds after SIGTERM, during an SDK call or a blocked write, leaves the device
scanning (`ExitStopsScan` speaks of a bridge that ends by itself); a Ctrl+C in a terminal
reaches the bridge as well, and its exit may be reported as a failure before the
event is set; a spooled frame that the server always rejects holds up all pending frames
behind it, though no new one; a file damaged by a power failure ends every
cycle of the legacy client until somebody removes it.

## Proofs

All theorems hold for every value of the constants that the named assumptions
allow (`MailboxAssumption`, `ApplicationAssumption`, `PipelineAssumption`,
`BackendAssumption`, `BridgeAssumption`, `DeliveryAssumption`, `SpoolAssumption`,
`SenderAssumption`). Each safety property that is proved follows from an inductive invariant, named
`IInv` in its module (in `ResultMailboxProofs` the types and `HandoffInOrder`), which the initial states have and every action preserves:
lemmas for both, one step per action, then the theorems.

* `ResultMailboxProofs`: `Typing`; `OrderOfHandoff`, whose invariant is inductive
  together with the types (`OrderStep`); `Refinement`: every step of the mailbox
  is a `Send`, a `Receive` or a stutter of `SingleSlotHandoff` (`StepRefines`), which
  needs the order invariant to know that a free slot means that everything sent
  was received, and that the slot holds the oldest result not received. The types of the mailbox
  are proved and in no run.
* `SensorClientApplicationProofs`: neither `ExitCodeTellsFailure` nor
  `QuietAfterShutdown` is inductive, as they speak of the last state only. `IInv` adds
  that every worker is started once (`Unstarted`), where a reported failure is at
  every moment: in the queue, in Main's hand, in the exit code, or dropped by
  Ctrl+C (`Accounted`), how far the joins have come (`Joined`), and that after
  the drain only a worker that outlived its join can touch queues (`Drained`) or
  report (`Leftover`). `Invariance` proves it, one lemma per group of actions;
  `Typing`, `ExitCode` and `Quiet` follow from it. `Refinement`, that the application implements
  `WorkerGroup`, adds `Stopping`: the event is set once a worker has ended and wherever
  Main may drain. `MainIsNear` and `MainIsBounded` are about the length of a shutdown: `MainSteps`
  counts the steps of Main to its last place and one for each failure it may still find, in the queue or to
  be reported (`ToCome`). After the event every step of Main, and every Ctrl+C, lowers it, and no
  worker can raise it, since a failure that is reported late had been counted.
* `FusionPipelineProofs`: `Typing` needs `Hands` (a worker that puts or publishes
  has something in hand) and `SlotHeld` (the mailbox holds one result at most).
  `Order`, that results keep the order of both sensors, says nothing about what may
  be published next; `Line` adds that. For each sensor there are seven thresholds
  c1 <= ... <= c7, up to the number of the last capture, such that published results
  end at c1, the pair in the model lies in (c1, c2], the fused queue increases within
  (c2, c3], and so on back to the bridge. Each worker moves one threshold; a flush, or
  a put that is given up, only leaves something out. `Staleness` needs that nothing
  is flushed before it is captured (`FlushedPast`): a step brings nothing into
  Fusion's reach but a new capture, so stale samples become fewer until the next
  flush, which ends with an empty queue and leaves only what the worker and the pipe
  hold. The cardinalities are those of the library's theorems on finite sets. `Refinement` shows each
  worker's step to be one of its own in `WorkerGroup`. `NothingLost` is the core of `FusedIsDelivered`:
  the pairs published, in the model's hand, queued and in Fusion's hand, read in this order, are one
  sequence (`Underway`), which a step before the event keeps or extends by one pair; it needs that a
  worker that is not putting holds nothing (`EmptyHands`). `StopIsNear` and `StopIsBounded` are the core of
  `StopReachesEveryone`: `StepsLeft` gives each worker the number of steps from its place to its end and
  counts the samples in the sensor queues, which a flush may still take one by one. After the event every
  step of a worker lowers it.
* `RplidarBridgeProofs`: `NoneLeft`, `ExitStops`, `NoSilentEnd`, `Typing`. `Marks`: the device scans only after the mark was
  set. `Control`: no process before `StartBridge`, the last wait is given up only after
  SIGKILL, and the timeouts are below the limit wherever the loop goes on. `Told`: the thread leaves its
  loop only with the event set or with an exception, which sets it; `NoSilentEnd` follows. `ThreadIsNear`: once the event
  is set or its bridge is gone, the thread has at most eleven steps left, however much is in the pipe and in the
  buffer, because every record is followed by `poll()` and a test of the event. `BridgeIsNear`: a bridge that
  was asked to stop has seven steps left at most, one whose client was killed two for each timeout
  that remains and two more, or five while it starts; a write into the closed pipe makes it shorter.
* `DeliveryProofs`: `Typing`, `Staleness`, `Refinement`. `Attempts`: all attempts for the result in hand
  but the running one are counted. `Requests`: no request is of a result or attempt to come.
  `InOrder`: all results before the last are stored, and the last one wherever the thread
  may go on. From these, every step is an `Offer`, a `Store` or a stutter. `ResultIsNear` and
  `ResultIsBounded`: with a result in hand the thread takes at most two steps for each failure the
  limit still allows, and one more; the last of them leaves the result stored, the client stopping, or the thread failed.
* `LegacySenderProofs`: `ExitStatus` and `Refinement`, along the same argument.
* `LeptonSpoolProofs`: `Kept`, `Explained`, `InOrder`, `Typing`. `Files`: which file the frame in hand has.
  `Counts`: an extra copy not yet paid for by a trouble means that the file is gone or
  the process still knows. `Stamps`: the same for times and `.part` files. `Order`: while
  `retry_pending()` runs, `todo` is just what is pending. `CaptureIsNear` and `CaptureIsBounded`: the
  next capture is at most four steps for each frame and seven away, and each step of a running client
  lowers that, except for one that reads a damaged file.
* `InferenceBackendProofs`: `RoundedLevel` is arithmetic alone: for any number of people and any
  capacity the level is right within 0.05 points. `NoData`, `Forward` and `NearRatio` speak
  of the last answer; the invariant says that the store, and every snapshot a request
  holds, are the last `MaxResults` results added by then (`HoldsLast`), and that what a status
  told is a stored result of that location (`ToldOf`). An answer older than what was told would
  need the newer result to be missing from a later snapshot although it is still in the
  window, and only eviction can do that. `Typing` bounds the number of results added by that of the
  posts: no two have one number (`Numbers`), so the numbers map them one to one into the posts made.
  `LaterFirst` is about what `recent()` sends: ranks fall along the store, so each rank within the limit
  belongs to one result, and a result received after another was acknowledged stands behind
  it in the store (`Numbers` again) and before it in the answer.

Only model-checked: the liveness properties, which need fairness and `ENABLED` and are out of the prover's
reach. For most of them a theorem gives the safety half, for every value of the constants: a number
of steps that is bounded and that each step towards the goal lowers, while no other step raises it
(`MainIsNear` for `MainEnds`, `StopIsNear` for `StopReachesEveryone`, `ThreadIsNear` for `ThreadEnds`,
`BridgeIsNear` for `BridgeEndsWithClient`, `ResultIsNear` for `TakenIsStoredOrClientEnds`,
`CaptureIsNear` for `CapturesGoOn`), or that nothing is lost on the way (`NothingLost` for
`FusedIsDelivered`, `NoSilentEnd` for `LineHandledOrClientStops`). What stays with TLC is that some such step is always possible and is
taken, that is, that nobody waits for ever. `CallsReturn`, `TakenUnlessStopped`, `FailureStopsAll`, `CaughtCtrlCStopsAll`,
`InTouchOrEnded` and `SpoolDrains` have no such theorem. The application's
`ImplementsGroup` is proved and in no run.

## Not modelled

* `environment_config`: validation of a file at the start, without state. Its results are
  the assumptions on the constants.
* `debug_images`: PNG encoding; its failure is an exception of Fusion, which may come at
  any moment in `FusionPipeline`.
* `mock_sensor_client`: random payloads posted in a loop, each once.
* `SensorReading` in `models.py` and `ReadingStore` in `store.py`: nothing uses them.
* The content of frames, scans, requests, answers and log lines, and what a crowd model
  computes.

## Plan

Done: the modules above, with the theorems above. The order was that of importance: the
data path and its shutdown first, then the backend, the network between them, the
bridge, the legacy clients, and the proofs along with each.

Left:

1. A number of steps for `SpoolDrains` as well, a lexicographic one, as a trouble sends
   the client back.
2. The backend's store across a restart of the backend, behind `Delivery`.
