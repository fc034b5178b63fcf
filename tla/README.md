# fairino-fws in TLA+

`fws` is an HTTP gateway in front of a Fairino robot controller. Its handlers
run on a pool of threads; between them and the arm stand one control lock, one
RPC connection, a watchdog thread, and a good many check-then-act sequences.
This directory holds a specification of that code: TLA+ modules translated from
`src/fws/`, the TLC configurations that check them on small instances, and
proofs for TLAPS that hold for every value of the constants.

Check a module with `tlc -config X.cfg M`, its proofs with `tlapm M_proofs.tla`.
`PROJECT.json` lists the runs, the lines each definition stands for, the
hazards, the theorems and, for each property, a mutant of the code that breaks it.

## 1. The system

```
 HTTP clients ──> handlers (thread pool) ──> control lock (table of leases)
                      │                            ^         │ lapsed leases
                      │                            │         v
                      │                         reaper thread: on_lapse
                      v                                      │ stops
                 RobotDriver: breaker, one lock  <───────────┘
                      │
                      v  XML-RPC 20003 · file ports 20010/20011 · telemetry 8083
                 robot controller (external)
```

| Component | State | Operations | Talks to |
|---|---|---|---|
| Control lock, `control.py` | `_leases`: domain → lease; `_lapse_errors`; `_stop` | acquire, renew, release, break_lock, reap, close | handlers (calls), `on_lapse` (callback on the reaper thread) |
| RPC driver, `driver.py` | lock, run of failures, `_offline_until`, `last_set_mode` | `_call`, `set_mode`, one method per RPC | controller; every handler and thread |
| Command path, `app.py`, `move_api.py`, `programs_api.py`, `control_api.py` | the request on each thread; the cascade of stops in progress | gates, jog, move, run, pause, resume; stop, program stop, safety stop; `on_lapse` | control lock, driver |
| Event bus, `eventbus.py`, fault poller in `app.py` | subscriptions with bounded queues and drop counters, sequence number, last value seen | subscribe, publish, get, unsubscribe; EdgeDetector | poller thread, websocket handlers |
| Programs, `programs_api.py`, `files.py` | the controller's programs, what is loaded, the gateway's index | upload, load, select, run, delete | driver, file ports |
| File transfers, `files_api.py`, `files_wire.py`, `backup*.py` | file index; one transfer port | download, upload with `if_match`, commit, delete, restore | driver, file ports |
| Capabilities, `capabilities.py` | verdict for each capability | sweep, has, re-probe, require | driver |
| Log fetcher, `lua_verdict.py` | in-flight flag, cooldown, shared archive | fetch | a driver of its own |
| Stores: `poses.py`, `recorder.py`, `events.py`, indices | memory and a file for each | save, delete, rename; start, feed, stop, dump; record | disk |
| Client, `client.py` | lease, heartbeat thread, stop event | control(), beat, close | gateway over HTTP |
| Invocation gate, `invoke.py`, `invoke_api.py`, `commands_api.py`, `access.py` | the full-access latch | check_callable, coerce_args, requirements, gate | control lock, driver |
| Start, `config.py`, `cli.py`, `auth.py` | settings, the key file's digests | load, check, build, serve; middlewares | every route |
| Telemetry, `telemetry.py` | buffer, latest state, its age | run, read frames | port 8083 |
| Services `services/*` | a socket for each session | telnet filter, login, run; FTP; qconn | controller's OS |
| Path check, lint, contract, listing, verdict grammar | none | functions over text and archives | programs, files |
| Models, metrics, catalogue, protocol tables | none | rendering and data | |

What is hard about it:

* **Interleaving.** Handlers are synchronous functions on a thread pool; the
  gate of a route and the RPC it guards are separate calls, with other threads
  and the clock between them. So are the clock reading and the mutex of
  `acquire()` and `reap()`, and the RPC and the note of it in `set_mode()`.
* **Timeouts and lost answers.** An RPC without an answer may have been carried
  out. The breaker counts such calls and then refuses new ones for a while.
* **Partial failure.** A stop is a cascade of RPCs each of which may be refused,
  lost, or answered with something that is not XML-RPC.
* **Liveness.** A client that disappears is noticed by one thread only, and what
  that thread then calls can fail in all these ways.
* **Shared single resources.** One RPC port, one transfer port, one loaded
  program, one Lua interpreter that a badly timed stop leaves half-stopped.
* **Memory against disk.** Stores are written to a temporary file and renamed.

What makes each component correct:

* control lock: at most one client controls a domain; a lease ends once, by a
  farewell or by one callback; a live lease is never reaped; a dead one does not stay;
* driver: calls are serialised; the breaker opens on a run of losses only, makes
  an outage cheap and closes by itself;
* command path: one failed stop does not deny the others; a program is stopped
  before motion is cut; the lapse of a lease stops what it covered;
* event bus: a reader sees events in sequence, and every gap is reported to it;
  a fault is published once at its edge; a full queue never blocks a publisher;
* programs and files: what is run is what was validated; no transfer mixes two
  files; an edit conditional on a version never overwrites another;
* capabilities, log fetcher, stores: absence is never concluded from a fault; what
  is unknown heals; an archive covers the rejection it is handed out for; after a
  crash a store is its old or new self;
* client: no command goes out between the end of the lease and the alarm;
* requests: what reaches the controller was allowed to, by key, lease, confirmation
  and feature, and what changed it is in the trail; a stop is served whatever lease is
  held and whichever error the stops before it came to;
* readers of streams and texts: what they make of it does not depend on how it is
  cut, and nothing is taken for more than it says.

## 2. The modules and the code

| Module | Models | Notes |
|---|---|---|
| `DomainOwnership` | what the lock promises | abstract: an owner for each domain |
| `ControlLock` | `control.py` | implements `DomainOwnership` |
| `RobotDriver` | `driver.py`: `_call`, `_ok`, `set_mode` | the breaker and the lock |
| `Gateway` | gates, motion, program and stop routes, `on_lapse` | EXTENDS `ControlLock`, and implements it |
| `EventBus` | `eventbus.py`: subscriptions, `publish`, `_offer`, `get` | the bus alone |
| `FaultPoller` | `_error_poller`, `EdgeDetector`, `AuditLog.record`, the event streams | EXTENDS `EventBus`, and implements it |
| `Programs` | routes of programs, files, point tables, over the controller's transfer ports | one handler step for each call |
| `Archives` | `lua_verdict.py` `LogFetcher`, `ControllerListing`, backups | three kinds of bundle, one slot |
| `Capabilities` | `capabilities.py` | sweeps and single probes |
| `Disk`, `PoseStore`, `Recorder`, `Stores` | `poses.py`, `recorder.py` and their routes | `Stores` composes them over one disk |
| `Client` | `client.py` `control()`, `_check_lease`, commands | with the gateway's side of one lease |
| `Startup` | `config.py`, `auth.py`, `cli.py`, `create_app`, the middlewares | from settings to serving |
| `Routes`, `FileKinds` | every other route, as rows of checks and calls | `FileKinds` EXTENDS `Routes` |
| `Requests` | the generic invoker, and the running of the rows | EXTENDS `Startup`, `FileKinds` |
| `Standstill`, `Arguments`, `Contract`, `ShellSession`, `Services` | pure functions | evaluated with `requests` |
| `PathCheck`, `Framing`, `Lint`, `Verdicts`, `Listing` | pure functions | evaluated with `programs` |
| `RobotDriver_proofs`, `Stores_proofs`, `Archives_proofs`, `Programs_proofs` | theorems | of the module of that name |
| `Gateway_proofs` | theorems | of `ControlLock` and of `Gateway` over it |
| `FaultPoller_proofs` | theorems | of `EventBus` and of `FaultPoller` over it |
| `Client_proofs` | theorems | of `Client` and of `Capabilities` |
| `Requests_proofs` | theorems | of `Requests`, with `Startup`, `Routes` and `FileKinds` |
| `MC*` | instances for TLC | symmetry sets and the topics |

### ControlLock

`lease` is the heap of `Lease` objects, `table` is `_leases`, `acq` holds what an
`acquire()` call carries from its clock reading to the mutex, and `reapNow` and
`lapsed` are the locals of `reap()`. Each `with self._lock` block is one action:
`AcquireConflict`, `AcquireGrant`, `Renew`, `Release`, `BreakLock`, `ReapRemove`.
The clock readings before a mutex are `AcquireStart` and `ReapRead`; `Fire` is
one turn of the loop over the lapsed leases, with a callback that returns or
raises. The token is the lease's identity. `fate` is a history variable: how a
lease ended. A lease dropped by a request that had run out by then was
"overtaken": nobody reports it.

### RobotDriver

A caller is idle, queued for the lock, dialling, or about to note a mode.
`Enter` and `Refuse` are the breaker check, which the code makes before it takes
the lock, so that a queued caller may dial with the breaker open. A dial ends in
four ways: `Answered`, `Faulted` (a fault or an error code, which resets the
count), `Lost` (`OSError`: counted), `Garbled` (any other exception, `HTTPException`
and a malformed answer among them, which leaves the lock and records nothing). After a `Lost` or a
`Garbled` the command may have been carried out. Clock readings are replaced by
the differences the code compares, capped where a longer time changes nothing.
`acked`, `recent` and `drained` are history variables.

### Gateway

A request is at its gate (`held_by()`), at `check()`, cleared, or sending stops.
`_require()` lets anybody through when the domain is not held (a single look
decides that); `_require_motion()` refuses then, and looks a second time. A
cleared request may do its pre-flight and fail, or transmit. A stop route or
`on_lapse` is an agent with `todo`, the stops it has yet to send, taken one at
a time: `StopAnswered`, `StopRefused` (a `RobotError`), `StopEscapes` (any other
exception) or `ProgramMisread` (an error code that reads as "not running").
`on_lapse` runs on the reaper thread: `LapseBegins`, its stops, and `LapseEnds`,
which is ControlLock's `Fire`. The arm is external: `jogging`, `moving`, and
`program`, which a `StopMotion` leaves half-stopped if it was running. `before`
and `misread` are history variables.

`Gateway` keeps one activity of each kind, so a second jog while one runs is not
told from the first. It does not run through `RobotDriver`: a call there is
answered, refused or lost, and that is what `Gateway`'s stops may come to. The
two share no other state.

### EventBus and FaultPoller

A publisher's `event`, `targets`, `stuck` and `at` are the locals of `publish()` and
of the loop in `_offer()`: `Publish` is the critical section, `Put`, `FindFull`,
`Evict`, `FindEmpty` and `Count` are the separate operations that follow it outside
the lock. `publish()` goes through its targets in the order they subscribed in;
the model takes them in any order. A `get()` is `Take` and `Report`. Looking at the
count, attaching and clearing it are one action, and so is `self.dropped += 1`:
the interpreter lock of the supported CPythons (3.11 and later) is handed over at
calls and backward jumps only. `evicted`, `told`, `gap` and `last` are history
variables, and so are `view` and `since` in `FaultPoller`.

`FaultPoller` is the loop of `_error_poller` over these: `Poll` (the edge of the fault
codes), `Dump`, `Snapshot` (the edge of the link) and `ProgramState`. A round goes
on when what it had to publish is published. `PollFails` is a `RobotError`;
`PollDies` is any other exception, which ends the thread. Handlers and watchdog
publish audit records. Topics are the sets of kinds they select, and the kinds
of audit records are one.

### Programs and Archives

A route is a script, the calls it makes in the code's order; a handler takes one
step of it at a time, and between any two steps others take theirs. A transfer
is an RPC that names the file and a connection that moves the bytes, with
nothing held in between: `upSlot` and `downSlot` are the controller's memory of the
last RPC, as `testing/fake_controller.py` has it. Every call may be refused,
lost before it arrives (`Fails`) or after (`Answered` allows the end). `unseen` is a
history variable: what of the controller others may have changed since a handler
looked. The properties say that a route keeps its promise as long as the aspect
it looked at is not in `unseen`: they name exactly the races the code leaves open.
`Sendable` is what the paths and bodies of the routes let through.

`Archives` has the fetches of whole bundles by drivers of their own: prepare,
open, receive. The log is a number of records and an archive is how many of them
it holds; `attempts`, `fetching` and `cache` are the fetcher's fields, each step
between two holds of its lock an action. `attempts` is a list in the code and a set
here: no two readings of the monotonic clock that are noted are equal. `alone`
tells whether somebody else's open took the port in between.

### Capabilities, Stores, Client

`Capabilities` separates the reading of the fault, each getter, the judgement and
the write of the map; `sure` and `clean` are history: the fault was read, and stayed
as it was read. A getter answers with a value, with a code, with a form that is not
recognised (unknown) or with what is no XML-RPC (the exception ends the job); that the
driver refuses it does not happen, because no probe is of a method it refuses.
`Stores` has the pose store's change, temporary file and rename,
and the recorder's ring, buffer and file, over a disk that fills up and a process
that restarts at any step. `open("w")` empties a file where it is and takes it from
nobody: a dump and a recording that open the same name both have it (`hold` and the
dump's `file` are "shared"), and what they leave in it is `Torn`, anything. Deleting
a file takes its name away, and whoever has it open writes on into the void ("gone").
`told` and `spoilt` are history: what an answer said is in a file, and the files of which
that is in doubt, because two had them open or the disk was full at the close. In `Client` time is discrete and a thread that is due
wakes before the next tick; the gateway's side is renewal while the lease is in
the table, lapse and break, as in `ControlLock`.

### Requests

A row of `Routes` or `FileKinds` is what a handler does: guards with the status they
answer, the audit record, and the calls, each with what its failure does to the
request (`must`, `try`, ...). `Requests` runs one request at a time through the two
middlewares and its row, for a gateway that `Startup` has started (`loopback` is the configured
`bind_host`; started by uvicorn the gateway is bound where uvicorn's own `--host` says, which
none of its checks sees), while the lease
it needs changes hands between any two steps. A gate that looks at the lock twice
(`held_by()`, then `check()`, which lets everybody into an unheld domain) is two steps,
`occupied` and `checked`: `warrant` is the domain a caller was last seen to hold, or "gone"
if the second look found no lease at all any more. A guard's verdict is computed from the caller's key,
token, confirmation and arguments, a call's outcome is any: done, refused, a fault,
lost, or `escapes`, an exception that neither the driver nor the handler knows, which ends
the request with 500 (but for the few steps behind an `except Exception`, which are
`shielded`). The generic invoker
computes its row from the command's class and hazard; `Commands` has one command of
each kind there is in the registry. `Routes` has a table of rows for each group of
routes; `Tables` collects them and `Handlers` looks a route up in the one that has it
(no two tables share a route, which TLC evaluates as `TablesAreDisjoint`). A transfer
in `FileKinds` is named by its verb and the controller's type number (`upload_1`), a
verb that the wire has not is `none`. Concurrency of requests is `Gateway`'s and
`Programs`' subject and is left out here.

### Pure functions

Parsers, counters and comparisons are functions, each stated against a reference
over all inputs up to a length, as an assumption that TLC evaluates: readers of
streams give the same for every way the stream is cut (`Framing`); the path check
calls safe only what it solved (`PathCheck`); the linter's line is what a lexer of
Lua would see, except behind mixed quotes (`Lint`); a verdict is the upload's
own if it was the last compile (`Verdicts`); a listing is the directory (`Listing`);
coercion keeps the value and arity is exact (`Arguments`); breaking is what breaks a
client, of what is compared (`Contract`); a login and a command tell how they ended
(`ShellSession`, `Services`); a standing arm is confirmed while frames come
(`Standstill`). Where the code falls short, the assumption states how far, and
its counterpart (`DeadStreamConfirms`, `EchoHidesOutput`, `BannerMisleads`,
`MixedQuotesHideCode`, `LargeFilesAreNotRead`) states what happens beyond.

## 3. What is checked

| Run | Instance | Shows |
|---|---|---|
| `control_lock` | 2 clients, 2 domains, 2 leases, lifetime 1, clock to 2 | the lock's invariants and `ImplementsOwnership` |
| `control_lock_live` | 1 client, 2 leases | `LapseIsNoticed`, `LapseIsReported` |
| `driver` | 3 callers, breaker at 2, cooldown 2, window 2 | the lock is freed, and the three promises of the breaker |
| `gateway` | 1 handler, 1 client, 1 lease, 2 domains | the stops and the watchdog, and that the composition implements ControlLock |
| `event_bus` | poller and 1 handler, 1 reader, depth 1, 3 events | that drops are told, order is kept, nobody waits for a reader, and readers know the fault state |
| `programs` | 2 handlers, 2 requests, 2 programs, 1 table, 2 contents | the promises of the program and file routes, up to the races they leave |
| `archives` | 2 handlers, 3 compiles, clock to 6, interval 2, budget 2 in 5 | explanations cover, fetches are paced, flags come down |
| `capabilities` | 2 threads, 1 supported and 1 lacking feature, 2 moves, 1 sweep | absence is true, unknown heals |
| `stores` | 2 poses, 2 contents, 2 recordings, ring 2, buffer 2, 5 requests or crashes | what was answered is on disk |
| `client` | 2 blocks, lifetime 6, timeout 3, join 1, clock to 12 | commands are held, the alarm is its own block's |
| `requests` | 9 deployments, every route, 12 commands, every kind of file | what reaches the controller was allowed to |

The instances, and why they are large enough:

* *control lock*: two clients are needed for a conflict, two domains for a lease
  that keeps one domain and loses the other, two leases for a batch whose
  first callback raises and for a lease written over by another. Requests ask
  for lifetimes 0 and 3 around the only permitted one, 1, so clamping shows on
  both sides. A clock of 0..2 lets a lease be granted, run out, be renewed late
  and run out again with a stale reading of each kind.
* *driver*: three callers are one on the wire and two queued behind it, when the
  breaker's threshold is two; cooldown and window of 2 leave room for a loss
  that is late, in time, and during the cooldown.
* *gateway*: a handler and the reaper are two cascades at once, or a cascade
  against a move. A second client adds nothing to these properties: what
  matters is whether the one lease is held, run out or being served.
  `ControlLock` checks the contention of clients, and the proofs hold for any.

* *event bus*: two publishers are needed to race in the overflow of a queue, and
  a depth of 1 makes every second event overflow it. Three events are enough
  for a fault to latch, clear and latch again, or for a drop between two reads.
  One reader: subscriptions share nothing but the list they are in, and
  the proofs hold for any number.

* *programs*: the races are between two requests, one of each kind for each name
  and content (`MCAsked`); a third could only repeat what the second did. The
  controller begins in every state. Two contents, one that builds and is safe and
  one that neither builds nor is, tell all that the routes tell apart.
* *archives*: two handlers are a fetch and whoever shares or disturbs it; a budget
  of two in a window longer than two intervals makes all three limits bite.
* *capabilities*: a supported and a lacking feature; two moves are a fault that
  comes and goes between two calls.
* *stores*: a buffer of two frames of four leaves some unwritten at any point; five
  requests are a start, a finish, a full disk, a crash and one more.
* *client*: the second block is there to inherit the thread and event of the first.
  A lifetime of 6 with a timeout of 3 is one that leaves room (a third and a timeout
  are less than the whole); the clock lets it run out twice.
* *requests*: a deployment for each way the flags, the key file, the binding and the
  entry matter to a guard; a request has at most one flaw at a time, since the
  first one found ends it.

The invariants and properties, in a line each (the modules say which lines of
code each is about):

* `FiresOnlyTheDead`, `GoneForGood`, `EveryLeaseAccountedFor`: the reaper reports
  leases that have run out and are out of the table; an ended lease never comes
  back; until then it is in the table or due to be reported.
* `VanishedHolderBlocksBriefly`: no expiry lies further off than the maximum.
* `ImplementsOwnership`: a domain passes from one client to another only through
  being free (or run out).
* `LockIsFreedAgain`: no ending of a call keeps the lock.
* `OpensOnlyOnARun`, `OutageCostsOneQueue`, `RecoversByItself`: the breaker.
* `StopsReachTheArm`: what went on when a cascade began, and is among what the
  cascade is for, is over, has its stop still queued, or is reported as failed.
* `ProgramStoppedFirst`: the lapse of a lease that covers the program does not
  cut `StopMotion` into it, if the program's stop was not refused.
* `EveryLapseIsServed`, `DrivesTheLock`: on_lapse with all its RPCs comes to its
  end, and is to the lock one callback.
* `GapsAreTold`: a reader that has read all there is was told of every drop, with
  publishers that drop and count while it reads and resets the count.
* `ReadsInOrder`: each publisher's events come in order and once. (Events of
  different publishers may come out of sequence: the number is taken before the offer.)
* `PublishEnds`: `publish()` ends, whatever the readers do or do not do.
* `KnowsTheFault`: a reader of fault events that lost none and has read all there
  is believes of the arm what the poller last saw.

* `RunsWhatItValidated`, `EditReplacesItsVersion`, `UploadSparesPrograms`,
  `LoadedProgramStays`, `IndexFollowsTheController`: what is started passed the path
  check, what is replaced is what the client edited, nothing that runs or is loaded
  is written over or deleted, and the index names what is there, unless another
  request got in between, which `unseen` tells. What they catch is therefore a route that
  breaks its promise with nobody in its way, or with somebody on an aspect it does not
  depend on. The races themselves (a load, an upload or a transfer between check and
  act) are open in the code, and these properties excuse them.
* `ArchiveExplains`, `FetchesArePaced`, `ArchivesInv`: see `Archives` above;
  `ArchivesInv` includes that a flight flag is up exactly while somebody flies.
* `AbsentIsTrue`, `UnknownHeals`: a verdict of absence is true unless the fault moved
  between the two calls, and a capability stays unknown only while the
  controller is away or faulted.
* `AnsweredPosesSurvive`, `ToldIsRecorded`: an answered change is on disk; a finished
  recording or dump holds the frames it told of, unless the disk was full at the close
  or a recording and a dump had its file open together.
* `CommandsAreHeld`, `AlarmIsOurs`: the first request of a command goes out under the
  lease unless an administrator broke it, and the alarm is about this block.
* `KeysGuard`, `RefusedStaysOff`, `Warranted`, `FileTypesAreSafe`: what may reach the
  controller, by key, by name, by lease and confirmation, and by file type. `Warranted`
  says what the two looks of a gate give: the lease was the caller's, or another's
  that ended between them.
* `StopsAreServed`: the stop routes answer 200 with all stops tried in order, whatever
  errors the driver makes of them, or 500 with those tried up to the one whose exception
  is no `RobotError`.
* `ChangesAreRecorded`: what a request other than a GET has had the controller do is in the
  trail: on the routes of `RecordedFirst` (jog, move, enable, gripper, reset, shutdown, shell,
  invoke) before it goes out, on all others (run, resume, mode, outputs, frames, FTP, ...) once
  they answer with success. The raw route `commands` keeps no trail.

The other type invariants (`TypeOK` of `ControlLock` and `RobotDriver`, `GatewayTypeOK`,
`PollerTypeOK`, `StoresTypeOK`), `ReapSparesTheLiving` and `OneOnTheWire` are theorems for every instance
and are not run as well.

**Fairness.** The lock's and the gateway's: the reaper thread keeps running (its
loop has no other exit than `close()`), the clock advances, an `acquire()` that
waits for the mutex gets it. The driver's: every dial ends, because the transport
has a socket timeout; the lock, when free, goes to some waiter, not to a
particular one; time passes. The bus's: a
thread in `publish()` keeps running, while no reader has to read. No client, operator or controller is assumed to do
anything. `RecoversByItself` has its assumption in the formula (`<>[]up`).
Of `Capabilities`: calls end, fifteen seconds pass, and clients that poll `/state` ask
`has()` again and again (strongly fair for each feature, because a thread is free
only now and then); `UnknownHeals` assumes in the formula that the controller
stays up and without a fault. `Programs`, `Archives`, `Stores`, `Client` and `Requests` state safety alone.

**Bounds.** `MaxTime` stops the clock, and each `Token` is issued once. When the
clock has stopped and the tokens are spent the model stops while the program
would go on, hence `CHECK_DEADLOCK FALSE` for the lock and the gateway, and for
the bus too, where `MaxSeq` bounds the events published. The
driver's model has neither bound and is checked for deadlock. `MaxRequests`,
`MaxRecords`, `MaxMoves`, `MaxSweeps`, `MaxBlocks` and `MaxFrames` bound what clients, the
compiler and the controller do in the other modules, which stop for the same
reason; a gateway of `Requests` that refuses to start has stopped, too.

### What the code does not keep

One run, `held_gate`, ends in a violation: a caller passes the gate of a move under
its own lease, the lease lapses, the watchdog sends its stops and they are answered,
and only then the `MoveL` goes out, with nothing to stop it. (`MoveIsStoppable` asks
this of callers that held the lease at both looks. One that never did may pass, too,
when another's lease ends between the looks: `warrant` is "gone" then.)

The following definitions each state a sentence of the code's comments or docs
that the model refutes. They are not run; to see the counterexample, give one as the
only property of its module's instance (with `Spec` for a specification).

* `EveryLapseIsReported` (`ControlLock`): `acquire()` writes over a lease that has run
  out, and its `on_lapse` never happens.
* `RemembersLastMode` (`RobotDriver`): two callers of `set_mode` may note their modes in
  the other order than the controller executed them.
* `WatchdogCutsNoProgram` (`Gateway`): the lapse of a lease on `motion` alone sends
  `StopMotion` without `ProgramStop`, and running a program asks for no more.
* `MissedStopsAreCounted` (`Gateway`): a refused stop is not counted as a failed lapse.
* `GapsAreToldAtOnce` (`EventBus`): a drop is counted after it is made, and may be told
  an event late.
* `EditsSparePrograms` (`Programs`): `PUT /files` uploads into a program that runs.
* `SharedArchiveIsFresh` (`Archives`): an archive is judged by a clock reading from
  before the compile, and may hold less than its record.
* `FailuresLeaveHeadroom`, `RunIsHeld` (`Client`): the heartbeat thread ends at its first
  failure; the second request of `run_program()` may go out without a lease.

`PROJECT.json` quotes the sentences, with those of the disagreements that need no
property because the models have the code's behaviour as it is. None of them is a
statement about the severity of what happens.

## 4. What is proved

Every safety property of section 3 that a run checks, invariants and step
properties alike, is proved for all constants that satisfy the modules'
assumptions, with the one violated property and the liveness properties as the
exceptions. `PROJECT.json` lists the theorems with the property each one states.
The assumptions:

| Module | Assumption | Says |
|---|---|---|
| `ControlLock` | `TtlAssumption`, `NoneAssumption` | lifetimes are naturals, 0 < MinTtl <= MaxTtl; None is nobody |
| `RobotDriver` | `BreakerAssumption`, `NoneAssumption` | a natural threshold and window, a positive cooldown, finitely many callers |
| `Gateway` | `GatewayAssumption` | the reaper is not a request thread; motion and program are two of the domains |
| `EventBus` | `DepthAssumption`, `PublisherAssumption`, `FiltersAssumption` | a positive depth, finitely many publishers, filters that select kinds |
| `FaultPoller` | `PollerAssumption` | the poller is one of the publishers; the kinds are those the code publishes |
| `Stores` | `StoresAssumption` | ring and buffer hold a frame at least; dumps of faults have names of recordings |
| `Client` | `ClientAssumption` | lifetimes and timeout are positive, MinTtl <= MaxTtl |
| `Capabilities` | `CapabilitiesAssumption` | there is something to probe |
| `Archives` | `ArchivesAssumption`, `NoneIsNoJob` | natural limits, a positive budget, an interval no longer than the window |
| `Programs` | `ProgramsAssumption` | None is no name or content; what is asked for is `Sendable` |
| `Startup`, `Routes`, `Requests` | `DeploymentsAssumption`, `TablesAreDisjoint`, `NoneAssumption` | deployments are settings; a route has one row; None is no lease domain and not "gone" |

TLC evaluates them in the runs. `TablesAreDisjoint` has no constant in it: there the
evaluation is a proof. One theorem has a hypothesis besides:
`CommandsUnderLease` assumes `Headroom`, that a heartbeat period and a timeout are less
than the lifetime the gateway grants; a lemma shows that the client's defaults have it.
None of the bounds (`MaxTime`, `MaxRequests`, ...) is restricted but to be a natural number.

Each inductive invariant was checked by TLC on the run's instance first.

* **`Gateway_proofs`, the lock.** `IInv` adds to the type invariant: what the table
  refers to is an open lease covering that domain, which the reaper does not
  carry; what the reaper carries has run out; no clock reading is ahead of the
  clock and no expiry more than MaxTtl ahead. The last two matter: that
  the reaper's list holds no live lease rests on `reapNow <= now`, and that the list
  and the table are disjoint rests on Fire being the only way out of the
  list. From it: `LockTyping`, `WatchdogFiresOnlyTheDead`, `EndedLeasesStayEnded`,
  `NoLeaseIsLost`, `LeasesAreShort`; as step properties `ReaperSparesTheLiving`
  and the refinement `LockImplementsOwnership`, where granting is `Take` with the
  domains of the replaced leases as its `lost`, and time, reaping, releasing and
  breaking are `Free` or stutter. A late renewal maps to `Take` too.
* **`Gateway_proofs`, the gateway.** `GatewayInv` is the lock's invariant, the type
  invariant, `ServingSound` (the lease being served is in the reaper's list) and
  `StopsReachTheArm`. `DrivesTheLock` needs `ServingSound` for `LapseEnds` to be a
  `Fire`. `ProgramStopsFirst` needs one thing more: wherever `StopMotion` heads a
  queue that covers the program, ReadProgram and ProgramStop are no longer in
  it; that is stated as an invariant of its own over the queues' order.
* **`RobotDriver_proofs`.** `DriverInv` adds `RunSound` (the count is the length of
  a run of losses at the end of the history, all but its first in the window)
  and `QueueSound` (with the breaker open, dials since then plus callers queued
  stay below the number of callers: a caller leaves the queue by dialling,
  and nobody enters). From it `OutageIsCheap` by counting, for any finite set of
  callers, and `OpensOnARun`; also `Serialised` and `Typing`.
* **`FaultPoller_proofs`, the bus.** `BusInv` adds `OfferSound` (who is in the middle of
  an offer still has the event and the target), `DropsSound` and `OrderSound`.
  `DropsSound` is an equation, drops = told + counted + publishers about to count, and the
  fact that while something is counted there is an event or a publisher to carry it to
  the reader; `GapsAreTold` is what is left of both when all is quiet. The
  equation is a count over publishers, hence the cardinality lemmas. `OrderSound`
  puts what was read, what is queued and what is being offered in one order.
* **`FaultPoller_proofs`, the poller.** Every step of the poller and the streams is a
  step of the bus (`PollerDrivesTheBus`), so the bus's theorems hold there. `ViewSound`
  says of a reader that lost nothing: the last fault event that it read, that is
  queued, or that is offered to it tells what the poller knows. It needs that
  only the poller publishes such events, and none before the first reading.
  `KnowsTheFault` follows when nothing is queued or offered.
* **`Stores_proofs`.** The stores share only the disk, so each has an invariant its own
  steps keep and the other's leave alone. For poses, `MemoryAgrees`: what was answered
  is in memory as it is on disk. That is what makes writing the whole store for one
  pose harmless to the others. For the recorder, `CountedIsKept`: the frames counted
  are in the file or in the buffer, as long as the open file is this recording's
  alone. A dump that opens it, or a delete, breaks that link, which is why the
  equation has it as its condition. `OpenFilesAgree` is what makes the condition enough: a
  file that two have open is `spoilt`, on both sides, and a dump that has a file alone
  has told nothing of it yet.
* **`Client_proofs`, the client.** `ClientInv` places the alarm: a failure raises it, only
  a new block takes it back, and a thread of another block that still runs has outlived
  its join; from it `AlarmsAreOurs`. `HeldInv` adds `LeaseLasts`, how long the lease is good
  for in each place the heartbeat can be: since the last renewal while it waits for its
  period, a period more while its post is under way. With `Prompt` (nothing is waited for
  beyond its time) and `Headroom`, a silent alarm means a lease that has not run out.
* **`Client_proofs`, the capabilities.** `ReadingHolds`: what a thread has read of the fault
  is how things are as long as nothing has moved since; `FoundIsTrue`: a verdict that
  is found and not stored yet is as true as one that is. `AbsentIsTrue` is not inductive
  without both, because the write comes steps after the reading.
* **`Archives_proofs`.** `Remembered`: the attempts that still count are those the fetcher
  remembers, though it prunes its list; with it `FetchesStayPaced` is a statement about
  the history and not about the fetcher's own list. `OneFlight` ties each flag to the one
  thread that flies, counted. `SlotHolds` and `CacheHolds` say of the controller's slot and of the
  shared archive which readings they cover; `ArchivesExplain` follows at the step that
  hands an archive out, for one's own fetch and for a shared one.
* **`Programs_proofs`.** An annotated outline for each route, in the manner of Owicki and
  Gries: `Outline` says, for what is left of a request's script, what the request may rely
  on (`Putting`, `Editing`, `Reading`, `Deleting`, `Running`, ...). Every assertion is of the form "if
  nobody changed these aspects since I looked, then ...", so that no other request's step
  can falsify it: that is `OutlineStays`, the interference-freedom lemma, over
  `Undisturbed`. What is left to show of a request's own step is that the script goes on
  to the next line of its outline with the next assertion. `Relies` reads off what a
  request knows at the step it takes, and the five step properties follow from it.
* **`Requests_proofs`.** What the properties need of a row is stated as predicates on rows:
  `Sane`, `Reserved` (the shutdown's call stands behind its switch and its
  confirmation), `Opened` (root services stand behind their own switch), `Recording` (the
  line in the trail stands before every call that does more than read), `Audited` (there is
  such a line somewhere, or no such call), `OnMotion` (behind the second look and the
  confirmation), `StopRow`. `HandlersAreKept` shows them for every table of `Routes`,
  `FileRowIsOrdinary`, `ServicesAreKept` and `GenericIsKept` for the rows that are computed;
  `HandlersAreAudited` has `Audited` for every table but those of GET routes. `RequestInv` is
  then about any row: each step behind the request is `Cleared`, so that what it asks for
  holds (the key, the switch, the confirmation, the warrant, the line in the trail); each
  call sent is made by a step of the row up to the current one, and is not one the driver
  bars unless the step allows it; an answer of 200 is given at the
  end of the row, or at a read that answers "unknown" (`Ended`);
  and `Settled` keeps what the start has checked. `SentIsBehind` combines them: a call that
  was sent belongs to a step, and what stands before that step in the row is cleared. The
  properties follow for each route from the predicate its row has; `ChangesAreInTheTrail`
  takes `Recording` before the call, and `Audited` with `Ended` at the answer.
  `StopsAreAlwaysServed` has an invariant of its own, `StopInv`: what was tried is the prefix
  of the stops that `at` tells, and an answer of 500 comes after one of them.

Only model-checked:

* liveness (`LapseIsNoticed`, `LapseIsReported`, `EveryLapseIsServed`, `RecoversByItself`, `LockIsFreedAgain`,
  `PublishEnds`, `UnknownHeals`): proofs under fairness need ENABLED, which the prover does
  not support;
* the pure functions (`Framing`, `Lint`, `PathCheck`, `Listing`, `Verdicts`, `Arguments`, `Contract`,
  `ShellSession`, `Services`, `Standstill`): most are recursive over their input, and what a recursion
  computes for every input is an induction over data.

## 5. What is not modelled

* *Kinematics.* The pre-flight of a jog, of a move and of a program is a check that
  passes or fails on what it looked at; what is solvable is the controller's.
* *The wall clock being set.* Expiry is judged by `time.time()`; the model's clock
  only advances.
* *Concurrency of the administrative routes.* `Requests` serves one request at a time;
  the interleavings that matter are in `Gateway`, `Programs`, `Archives`, `Capabilities`.
* *Exceptions that no step lists* are modelled where calls are made (`Gateway`, `RobotDriver`,
  `FaultPoller`, `Capabilities`, `Requests`); `Programs` and `Archives` have them with the calls that fail,
  except where a route of `Programs` asks for the interpreter's state or the loaded program
  and goes on after a `RobotError`: there they would end a request that has changed nothing yet.
* *The files behind the index and the audit trail.* The index is written in place and
  its failures ignored, the trail is appended to; neither promises anything of a crash.
* *The telemetry thread's reconnection*: a loop with a fixed pause.
* *Runners* (`runners.py`): nothing in `src/fws` registers one.
* *The controller's inside*: what an RPC starts and stops, as far as the fakes in
  `testing/` show it.
* *Rendering and data*: `model.py`, `metrics.py`, the generated tables in `protocol/`, the
  text of messages, the parsing of configuration files and of the command line.

## 6. Plan

1. An abstract specification of the event feed: a reader's view is a subsequence
   of what was published, with the gaps marked, and `EventBus` shown to implement it.
2. The safety halves of the liveness properties: what each waiting thread waits for
   exists (no flight flag without a flier is one, and is proved), as invariants.
3. `Requests` with two requests at once, on the routes that read before they write.
4. Properties for the hazards that have none: the acquire that writes over a lapsed
   lease, the note of the commanded mode, the refused stop of a lapse, the poller
   that dies.
