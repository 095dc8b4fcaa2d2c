# wyndctl in TLA+

`wyndctl` provisions and updates fleets of Sentry devices that hang off USB
ports. It talks to each device over a serial line with a small RPC protocol,
writes firmware through it, hands out WiFi and MQTT credentials, puts devices
into rooms of the platform database, and keeps CSV files between its runs. This
directory models that program in TLA+, checks it with TLC on small instances
and proves facts about its core with TLAPS for all of them.

Definitions are translated from the Go code and keep its names. Where the code
says more than a model needs (wording, logging, styles, payload bytes) the model
leaves it out. Operators introduced as *deliberate faults* (`NextSendOffByOne`,
`SlotsAfterNoRelease`, ...) belong to no behaviour: each is the form a plausible bug
would give the definition beside it, and with it the property named in
`PROJECT.json` must fail.

## 1. The system

| Part | Source | State | Operations | Meets others through |
|---|---|---|---|---|
| RPC client | `internal/transport/rpc.go` | `nextInvocation`, `clientContexts` under `mu`, a buffered `ResponseCh` per context | `UnaryCall`, `StreamingCall/Send/Receive/Finalize`, `handleClientResponse`, `handleClientFinalize` | callers in many goroutines, one read loop per port calling the handlers |
| Packet transport | `packet.go` | handler table, set once | `Write`, `Receive` | COBS, CRC, the serial channel |
| Serial channel | `serial.go` | `serial`, `running`, `closed`, `done`, `buffer`, partly under `mu` | `Open`, `Close`, `WriteRaw`, `readLoop`, `processBytes` | its owner's goroutine, one `readLoop` goroutine per `Open` |
| Codecs | `cobs.go`, `varint.go`, `crc16.go` | none | encode, decode | transport, RPC header |
| Commander | `internal/device/commander.go` | map of channels | device calls, `WriteFirmware`, `SetProvision`, `Reboot`, `CloseAll` | RPC client |
| Encoding | `encoding.go`, `proto.go` | none | write and read protobuf messages | Commander |
| Deployment | `internal/deployment/service.go` | the local state of `DeployDevice`, result file under `outputMu` | `DeployDevice`, `writeResult` | Commander, repository, CSV |
| CSV files | `internal/deployment/csv.go` | `deployment-data`, `location-map`, two result files | read, truncate, append | the next run of the program |
| `deploy` | `cmd/deploy.go` | semaphore, wait group | one run over all devices | Deployment |
| `fw-update` | `cmd/fwupdate.go` | semaphore, wait group, `resultMu` | one run; `updateDeviceFirmware` | Commander, CSV |
| `fw-update-tui` | `cmd/fwupdate_tui.go`, `internal/tui` | launcher goroutine, Bubble Tea program, `FWModel` | the same run behind a screen | progress events, keys |
| Repository | `internal/database/repository.go` | PostgreSQL | rooms, assignments, users, deletions | other workers, other processes |
| `create-account` | `cmd/account.go`, `internal/billing`, `internal/auth` | Stripe, Cognito, database | `FindOrCreateCustomer`, `SignUp`, `CreateUser` | three external systems |
| `scan --label` | `cmd/scan.go` | the writer of `location-map.csv` | questions to the operator | the runs that load the map |
| `scan`, `unprovision`, lodging, list and delete commands | `cmd/*` | none of their own | sequential | Commander, repository |
| Configuration | `internal/config`, `cmd/root.go` | one `Config` per run | `Load` from flags, variables, `.env`, file, defaults, secrets | every command, before it begins |

What is hard in it:

* **Interleavings.** Callers, read loops and the timers of `select` meet in
  `clientContexts`; a handler looks a context up under the mutex and uses it
  after the unlock. The fields of `SerialChannel` are shared without the mutex.
  The TUI's launcher races the end of the program. Workers run statements
  without transactions on shared rooms.
* **Loss and delay.** The line loses and damages bytes; a device may be silent,
  reset, leave the bus or end a call; a timeout says nothing about whether the
  request was carried out.
* **Repeated runs.** Result files, Stripe, Cognito and the database outlive the
  process, which may be killed between any two steps.
* **Boundaries.** Full COBS groups, the last byte of a varint, lengths read from
  the line, the slots of a pool, bay numbers used as indices.
* **Files of an operator.** Maps that leave locations out or give a bay twice,
  settings that leave cells to the row above, both changed between runs.
* **Sources that overlap.** A setting may come from six places, and the file that
  is read depends on a setting.

The correctness of each part, in one line each:

* RPC: a call returns its own answer or an error, in finite time, and leaves
  nothing in the registry; no handler panics.
* Framing: what is delivered was sent, in order; damage stays local.
* Encoding: a message says what it was built from, whatever its bytes are.
* Serial channel: one reader at a time, no use of a closed port, no leaked port,
  `Close` returns.
* Firmware write: success means the device holds the image and closed the file.
* One device's update or deployment: the row it leaves agrees with the device.
* A run: every device taken on has its row; a device is skipped only when it may be.
* Settings and maps: a device gets a setting of its own, made of one row and what
  that row inherits; half a map is never used.
* Configuration: host and credentials belong together, and to the environment.
* Pool: every slot comes back and nobody closes a channel under a worker.
* Database and account: reported rooms are assigned, accounts are complete, and
  nothing that must be unique exists twice.

## 2. Modules

In the order they were planned and written:

| Module | Models | Checked by the run |
|---|---|---|
| `Rpc` | RPC client over ports that open and close, with lossy wires and the device | `rpc` |
| `CallService` | what the RPC client promises a caller, abstractly | `rpc`: `Rpc` implements it (`CallServiceSpec`) |
| `RpcProof`, `FwDeviceProof`, `FwRunProof`, `WorkerPoolProof` | theorems about the module they are named after (section 4) | TLAPS |
| `DeployProof` | theorems about `Deploy`, `DeployRun` and `LoadSettings` | TLAPS |
| `SerialProof` | theorems about `SerialChannel`, `Codec`, `Encoding` and `Framing` | TLAPS |
| `DatabaseProof` | theorems about `Zones`, `Account` and `Load` | TLAPS |
| `InductionLemmas` | induction and recursion over data, for the proofs | TLAPS |
| `FirmwareStream` | `WriteFirmware`: one streaming call, stop and wait | `firmware`, inside `FwDevice` |
| `FwDevice` | `updateDeviceFirmware`: one device, one worker, image after image | `firmware` |
| `CsvFiles` | `LoadSettings`, `parseSettingRow`, `Validate`, `LoadLocationMap` as operators | inside `FwRun`, `Labels`, `DeployRun` |
| `Labels` | `scan --label` | `fw_run`, inside `FwRun` |
| `FwRun` | runs of `fw-update`, the file between them, the map they load | `fw_run`, `fw_run_no_map` |
| `FwTui` | the workers' progress events, `FWModel.Update`, the conclusion | `worker_pool`, inside `WorkerPool` |
| `WorkerPool` | semaphore, wait group, launcher, UI, `CloseAll` | `worker_pool`, `worker_pool_quit` |
| `Deploy` | `DeployDevice`: attempts, provisioning, room, row | `deploy_device` |
| `DeployRun` | runs of `deploy`, the settings and maps they load, bays and rows | `deploy_run` |
| `SerialChannel` | `Open`, `Close`, `readLoop` | `serial_channel` |
| `Codec`, `CodecLaws` | COBS and varints as operators; their laws over all short inputs | `framing` |
| `Encoding`, `EncodingLaws` | `encoding.go`, the requests and responses of `commander.go`; their laws over all short messages | `framing` |
| `Framing` | `Transport.Write`, the line, `processBytes`; uses `Codec` | `framing` |
| `Zones` | `FindOrCreateZone`, `AssignDeviceToZone`, `DeleteDevices`, `DeleteLodging` | `zones` |
| `Config` | `config.Load` and the secrets as operators over all that is read | `account`, inside `Account` |
| `Account` | `create-account`, repeated and overlapping, with the configuration it loads | `account` |

The modules `MC...` give the constants their values for TLC.

The models are layered as the code is. Six joints are checked by TLC:

* `Rpc` implements `CallService` under the refinement mapping in `Rpc.tla`.
* `FwDevice` instantiates `FirmwareStream` (`Write`) and runs its actions for
  every image, on a port and a device it shares with the rest of the update.
* `WorkerPool` instantiates `FwTui` (`Screen`): each worker goroutine runs the
  stages of an update and hands its events to the screen; `ended` is the state of
  the command.
* `FwRun` instantiates `Labels` (`Labelling`): a scan writes the file that the next
  run loads.
* `FwRun`, `Labels` and `DeployRun` read their files with the operators of
  `CsvFiles`, so that a run meets what the parser makes of a file, errors included.
* `Account` begins every run with `Load` of `Config` and stops where a setting it
  needs is not there.

The other joints are made by hand: a layer takes from the one below the outcomes
that were checked there. `Framing` says that a packet arrives whole or not at
all, which is the wire of `Rpc`. `Rpc` says that an RPC yields its own answer or
fails, possibly after the device has acted on it; this is the RPC of `FwDevice`
and `Deploy`, and lets `FirmwareStream` keep the `ResponseCh` of one context only.
`FwDevice` and `Deploy` say that a worker ends with a row, which is the worker of
`FwRun`, `DeployRun` and `WorkerPool`.

### Rpc, CallService

`ctx` is the sequence of `ClientContext` objects ever made (an object is its
index), `clientContexts` the set of those in the slice. A caller's `pc` follows
`UnaryCall`, or the streaming calls as `WriteFirmware` makes them:

| Code | Actions |
|---|---|
| `allocateClientContext` up to the lock / the append | `UnaryCall`, `StreamingCall` (`Allocate`) / `Register` |
| `sendPacket` for the three packet types | `SendInitialize`, `SendRequest`, `SendFails`, `SendFinalize` |
| the two `select`s | `ReceiveResponse`, `ReceiveClosed`, `Timeout` |
| `freeClientContext` | `Free` |
| handlers up to / after `findClientContext` | `FindContext` / `DeliverResponse`, `DeliverFinalize` |
| `Receive` rejecting a packet | `ReceiveDamaged` |
| `Open`, `Close` of the port | `OpenChannel`, `CloseChannel` |

The lookup and the delivery are two steps because the mutex is released between
them; so are the build of a context and its append. Panics (`close` of a closed
channel, send on one) set `panicked`, and nothing moves after them. A request is
identified by its context and its number (`body`), which is what the answer
properties compare; the code cannot see it.

External: the device answers with the header it was sent and ends a call at most
once, saying nothing more on it. A device that broke this could make a handler
panic; `NoPanic` states what the host needs of it.

### FirmwareStream

One `WriteFirmware` with its requests numbered: 0 opens the file, `1 .. Chunks`
are the chunks, `Chunks + 1` closes it. The response is counted and otherwise not
looked at, as in the code. The device applies requests in order, may end the
call early (`DeviceMayEnd`), and packets are lost both ways.

A closed `ResponseCh` yields nil without an error (`rpc.go:93`), which the writer
takes for an acknowledgement: a device that ends the call after the first
request has the whole image sent at it and reported as written, where
`docs/ARCHITECTURE.md:108` has "per-chunk ACK". `SuccessMeansWritten` and
`ChunkFollowsChunk` therefore except a call whose channel was closed, and
`cutShort` in `FwDevice` remembers that an update had such a call.

### FwDevice

One step per RPC of `updateDeviceFirmware` with the outcomes the RPC client can
give it; a write is the actions of `FirmwareStream`. A port is `deaf` when its
read loop has ended because the device left the bus. `Reboot` succeeds whatever
happens, since a timeout is turned into nil and other errors are logged: a device
that never restarted answers the verification and is recorded as updated
(`fwupdate.go:276`; the comment at 285 says the verification is the signal that
the firmware applied). `SucceededMeansApplied` says what the row does mean. The
verification loop is bounded by `MaxVerifies` for the time budget.

### CsvFiles

A file is its header and its rows, a row a function from columns to cells; a number
stands for a cell `strconv.Atoi` accepts, `Blank` and `NotANumber` for the others.
`LoadSettings` folds `parseSettingRow` over the rows that are not empty, with the
settings loaded so far to inherit from; `rowNum` counts all rows, so that a file
whose first row is empty has none validated (`csv.go:129`). The PSK, the bay and the
room are taken from their own row only; the comment at `csv.go:14` excepts the PSK
alone. `LocToBay` is what `LoadLocationMap` returns: later rows win, a bay that is
no number is passed over without a word.

### Labels, FwRun

`scan --label` creates the map, and so empties it, before its first question; the
rows stay in the `csv.Writer` until the deferred `Flush`. A scan may be killed at
every question. (A list of devices long enough to fill the writer's 4096 bytes
would go out in parts; the model has none so long.) A file without rows is an
error to `LoadLocationMap`, which is why no run goes on with what such a scan left:
`RunsUseFinishedLabels`.

A run of `fw-update` loads the map, reads the file of the run before, selects
devices, truncates the file, hands devices to the pool, and each worker appends a
row. An append that fails is only logged (`AppendRow`; the row is then taken to be
absent, not cut short). Locations are numbered in `sort.Strings` order. `ok`,
`thisRun`, `lost`, `labelled` and `writtenBy` are history variables for the
properties. A run may be killed at any point; a file truncated and not yet given
its header makes `records[1:]` panic, which is one of the ways of
`RunDoesNothing`. The plain command and the TUI select devices with the same code.

`SkippedOnlyIfUpdated` has two premises the code does not test: the map is complete
and one to one, and it is still the map under which the file was written. Without
the first, rows are written under one numbering and read under another
(`fw_run_no_map`); a partial map lets a mapped bay and a position collide as well.
Without the second, a device labelled anew between two runs is looked up in
another's row. `FailedAreRetried` is what the help promises, without either.

A re-run of `fw-update` writes rows only for the devices it retried, so the run
after it updates again a device that succeeded two runs ago (`fwupdate.go:156`;
`README.md:162`: "only retry devices that failed in the previous run").

### DeployRun

A run loads the settings and the map, which the operator may have replaced since
the run before, and deploys every device whose bay number names a row.
What the documents say of a run is stated as they say it, in three formulas that no
run checks since the code does otherwise:

* `deploy` reads the previous results (`prevResults`) and drops them
  (`deploy.go:100`): `ChannelsToDeploy` is all channels, and a run without `--all`
  deploys again what succeeded, where `cmd/deploy.go:32` has "default: only failed from
  previous run", and `README.md:194` the like (`OnlyFailedAreRerun`).
* The bay of a settings row is its position among the rows that are not empty, never
  its Bay column (`deploy.go:188`): in a file whose rows are not in the order of their
  bays, or leave one out, a device gets the row of another bay, where
  `docs/ARCHITECTURE.md:79` and `:136` map a bay to its settings (`SettingIsOfBay`).
* An empty room cell stays empty (`csv.go:125`), where the comment at `csv.go:14` has all
  cells but the PSK inherit (`EmptyCellsInherit`).

The properties that hold say nothing that depends on these, so that a program put
right would keep them. `FileAccountsForRun` asks for a row for each device that was
deployed, and that no device is left out that the run is for (with `--all` every
device, without it at least those whose row says that they failed) and whose
setting is in its place. `DeployedFromItsRow` asks that a setting is made of *one*
row and the nearest filled cells above it, whichever row that is, that the PSK and a
room that is given are of that very row, and that nothing is deployed without a
network and an account.

### WorkerPool, FwTui

The launcher is the loop itself for the plain commands (`tui = FALSE`) and a
goroutine for the TUI. `wg.Add`, the send on the semaphore, `go`, the two
deferred calls and `wg.Wait` are one action each. A worker emits the stages of
`updateDeviceFirmware`; `program.Send` hands an event to the event loop and
returns when it is taken, or when the program has ended. `Quit` is the user:
ctrl+c at any time, q once all is done. `UiFails` is `program.Run` returning an
error; the command then returns without `wg.Wait`, and its deferred `CloseAll` and
the end of the process follow with no step of a worker in between that a property
looks at, so it is one action. Nothing moves once the command has returned.

`leftEarly` remembers that the user left before the last worker was launched, or
that the UI failed. `NoneLeftOut` excepts those: `worker_pool_quit` shows what
happens without the exception.

### Deploy

`DeployDevice` with the loop over `attempt`. `config` and `online` are the
device's: it may hold credentials of an earlier deployment and be online with
them when the worker starts, `Unprovision` may be lost, and the status may lag
behind credentials that were cleared or replaced. `SetProvision` is its request and
a loop of status polls. What `UnaryCall` returns to it is not looked at
(`commander.go:219`), and a call that the device ends returns nil without an error
(`rpc.go:70`): polling then begins although the credentials were not taken, and a
device still online with earlier ones gets a row that says succeeded. `refused`
remembers that the latest provision call was ended in this way;
`SucceededMeansProvisioned` excepts it and nothing else.

`writeResult` only logs an append that fails, so a row may be `"lost"`. Finding or
creating the room and the assignment are one step here, with what may come of them;
`Zones` has their statements. There `AssignDevice` is one step for the two of gorm's
`FirstOrCreate`, a query and then an update or insert: the row ends as the second
leaves it, whatever happens between them.

### SerialChannel

Fields are single steps where the code leaves them unprotected: the test of
`running`, the read of `serial`, the blocking `Read`, its return. A handle is
the number of its `Open`. External: closing a port ends a `Read` blocked on it,
and a device that leaves the bus makes it fail.

### Codec, CodecLaws, Framing

A decoder yields the set of its results, empty for an error. The sizes 255, 7
and 64 are parameters, so that full groups and the last varint byte are met by
inputs a few bytes long. Recursion is by recursive functions, on which the proofs
can work; `TwoTo[k]` is `1 << k`. `Framing` damages bytes of the encoded stream; the
checks of `Receive` (length, CRC, type) are assumed to tell damaged packets from
sent ones. `cost` counts the packets the damaged bytes touch, which is what
`LossIsLocal` allows to be lost. The length of a packet is written in 16 bits
without a test; the largest message the code sends is a chunk of 512 bytes.

### Encoding, EncodingLaws

A message is a sequence of bytes one bit wider than a varint's group; the widths 4
and 8 of the fixed fields are parameters. `DecodeFields` ends in fields, an error or
a panic: `int(length)` and the addition to the position wrap (`EndOfBytes`), and an
end before its beginning makes the slice panic. `encoding/binary` is external:
unlike `varint.go`, its `Uvarint` refuses a number too wide for the word.

The laws are tried on every message of up to `MaxMessage` bytes, taken as what a request
carries and as a response that arrives. `MessagesReadBack` reads every field of the
requests for files, LEDs and provisioning with a reader that knows the fields and not
how they were written (all seven of a provision request: the network, the PSK, and
topic, broker, port, things pattern and log topic), and the status, the names and the
battery of a response with the code's own parser; `Unescaped` is the reader of a quoted
PSK. The topics are formatted from the environment (`commander.go:205`) and stand for
themselves here. `FieldsAreTheMessage` says that nothing of a message is overlooked or
made up, and that the panic needs a length no packet can have: a damaged packet would
have to pass the CRC to bring one.

### Zones

One step per SQL statement. External: a zone name is not unique, a device refers
to an existing zone, a zone that is referred to cannot be deleted, a zone goes
with its lodging ("zones cascade at the DB level", `repository.go:202`); a failing
statement may have been carried out. `delete-device` and `delete-property` run in
processes of their own beside the workers. The latter deletes the integrations and
then the lodging, which fails while a device is in one of its zones: a lodging
without integrations is what is left then, until the command is repeated.
`FindOrCreateZone` has no transaction and takes every error of its query for a
missing room (`repository.go:130`), so two workers of one room, or a failed query,
create it twice; the comment at line 127 says "gets or creates".
`OwnRoomCreatedOnce` says what holds all the same: a room only one device asks
for, no query for which has failed (`misread`).

### Config, Account

`Load` is a function of a *world*: the flag, the variables of the process, the `.env`
file of each environment, the configuration file and what Secrets Manager answers. A
setting is a pair of its source and the environment it belongs to, which is what
`SettingsBelongTogether` compares: all of the host and the credentials from one secret
or none; none from a secret where `PG_HOST` or the configuration file gives a host and
nothing refers to a secret; and everything of the environment in force, unless the
`.env` file names another one than the operator chose. It does not say which source
wins: that is the code's order, not the documents'. Viper is external (a value set by
the program, then flag, variable, file, default), with one trait that matters here:
`Unmarshal` sees a `WYND_*` variable only when the file or a default has its key.

Where the documents say otherwise, the first three with the formula that says so:

* `WYND_DB_DSN` alone is not seen by `Unmarshal`, though `README.md:64` and `:327`,
  `docs/AWS_SETUP.md:40` and the message at `repository.go:23` recommend it
  (`ExportedDSNIsUsed`). It is the same with `WYND_DB_HOST`.
* `mapPGEnvVars` sets its values over everything, so `PG_*` and the `.env` files win
  over flags, `WYND_*` and the configuration file, where `README.md:57-68` lists
  them last and `docs/AWS_SETUP.md:48` has the file's `db.*` keys used as they are
  (`FileHostIsUsedAsIs`).
* The `.env` file is chosen by the environment before the file may itself set `ENV` or
  `WYND_ENV` (`config.go:207`), which then decides on the secrets
  (`EnvironmentIsTheChosenOne`).
* Secrets are resolved for `dev` and `prod` only (`config.go:227`), though
  `README.md:75` and `docs/AWS_SETUP.md:3` list `staging` beside them.

One step of `Account` per request to an external system. A request that fails may
have been carried out; Stripe's search lags behind its writes, so that a second run
within the lag creates a second customer (`stripe.go:39`; the comment at line 21
says "creates one if none exists") and no property claims there is one; Cognito
accepts a username once. Runs overlap, are repeated, and are killed anywhere. A
setting that is missing ends a run where it is needed: a database that is not
configured is found out only after the sign-up, and no later run can finish the
account then, for Cognito knows the username.

## 3. Runs

Each property of a passing run fails, under the run's own constants, when the
definition `PROJECT.json` pairs it with is replaced by a deliberate fault.

| Run | Shows | Bounds, and why they are enough | Distinct states |
|---|---|---|---|
| `rpc` | answers are own, the registry is exact, no panic, no answer dropped, `CallService` is implemented, every call returns | two callers, one port, two calls of either kind, two requests on a stream: a call that times out or ends, its successor on the same port, and a neighbour; a first and a second request of one call. Ports interact only through the registry, where the channel is compared like the method | 648,524 |
| `firmware` | what success of a write means, row, event and device agree, the worker ends | the three images of the flags, three chunks (first, middle, last), three verifications | 12,429 |
| `fw_run` | skipping, rows, labels | three devices, three runs, two workers: a run, its re-run, and the run after the file was rewritten, killed anywhere; no map, a whole one, or whatever one scan makes of the answers 1 to 3 and a typo, given up or finished, before, between or after the runs: partial, colliding and changed maps; one row of each run that cannot be written | 2,335,408 |
| `worker_pool` | nobody left out, the conclusion is true, the command ends | three devices on two slots: the pool fills, drains and fills again; one image; both kinds of command, a user who leaves at any time, a UI that fails | 1,422,466 |
| `deploy_device` | the row agrees with device and database; the worker ends | the five attempts of the code, two polls in each | 17,714 |
| `deploy_run` | one device per settings row, each setting from one row, the file accounts for the run | four devices; settings that inherit over one row and two, with an empty row between or at the top, one whose rows are not in the order of their bays, and five that do not load; no map, an empty one, one that leaves a location out, names a bay beyond the settings and has a typo, one that gives a bay twice; a run and the next, each with any of these; one row of each that cannot be written | 255,931 |
| `serial_channel` | one reader, no nil port, no leak, `Close` returns | three openings: the loops of two earlier ones against the third | 4,412 |
| `framing` | delivery in order, damage is local; the laws of COBS, varints and protobuf messages | three packets, two damaged bytes: both in one packet, in neighbours, at a delimiter; all sequences up to seven bytes with full groups of three (two groups and the boundary after them); all numbers of seven bits in two-bit groups, whose last byte is partial as in 64 = 9 * 7 + 1; all messages up to five bytes of three bits: two fields, or one with a length that wraps the word; fixed numbers of one byte, doubles of three, the fewest that hold a word | 170,405: 35,175 of the line, the others one input each |
| `zones` | reported rooms are assigned, a room of one's own is created once, others keep theirs | three devices, two in one room, the one that is not deleted new, the third in an old room, two attempts, one failed query, one `delete-device` with `--delete-room`, one `delete-property` | 6,442,330 |
| `account` | complete, unique, backed up; settings belong together | three runs that overlap or follow one another, in eight worlds: everything is configured, or one setting or the file is missing; and the load alone in 96,768: host and password from any of the sources, `WYND_DB_DSN`, four kinds of `.env`, three environments, four answers of Secrets Manager | 396,268 |

A type invariant is checked where it says more than its types: in `rpc`, where it
bounds the requests of a call and is the first theorem.

Deadlock checking is off where the modelled program ends.

Two runs are expected to fail. Each shows a disagreement between the code and what
its comments or documents say, and is a finding in `PROJECT.json`:

| Run | The code | The text |
|---|---|---|
| `fw_run_no_map` | without a location map rows are written under one numbering (position among the devices updated) and read under another (position among all); a failed device is skipped | help of `fw-update`: re-runs "only update devices that failed in the previous run" |
| `worker_pool_quit` | the user quits before the first `wg.Add`, `wg.Wait` finds zero and returns, and the channels are closed under the workers launched meanwhile | comment in `cmd/fwupdate_tui.go`: "wait for them so we don't pull the rug out" |

Six more statements of the documents are formulas that the code breaks: three at the
end of `DeployRun`, three at the end of `Account`. They are no runs of their own. Given
as the `INVARIANT` of `MCDeployRun.cfg` or `MCAccount.cfg`, TLC refutes each in seconds
(those of `Account` in an initial state, a configuration that has just been loaded). No
property of a passing run contains one of them, or its opposite. They, and the other
places where code and text differ, are told with their modules above.

### Fairness

Weak fairness is given to the steps of the program only, never to the device or
the line: Go runs every goroutine that can run, the timers of a `select` fire,
sleeps are finite, and `Read` on a closed port returns. In `Rpc` it covers the
steps of a call that has begun, but not whether a new call or a further chunk is
started; in `FwDevice` (with its `FirmwareStream`) and `Deploy` the one worker; in
`SerialChannel` an `Open` or `Close` that has begun and each read loop; in
`WorkerPool` each goroutine, the work of a worker included because `WorkerEnds` of
`FwDevice` and `Deploy` says that it ends. The one step of a user that is fair is
pressing q after the screen has said that all is done: without it the command
rightly waits for ever. Where a model lets the environment win for ever (a device
that never answers) the liveness properties still hold because of deadlines and
bounded loops, which is what their faults take away. `FwRun`, `DeployRun`,
`Framing`, `Zones` and `Account` are checked for safety only and state no fairness.

## 4. Proofs

Every theorem holds for all values of the constants that satisfy the assumption its
component states by name (`RpcAssumption`, `FwRunAssumption`, ...), which TLC evaluates
in the runs. They are positive counts, finite sets, and types; the only ones that say
more are that the marker `"deleted"` of `Zones` is no room's name, that `Workers` is not
0 (section 5), that the packets of `Framing`, which stand for themselves in what is
delivered, are not empty and differ, and that a word has room for the tags of `Encoding`
and a double for a word. One theorem of a specification, `ConclusionAgreesWithWorkers`,
has a hypothesis of its own; those about the codecs assume of their inputs that they are
sequences of bytes and numbers of the word, and of messages that are read that they are
not too long to count. A theorem of a specification rests on one inductive invariant,
whose parts are named; `Spec => []IInv` is a lemma, and the theorems follow from it. The
inductive invariants were tried with TLC on the constants of the runs first.

### The RPC client (`RpcProof`)

* `TypeCorrect`: `TypeOK` is not inductive; `TypeInv` adds that no two calls in
  progress share a context (`Ownership`) and that a call about to send has requests
  left (`SendBound`).
* `RegistryCorrect`: inductive given `TypeInv`; ownership is what keeps one call's
  `Free` from removing another's context.
* `AnswersCorrect`: the answer a caller holds tells nothing by itself of where it
  came from, so `OwnInv` follows a request round: invocation numbers of contexts
  are distinct and were handed out (`InvocationsDistinct`); a packet on either wire
  that carries an invocation number of a context carries a body of that context
  (`WiresTruthful`); so does what a read loop holds between lookup and delivery
  (`ReadersTruthful`), what a `ResponseCh` holds (`ResponsesTruthful`) and what the
  caller got (`AnswerIsOwn`).
* `NoHandlerPanics`, `NoAnswerDropped`, `ImplementsCallService`: the refinement of
  `CallService`, step by step. That an answer is of the right call is `OwnInv`; that
  it is of the right *request* of a stream needs more, `CallInv`. Its parts: packets
  keep to the channel of their context (`HomeInv`); nothing follows the packet that
  ends a call, on the line, in the hands of `readLoop` or after `ResponseCh` is
  closed (`EndInv`, from which a panic is impossible); and of each context one
  request or answer at most is on the way, anywhere between the two ends, and it is
  the caller's last (`WayInv`). The last is stop and wait, and is why a late answer
  cannot be taken for that of a later request: a caller that gave up a request never
  sends another in the same context.

### One device (`FwDeviceProof`, `DeployProof`)

* `NilMeansWritten`, `ChunksStopAndWait`: for any number of chunks. `StreamInv` says
  where the one message under way is (`OneOnTheWay`) and what the device has written
  between two requests (`BetweenRequests`, `WrittenAndOver`), and that the line is
  lost with the port (`LineOfPort`).
* `NoRebootBetweenImages`, `SucceededRowIsApplied`: for any number of images.
  `UpdateInv` carries the images that are on the device from write to write
  (`ImagesKept`, `Progress`) and over the restart that makes it run them
  (`BootApplies`).
* `SucceededRowIsProvisioned`, `SucceededRowIsAssigned`: for any number of attempts.
  `CredentialsKept` says that polling starts only after the device has taken this
  deployment's credentials or has ended the call instead, and that nothing is sent to
  it after the success;
  `RoomDecided` ties the room columns to what the database has; `RowIsOfOutcome` says
  that the row is made of the local variables as the loop leaves them.

### A run (`FwRunProof`, `WorkerPoolProof`, `DeployProof`)

* `SkippedAreUpdated`, `RowsAreOutcomes`: for any devices, maps, workers and runs.
  The property speaks of the next run, the invariant of the file: under the map it
  was written with, a row that counts as succeeded is of a device whose latest
  update succeeded (`FileIsTrue`), at every moment, so also where a run is killed.
  To keep that, a worker's row must be the first of its bay in this run
  (`FileOfRun`), since each device is handed out once (`HandedOutOnce`).
* `LabelsAreWhole`: `ScanInv` says that what the operator has said is the map of
  what the writer holds, row by row, and that the file stays empty until it is
  flushed. Lemma `MapOfMoreRows` is about `LoadLocationMap`: one more row of a new
  location is one more entry.
* `EachDeviceItsSetting`, `RowForEachDevice`: for any devices, workers and runs of
  `deploy`. `RunInv` says that a device the loop has come to has the setting of its bay
  (`GivenIsBay`), and that it is being deployed, has the one row, or lost it
  (`RowsOfRun`); `RunIsOver` carries that over the end of the run. That none is left
  out whose setting is in its place follows from `GivenIsBay`, whatever the results
  of the run before were.
* `SettingIsOfItsRow`: for a settings file of any length. By induction over its rows
  (`SettingsAreMade`), each setting holds in every inherited column the nearest filled
  cell at or above its row, empty rows not counted, and in the others the cell of its
  row, whether the room is filled in or not. The fold starts from `ok`, and one
  row that does not parse ends it.
* `EveryDeviceIsWaitedFor`, `SemaphoreBoundsWork`: `PoolInv` relates the counter of
  the wait group and the slots taken to the states of the workers (`Counted`), the
  launcher's position to who was launched (`Launched`), and what the command does
  after `wg.Wait` to the workers having ended (`WaitOver`).
* `ConclusionAgreesWithWorkers`, when no two devices are on one bay (`BaysApart`: two
  that are share a row of the screen, and the theorem is false of them; section 5).
  `ScreenInv` says that the last event of a worker has been taken before its `Done`
  (`LastEventGone`, `DoneIsOver`) and that rows follow the events (`RowsFollow`).

### The serial line (`SerialProof`)

* `ReopenedChannelHasOneReader`, `ClosedChannelHoldsNoPort`: for any number of
  openings. The only loop that may still run is that of the port in the field, which
  is the port it reads, since `Close` waits for the loop before it clears the field
  (`LoopOfPort`); which port is open follows from where the owner is (`PortOfCall`).
* `DamageIsLocal`: for any packets, however alike, and any number of lost, altered or
  made-up bytes. `LineIInv` cuts what is still to be read where one of the written
  lines begins (`LineAt`), of which a part has been taken off. Every line that has
  gone by was delivered or is paid for, and so is the one that is arriving unless
  the buffer holds just what has come of it (`PaidFor`). A damaged delimiter costs
  two: the packet it ends is not delivered, and the buffer then holds its bytes in
  front of those of the next one.
* `UndamagedLine`: with no damage the packets are delivered in their order, and all of
  them once the line is read (`AsWritten`). What is delivered is what the decoder
  makes of the buffer, so both rest on `CobsExact`.

### The codecs (`SerialProof`, `InductionLemmas`)

The library's induction theorems are about an operator and cannot be used here.
`InductionLemmas` has induction about a *set*, that of the numbers a statement holds
of: upwards, downwards over an interval, and from all smaller numbers; they rest on
`WFMin` (a set of numbers has a least one). Its lemma `Recursion` says that a
recursive function exists whose value at each point is computed from points of a
smaller rank. A recursive definition of the model is a `CHOOSE` of a function that
satisfies its equation, and this is what makes the equation true.

* `CobsExact`: for every packet and every size of a full group. By induction over the
  bytes, what `COBSEncode` has written is a sequence of groups (`Groups`), each a code
  and as many bytes without a zero; by induction over the groups, from the last, the
  decoder makes of them what was encoded. The converse, that what is accepted is the
  encoding of what is made of it, goes over the positions of the line; there a line
  may end in an empty group after a full one, which the encoder never writes. The
  room that `COBSEncode` reserves is a lemma about division.
* `VarintsExact`: for every width of the word and of a group. The encoder is taken apart
  by complete induction over the number, the decoder by downward induction over the
  bytes: a number read from position `k` on is a multiple of the weight of `k`, fits
  the word and has a varint no longer than what it was read from (`NumbersFit`).
* `FieldsExact`: for every message that can arrive. A field that `decodeFields` makes is
  one that can be sent (`Sendable`), in no more bytes than it was read from
  (`FieldRead`); a field that stands somewhere in a message is read there
  (`FieldStands`). From the end of the message to its beginning it follows of every
  position that the fields from there on, sent again, are read as themselves
  (`AgainFrom`). The field of a length needs more than that it fits: its end is a
  signed sum, so that it must stand no later than where it was read. The end is right
  or, when the sum wraps, before its beginning (`EndIs`), which is the panic.
* `SentIsRead`: for any fields that can be sent, whichever and however many. By induction
  over the fields: where their bytes are the rest of a message, they are read there
  (`ReadWhereSent`). The fields must be fewer than half the word's bytes, which is
  where the end of a field would wrap.
* `KeyIsRead`: for every key, with whatever quotes and backslashes. A byte is escaped by
  itself (`EscapedMore`: the second replacement does not touch what the first has
  put in, which it would in the other order), and what the device reads is the key,
  wherever its escaped bytes are what is left before the last quote.
* `MessagesExact`: for every number of a word and every message, at every width that
  has room for the largest field number, 9, and a word in a double
  (`RoomAssumption`). What each write appends is the bytes of one field or, for an
  empty value, of none (`Carries`, `FieldUnless`), and what is appended one behind the
  other the bytes of all (`CarriedTwo`), so that `SentIsRead` gives the fields of each
  message. What a getter finds in them follows part by part (`FoundInTwo`). The seven
  fields of a provision request are written one behind the other without a case for
  each combination of empty values: `Built` says what the encoder holds after some of
  them and what a reader finds of it, and one more field keeps that (`OneMoreBuilt`);
  `ProvisionIsRead` is its end. The
  theorem assumes of each message it is about that an `int` can count its bytes
  (`MessagesCounted`), as it can those of every Go slice; in the run they all are
  shorter than 64 bytes, half the values of a word of seven bits.

### Shared state (`DatabaseProof`)

* `ReportIsTrue`, `RoomCreatedOnce`, `OthersKeepRoom`: for any devices, rooms and
  attempts. A found room has the name of the setting as long as it is there
  (`FoundIsNamed`); a room a device refers to stays (lemma `ReferredRoomStays`); a
  worker nobody competes with inserts a room only when there is none
  (`CreatedWhenMissing`).
* `ReportedAccountIsComplete`, `NoSecondUser`, `UserRowComesLast`: for any runs,
  overlapping and killed. Cognito takes the email once, so that one run at most
  gets past the sign-up (`OneSignUp`), and only that run writes rows (`RowsOfRun`);
  this is what stands in for the transaction the code does not have.
* `LoadedSettingsBelongTogether`: for any contents of the six sources; its last part has
  the premise that the `.env` file names no other environment than the chosen one, which
  `EnvironmentIsTheChosenOne` shows to be needed: it is false without it. `LoadIs` goes
  through the order in which the sources override one another; a run's settings are
  those of one load (`LoadedOnce`).

### Only model-checked

* Liveness (`EveryCallReturns`, `WorkerEnds`, `CommandEnds`, `CloseEnds`): fairness
  and `ENABLED` are beyond the prover.
* `DeliveredInOrder` on a line that damages bytes. That no packet is made up of damaged
  ones is a fact about the bytes of the packets and the checks of `Receive`, not about
  the framing: with packets close enough to one another it is false, and "far enough"
  would be an assumption as strong as the conclusion. Without damage it is proved.

## 5. Not modelled

* `crc16.go`: taken to be perfect in `Framing`; a model of its bits would repeat it.
* Messages and RPCs are checked apart: `Rpc`, `FirmwareStream`, `FwDevice` and
  `Deploy` take a request for its number or its meaning, `Encoding` has its bytes.
* The list commands, `create-property`, `unprovision` and the listing of `scan`:
  sequential, one query, insert or call each, their errors are printed.
* The `IOT_*` settings and the database's port, which are loaded like the others.
* Loggers, record types, the confirmation prompt, styles of the TUI.
* Two devices on one bay in the TUI share a row of the screen, whose `succeeded` flag
  is never taken back: `WorkerPool` has a bay for every device.
* A restart of the program that meets bytes of the run before on the line:
  invocation numbers start again at 1, and `Rpc` has one process.
* `--workers 0`: `Workers` is positive; the code would wait for ever.

## 6. Plan

Done: the modules above and their proofs.

Next, to model: an abstract specification of a run (every device taken on gets one
outcome) that `FwRun`, `DeployRun` and `WorkerPool` implement; two devices on one
bay in `FwTui`; a program that starts anew against answers still on the line.

Next, to prove: the abstract run, step by step; that a row of `FwRun` cannot be lost
twice.
