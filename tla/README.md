# TLA+ models of goProbe

This directory holds TLA+ models of the parts of goProbe in `src/` that have
concurrent or crash-prone behaviour, with TLC configurations that check them.
`PROJECT.json` lists the components, the runs, the mutants that show each
checked property can fail, the source lines every definition models, the
findings and the hazards.

## The system

goProbe captures packets per network interface, aggregates them into flows,
and every few minutes writes the flows out to a column-oriented file database.

| Part | Source | Role |
|---|---|---|
| Capture | `src/unnamed/part_000` (capture.go) | a per-interface state machine (`Run` goroutine), a packet goroutine (`process`), and thread-safe public methods that talk to the state machine over `cmdChan` |
| GPFile | `src/pkg/goDB/GPFile.go` lines 1-279 | one column file: a 3×4096-byte header (block end offsets, timestamps, uncompressed lengths) and the LZ4 blocks appended behind it |
| results | `src/pkg/results/result.go` lines 1-346 | the query `Result` (New, Start, End), result rows, and the `RowsMap` merge of rows from several hosts |
| status API, gpctl | `src/pkg/api/goprobe/server/status.go`, `src/cmd/gpctl/cmd/status.go` | the `GET /status` handler `getStatus`, and `gpctl status`, which fetches it, sums the per-interface counters and prints a table and the runtime info |
| classifier tests | `src/unnamed/part_002` (GPPacket_test.go) | the table of packets with the direction `ClassifyPacketDirection` must give them, and the common-port test |
| not in `src/` | spec.md §4.B, §4.C, §4.F, §4.G | FlowLog, packet classifier, Capture Manager, writeout pipeline |

How they interact: the Manager (not in `src/`) creates a Capture per interface
and cancels its context to shut it down. It calls `Rotate` on every Capture
and hands each flow snapshot to the writeout, which calls
`WriteTimedBlock` on one GPFile per column. Inside a Capture, the `Run`
goroutine owns the state, the capture source and the config. The `process`
goroutine writes the flow log, `errMap` and `packetsLogged` with no lock, and
it reports fatal errors on the unbuffered `captureErrors`. Clients hold
`c.mutex` across their send on the unbuffered `cmdChan` and the reply.
`gpctl status` asks the server's `getStatus`, which reads the Manager's
per-interface stats and the writeout's last rotation time.

## Inventory

**Capture** (capture.go)
- State: FSM state, config, `closed`, `captureHandle`, `lastRotationStats`,
  `packetsLogged`, `flowLog`, `errMap`, `ctx`. The state of each `process`
  goroutine: `errcount` and where it is in `capturePacket`.
- Operations: `Run` and the state functions `initializing`, `capturing`,
  `inError` and `closing`; `reset`; the `execute` method of each command
  (Status, Errors, Flows, Update, Rotate); `process`/`capturePacket`; the
  methods `Status`, `Errors`, `Flows`, `Update` and `Rotate`.
- Hard behaviour: two goroutines share fields without a lock; the closed
  check and `close(cmdChan)` race; `captureHandle` is re-read after `reset`
  nils it; a goroutine of a replaced source still delivers its error; the
  unbuffered error send can block forever.
- Properties: no source leaked; every logged packet handed off exactly once;
  no send on a closed channel; a
  packet goroutine acts only on its own source; `Run` keeps serving until closed; the packet goroutine
  terminates.

**GPFile** (GPFile.go)
- State: the file (header bytes and body), and the object's in-memory
  arrays, file offset and `lastSeekPos`.
- Operations: `NewGPFile` (create or open), `BlocksUsed`, `ReadBlock`,
  `ReadTimedBlock`, `WriteTimedBlock` and `Close`.
- Hard behaviour: a crash or a short write at each I/O step; the header
  rewrite is not atomic; O_APPEND puts bytes at the physical end while
  offsets come from the header; the seek cache; the ignored `Decompress`
  error.
- Properties: header round trip; every stored block decodes; a reported
  write is durable; no extent past the end of the file; reads never return
  another block's data; BlocksUsed names the slot the next write takes; the file
  implements an abstract store of timestamped blocks.

**results** (result.go)
- State: the caller's `RowsMap`, the merged counts returned, and the
  `Result`'s `Status` and `Rows`.
- Operations: `New`, `Start`, `MergeRows`, `MergeRowsMap`, `ToRows`, `End`.
- Hard behaviour: hosts' rows arrive in any order and by two merge paths;
  map iteration order is random.
- Properties: the map holds per-key sums.
- Not modelled: `Row.Less`, `Labels.Less`, `Attributes.Less` (see "More
  defects").

**status** (server/status.go, gpctl/cmd/status.go)
- State: the captures' counters and the last rotation (the server side);
  the request, the response as gpctl decodes it, and what it printed.
- Operations: `getStatus`; `statusEntrypoint` with its error branch, its
  totals and its runtime info.
- Hard behaviour: the iface parameter picks `Status(iface)` or `Status()`;
  a 204 has no body; the request can fail in three ways.
- Properties: what gpctl reports matches what the server knows.

**FlowLog and classifier** (spec §4.B, §4.C; tests in part_002)
- State: the live flow map (canonical key → orientation, packet counters,
  `directionConfidenceHigh`).
- Operations: `ClassifyPacketDirection` and the canonical key; `Add` and
  `Rotate`.
- Hard behaviour: seven direction rules applied in order; Rotate keeping
  active flows with their counters reset and dropping idle ones.
- Properties: the classifier agrees with the test table; a packet and its
  answer share a key.

## Modules

### Capture.tla: the Capture of capture.go

Data is abstracted to what the properties tell apart:
- a capture source is a generation number `1..MaxHandles`;
  `openHandles` holds those created and not yet closed;
- the flow log is its packet count `flowPkts`;
- the source's `PacketsReceived` is `recv[g]`;
- error strings are `ErrKinds`, and configs are model values.

| Variable | Code |
|---|---|
| `fsm` | the state function `Run` is in. `capSelect` and `errSelect` are the selects of `capturing` and `inError`; `exited` means `Run` returned |
| `state`, `config`, `closed`, `handle`, `errMap`, `packetsLogged`, `lastRotationStats` | the fields of the same names |
| `proc[g]`, `cur[g]`, `errcount[g]` | the `process` goroutine started for source `g`: its position in `capturePacket`, the source it last read from `c.captureHandle`, and its `errcount` |
| `cpc[c]`, `cmd[c]`, `mutex` | client `c`: idle, sending on `cmdChan`, or waiting for the reply; which command; the holder of `c.mutex` |
| `cancelled` | `ctx.Done()` is closed |
| `crashed` | a Go panic: a send on the closed `cmdChan`, or a call through a nil `captureHandle`. `Next` stops there |
| `rot` | the locals of `Run` while it executes a Rotate: the source stats, the reported `PacketsLogged`, and where `Run` goes next |
| `statPkts` | history: the sum of the `PacketsLogged` all Rotates reported |

Actions:
- One action per state function and per select case: `Initializing`,
  `Capturing`, `CapturingCancel`, `CapturingCommand`, `CapturingError`,
  `InError`, `InErrorCancel`, `InErrorCommand` and `Closing`.
- One per step of `capturePacket`: `ProcessNext`, `ProcessStopped`,
  `ProcessPacket`, `ProcessCaptureError`, `ProcessAdd` and `ProcessLogged`.
  `flowLog.Add` and `packetsLogged++` are separate steps because they are
  separate unsynchronized writes.
- The client steps `Call`, `SendOnClosed` and `Return`.
- The environment's `CancelContext`.

A command's `execute` (`ExecuteRead`, `ExecuteUpdate`, `ExecuteRotate`) runs
inside the select case that receives it: the rendezvous on the unbuffered
`cmdChan` is one step. Status and Update execute atomically, since they touch
nothing `process` writes. Rotate does not: nothing stops `process`, so
`captureCommandRotate.execute` takes three steps of `Run`:
- `ExecuteRotate`: `flowLog.Rotate()` and `tryGetCaptureStats()`, lines
  202-207;
- `RotateReport`: the first read of `c.packetsLogged`, line 211;
- `RotateBaseline`: the second read, line 215, then the reply, line 218.

`process` steps run between them. The two reads race with
`packetsLogged++`, so the second may see a newer value, or the compiler may
reuse the first load. `RotateBaseline` allows both outcomes. The client
waits (`cpc = "wait"`) until `RotateBaseline` answers it. `reset` (`Reset`) is part of the `Update` and `Closing`
steps. `Errors` and `Flows` have the same control as `Status` (the set
`ReadOps`).

### GPFile.tla: one block file of GPFile.go

- The header is kept as bytes:
  - `HeaderBytes` is the `wBuf` serialization, built from the recursive
    `BigEndian`;
  - `ParseHeader` is NewGPFile's parse loop, built on `ParseWord`, a
    `FoldLeft`.
- The body is a sequence of cells. A block is the `CompLen[d]` cells
  `<<d, k>>` (`Enc`); it decodes to `d` only when it is read whole, from its
  start, into a buffer of its length. Anything else fails the length check
  or comes back as `"garbage"`, because the code ignores the error
  `Decompress` returns.
- The in-memory arrays are `mhdr`; `pos` is `curFile`'s offset;
  `lastSeekPos` is the field of the same name.
- `written` and `lastRead` are history: the payload of each write that
  returned nil, and the result of the latest read.

Actions:
- `NewGPFileCreate` and `NewGPFileOpen` are the two paths of `NewGPFile`.
- `ReadBlock`, `ReadTimedBlock` and `Close`.
- `WriteTimedBlock` is one action with every outcome as a disjunct:
  - the full success;
  - `Compress` fails after writing `k` bytes;
  - the process dies during the append;
  - the header open fails after the arrays were updated;
  - the header write stops after `k` of its three arrays, with or without
    the process dying.

`Failures` selects which of these a run allows. A crash is a death of the
process: what `write(2)` accepted stays in the file. A torn header write
keeps whole arrays, since each array is one 4096-byte page in the code.

### BlockStore.tla: what a block file promises

`store[ts]` is the payload stored under timestamp `ts`. `Put(ts, d)` stores a
payload under a new non-zero timestamp while fewer than `NumElements` are
stored. GPFile's `StoreOnDisk` is the refinement mapping: it parses the header
on disk and, for each timestamp it lists, decodes the block of the first slot
holding it (`DecodeSlot`), as a fresh `NewGPFile` and `ReadTimedBlock` would.
`BlockStoreRefined == BS!Spec`, where `BS` is `INSTANCE BlockStore WITH
store <- StoreOnDisk`. Reads are not part of the abstract specification,
because the seek-cache defect (`gpfile_reread`) makes them return other data.
Under failures the refinement does not hold: a torn or crashed header write
loses a slot's timestamp (see "More defects" below).

### Results.tla: result.go

- A `MergeableAttributes` key is a model value of `Keys`; `types.Counters`
  is one natural number, and `Counters.Add` is `+`.
- `input[h]` holds the rows host `h` returned, chosen in `Init` among all
  sequences of at most `MaxRows` rows.
- `rm` is the caller's `RowsMap`; `merged` is the sum of the counts
  `MergeRows`/`MergeRowsMap` returned; `how[h]` records which path merged
  `h`.
- `phase`, `rows` and `status` are the `Result`: `New`, `Start`, `Rows` set
  by `ToRows`, `End`.

Actions: `Start`; `MergeRows(h)`, a `FoldLeft` of `MergeRowsStep` over the
rows; `MergeRowsMap(h)`, which merges the map the host built from its rows
(`ToRowsMap`); `ToRows`, which picks any enumeration of the map, as Go's map
iteration does; and `End`.

### StatusAPI.tla: the status handler and `gpctl status`

- The Manager's `Status(iface...)` (`ManagerStatus`) maps each running
  interface in `Ifaces` to five counters (`Counters`): received and processed
  since start, received, processed and dropped since the last rotation. The
  environment is modelled from spec §3, §4.E-§4.G and §6:
  - `Receive(i, decoded)` counts a received packet, and counts it processed
    only if it decodes;
  - `Drop(i)` counts a kernel drop;
  - `Reinit(i)` zeroes the source's counters after a re-initialization;
  - `Writeout` sets `LastRotation` and zeroes the since-rotation counters;
  - `Tick` advances the clock.
- `Invoke(a)` is `gpctl status a` (or no argument, `a = ""`). `GetStatus` is
  the server's `getStatus` together with the transfer: `GetStatusResponse`
  builds the response (200, or 204 when no status), and `Delivered` is
  gin's `c.JSON`, which sends no body with a 204, so the client gets a
  decode error or an all-zero answer. `RequestFails` is a transport
  failure, a cancellation or a deadline.
- `ErrorExit` is the error branch of `statusEntrypoint` (exit 1,
  `SilenceUsage` for context errors); `Report` is the rest: the interfaces
  shown, the totals (`Totals`, a fold over the interfaces) and the runtime
  info, with `Shown` for the `-` of a zero writeout time. The table layout
  is left out.
- `sent` is history: the `LastRotation` the handler read.

### FlowLog.tla: the flow log and the packet classifier

Neither is under `src/`; both are modelled from spec §4.B and §4.C. Their
test file is under `src/` and is translated: `TestCases` is the table of
`testCases` (addresses numbered, ports, protocols and ICMP types as they
are), `IsCommonPort` is what `TestPortMergeLogic` requires.
- A packet is a record of the `EPHash` fields and `auxInfo`. `Classify` is
  the seven rules of §4.C in their order and returns the direction and
  `directionConfidenceHigh`. Rule 4 is read as "exactly one port is zero";
  with both zero the packet is a tie. `Key` is the `EPHash` in canonical
  orientation; `auxInfo` is not part of it.
- `flows` is the live map. `Add(p)` inserts a new key with the packet
  forward and its orientation, or counts it forward or reverse against the
  orientation of the flow's first packet.
- `Rotate` follows `BenchmarkRotation` in `src/unnamed/part_001`, lines
  215-234, not spec §4.B. Every flow with packets since the last rotation
  (`Active`) goes to the aggregate. It stays live with its counters reset,
  keeping its orientation and confidence (`Retained`). A flow idle for a
  whole interval is dropped. The benchmark expects exactly this: confident
  flows all aggregated and all kept, then, with no new packets, none of
  either. Spec §4.B instead releases confident flows from the live map.
- `aggPkts` is history: the packets in all aggregates.

## Runs

| Run | Config | Expect | What it shows |
|---|---|---|---|
| capture_main | MCCapture.cfg | pass | `TypeOK`. `HandlesNotLeaked`: only the current source is open, and none after closing. Both hold across Updates, source errors, cancellation, two clients, and a Rotate interleaved with `process`. |
| capture_lostreport | MCCapture_lostreport.cfg | violation | `PacketsReportedOnce`: a packet logged between Rotate's reads of `c.packetsLogged` at lines 211 and 215 goes into the new baseline, so no Rotate's `PacketsLogged` ever counts it |
| capture_loop | MCCapture_loop.cfg | violation | `CommandLoopAlive`: a Status in `capturing` ends `Run` (`return nil`, line 365) with `closed` false |
| capture_sendclosed | MCCapture_sendclosed.cfg | violation | `NoSendOnClosedChannel`: a client that passed the closed check under the mutex is blocked sending when `closing` closes `cmdChan` |
| capture_stalesource | MCCapture_stalesource.cfg | violation | `ProcessConfinedToItsSource`: after an Update, the replaced source's `process` reads `captureHandle` when it is nil or the new source, and its error reaches the new source's `capturing` select |
| capture_leak | MCCapture_leak.cfg | violation | `ProcessTerminates` (under `FairSpec`, with no client): `process` gets a capture error just as the context is cancelled. `Run` takes the cancel case of the select and closes. The goroutine stays blocked sending on `captureErrors` forever. |
| gpfile_roundtrip | MCGPFile.cfg | pass | `StoredBlocksDecode`: every written block decodes from the header on disk. `DiskHeaderCurrent`: the disk header parses to the in-memory arrays. `BlocksUsedIsNextWriteSlot`: `BlocksUsed` is the index the next new timestamp is written to. `BlockStoreRefined`: the file implements `BlockStore`. All hold with no failures, across closes and reopens. |
| gpfile_failures | MCGPFile_failures.cfg | pass | `WrittenBlocksDurable`: a block whose write returned nil stays listed on disk. `ExtentsWithinFile`: no slot points past the end of the file. Both hold under every failure. |
| gpfile_reread | MCGPFile_reread.cfg | violation | `ReadNeverReturnsOtherData`: reading a block twice skips the seek and decodes the next bytes |
| status_report | MCStatusAPI_report.cfg | violation | `StatusReportFaithful`: gpctl prints the zero time as "Running since", because `getStatus` never sets `StartedAt`. On a 204 the missing body makes gpctl exit 1 without a transport error, or print `-` for a writeout the server had. |
| flowlog | MCFlowLog.cfg | pass | `ClassifierMatchesTests`: the classifier gives every row of GPPacket_test's table its expected direction. `ReplySharesKey`: over TCP and UDP with twelve port values and over ICMP echo, a confidently classified packet and its answer get the same key (spec §8). Both hold in every state of an Add/Rotate run. |
| results_merge | MCResults.cfg | pass | `MergeIsPerKeySum`: in any merge order and by either path, the map holds each key's sum. |

Every violation is a disagreement between the code and spec.md, a comment, or
the code's own intent. Each one is recorded under "findings" in
`PROJECT.json`.

### More defects

These showed up while modelling. They have no run of their own, because the
project keeps at most twelve runs, and are listed as hazards:
- `Rotate` has no closed check (line 617), so it also sends on a closed
  `cmdChan`. The model reaches this through the same `SendOnClosed` step.
- A crash between `os.Create` and the header writes (`GPFile.go` line 81)
  leaves a file shorter than the header, which every later `NewGPFile`
  rejects. The model reaches it: `NewGPFileCreate` may end in `disk =
  "short"`, and no action is enabled for that file afterwards.
- `flowLog.Add` and `packetsLogged++` in `process` (line 457) are two
  unsynchronized writes, and a Rotate between them returns a `PacketsLogged`
  that differs from the packet count of the aggregate it hands off (spec §5
  wants the packet task quiesced). The packet is reported by the next
  Rotate, unless it falls into the window that capture_lostreport shows.
- `Labels.Less` (result.go line 213) compares timestamps with `!=`, which is
  `time.Time` struct equality: location and monotonic reading count, not
  just the instant. It then uses `Before`. Two rows at the same instant in
  different locations are unordered whatever their hostname and interface.
  Being unordered is then not transitive, so `sort` gives an order that
  depends on its input. The Less functions are left out of `Results`: a
  faithful model needs times with locations, and the violation would need a
  run of its own.
- `BlocksUsed` of a full file returns −1 and an error (`GPFile.go` line
  133); spec §4.A says 512. A torn header write leaves a slot with its
  offset but timestamp 0: `BlocksUsed` counts it as used, while
  `WriteTimedBlock` writes into it (line 212). `BlocksUsedIsNextWriteSlot`
  checks that the two scans agree in the failure-free run only.
- After an append that failed or crashed part-way (`GPFile.go` line 214),
  the next `WriteTimedBlock` records its block as ending at
  `blocks[i-1] + nWrite`, but `O_APPEND` puts its bytes after the garbage.
  The block then decodes from the wrong bytes. `StoredBlocksDecode` finds
  this under `Failures <- AllFailures`; spec §4.A says trailing garbage is
  ignored. `ExtentsWithinFile` still holds.

Two points where spec.md disagrees with itself showed up while modelling
the classifier:
- §8 asks that every packet P and `swap(P)` get the same key. That holds
  for TCP and UDP packets classified with confidence, and for ICMP echo
  pairs. It fails for a router advertisement, where a swap is still
  "Remains", and for ties (equal ports), which the test table expects to
  keep their orientation.
- §4.B keeps unconfident flows "so that a future packet in either direction
  can still establish confident orientation". The reverse packet of a tie
  is itself a tie, keeps its own orientation, and gets a different key. A
  retained tie flow therefore only ever sees its own direction.

A failed `Stats()` reads as zero, so Rotate's received delta can go negative
(lines 512 and 207); the spec prescribes zero on StatsUnavailable, so it is a
hazard without a property.

## Bounds

**MCCapture**
- 2 clients, with symmetry. That is enough for one client to hold the mutex
  while the other waits.
- 2 configs, so an Update can be a no-op or a reinitialization.
- `MaxHandles = 2`: one reinitialization, and therefore an old and a new
  `process` goroutine.
- `MaxPackets = 2` packets in all.
- `ErrorThreshold = 1`, so two consecutive bad packets are fatal.
- The main run reaches about 7.6 million states in under a minute and a
  half.
- The leak run has no client, so its trace owes nothing to a blocked
  caller.
- The violation runs drop the operations they do not need.

**MCGPFile**
- 2 slots. That is enough to fill the file and to have a previous block
  whose end is the next one's start.
- 2 payloads with compressed lengths 1 and 2, both decompressing to 3
  bytes, so an extent computed from `len(data)` differs from one computed
  from `nWrite`.
- Timestamps {0, 1, 2}. Zero is the empty marker, and writing it hits the
  duplicate check.
- `MaxFileCells = 4` caps the body, which partial writes would otherwise
  grow without bound.
- Header values stay below 256, so the high bytes of every int64 are zero.
  The 64-bit width itself is not exercised: TLC integers are 32-bit.

**MCFlowLog**
- Six packets between three hosts:
  - an ICMP echo request, its reply, and an ICMP error between the same
    hosts (one key, confident and unconfident);
  - an HTTPS request and its response;
  - a same-port UDP tie.
- At most 4 Adds and 2 Rotates, so a flow is retained by one Rotate and
  dropped idle by the next, or retained and then made confident.
- The classifier checks cover all 26 table rows. `ReplySharesKey` covers
  TCP and UDP over 12 port values chosen at each rule's boundary (0, 53, 67,
  68, 80, 443, 444, 1023-1025, 33560, 33561) and the ICMP echo types.

**MCResults**
- 2 hosts, 2 keys, counters 1 or 2, at most 2 rows per host. Two hosts give
  both merge orders and a key shared between hosts; two rows give a key
  repeated within one host.

**MCStatusAPI**
- Running interfaces `eth0`, `eth1`; gpctl may name either, `lo` (not
  running) or none. That covers a 200 for one and for all, and a 204.
- `MaxPkts = 1` per interface and counter.
- `MaxTime = 2`, so the writeout may have run or not before the request.
- All three request failures.

## Fairness and deadlock

- `FairSpec` assumes weak fairness of:
  - the `Run` goroutine;
  - each `process` goroutine's steps that need no packet: reading the
    handle, noticing a closed source, `Add` and `packetsLogged++`;
  - each client's receipt of its reply;
  - the panic of a client blocked sending on `cmdChan` when it is closed.
    Go panics such a sender as soon as the channel is closed.
- The Go scheduler runs every runnable goroutine eventually, and
  `Close()` of a source unblocks `NextPacket`.
- Packet arrival, capture errors and cancellation are not assumed to happen.
- Only `capture_leak` checks liveness.
- `MCCapture` runs set `CHECK_DEADLOCK FALSE` because the program really
  stops:
  - `Run` returns after `closing`, and after `capturing`'s `return nil`;
  - every packet, source and cancellation budget is finite;
  - a panic ends the program.
- `gpfile_failures` sets
  `CHECK_DEADLOCK FALSE` because a crash during create leaves a file that
  nothing can open, and nothing else can happen to it. The failure-free
  GPFile runs check for deadlock.
- `results_merge` sets `CHECK_DEADLOCK FALSE`: a query ends with `End`.
- `flowlog` sets `CHECK_DEADLOCK FALSE`: its Add and Rotate budgets run out.
- `status_report` sets `CHECK_DEADLOCK FALSE`: `gpctl status` is one
  command, and the model stops once it has returned and the bounded clock
  and packets are used up.

## What is not modelled

- **LZ4.** It is not in `src/`; it is abstracted to tagged cells (`Enc`).
- **Not under `src/`:**
  - FlowLog, the classifier, the Capture Manager and the writeout pipeline
    are only in spec.md. FlowLog and `ClassifyPacketDirection` are modelled
    from it in `FlowLog`; `Populate`'s parsing of IP layer bytes and the
    byte counters are not. The Manager's context cancellation is
    `CancelContext`, and its `Status` is `ManagerStatus` in `StatusAPI`.
  - The Capture Manager and the writeout pipeline have no module. Spec §4.F
    and §4.G describe them in two paragraphs: too little to model their
    control faithfully beyond what `Capture` and `StatusAPI` already take
    from them.
  - `src/unnamed/part_001` tests a newer Capture API (`capLock`,
    `transferAndAggregate`) that is not the capture.go modelled here. Only
    `BenchmarkRotation`'s expectations are used, for `FlowLog`'s `Rotate`.
- **Formatting and I/O:**
  - logging;
  - the `String`/`MarshalJSON`/`Print` helpers of `result.go`;
  - the gpctl table layout, column widths and humanized numbers
    (`status.go` lines 82-97 and 108-127);
  - gpctl's several interface arguments: the model passes one or none, as
    the server's route takes one;
  - the gin middleware in `GPFile.go` lines 280-354;
  - the Makefile in `result.go` lines 347-503.
- **Data races that change only a value nobody checks:** the `c.ctx` race in
  `setState`, and callers reading the live `errMap`/`flowLog` returned by
  Errors/Flows. They are listed as hazards.

## Plan for further work

1. A `Writeout` module that composes Rotate with one GPFile per column.
   The spec says all columns of one aggregate carry the same timestamp and
   rows stay aligned across files. The property to check is that a crash
   between column writes breaks that alignment.
2. An abstract Capture specification (commands answered in order, and every
   packet reported once), with `Capture` shown to implement it through a
   refinement mapping, once the defects found here are fixed.
3. A Manager module (spec_modelled) that fans out Update/Rotate/Close to
   several Captures.
4. Composing `FlowLog` into `Capture` in place of the packet count, once
   the state space allows it.
