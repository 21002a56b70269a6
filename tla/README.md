# A TLA+ model of dvbt-rx

dvbt-rx is a receiver for reduced-bandwidth DVB-T (35 to 500 kS/s, 2k mode, QPSK): IQ samples
come in on stdin, MPEG transport stream packets go out on stdout, to a file or over UDP.  It is
written in C, runs as a small number of threads in one process, and in live mode it is meant to
run for weeks over a link that fades.  This directory holds TLA+ models of the parts where such
a program goes wrong in ways a test would hardly show, the TLC configurations that check them on
small instances, and TLAPS proofs of the results that matter most.

Every definition is translated from the source, and `PROJECT.json` names the lines each one
stands for.  Paths below are relative to the repository (`src/` in `PROJECT.json`); `probe` is
`src/probe_constellation.c`, `outer` is `src/dvbt_outer.c`, `script` is
`tools-pi6ehv/dvbt_rx_pi6ehv.sh`.

Run a check with `tlc -config MCFec.cfg MCFec`, a proof with `tlapm LiveDecodeProofs.tla`.

## 1. The system

    arguments -> receiver loop: one chunk after the other                          main thread
    stdin -> [reader thread] -> IQ ring -> resampler -> OFDM sync, pilots, soft bits
                                                             | soft FIFO
                                                             v
                                                           FIFO1 (jobs, live_decode_mutex)
                                                             |
             inner deinterleaver, depuncture, Viterbi <------+                    worker thread
                    | bytes
             outer deinterleaver, RS(204,188), descrambler -> FIFO3 -> block 4: validator,
                                                                       gate, burst -> sink
             status JSON and display state: written by both threads --> start script (watchdog)
             windows of --gui: a thread each, fed by both

### Components

| component | state | operations | correct when |
|---|---|---|---|
| **FIFO1 and the decode worker** (probe 4845-5024, 5347-5393, 6403-7267, 8236-8540) | job queue, queued and processing symbol counters, epoch, pending gap, stop flag; the Viterbi stream and the outer stream, which both threads write and no lock guards; the frontend's cursor and hold counter | enqueue, invalidate, worker loop with three looks at the epoch, slices, failures, shutdown | the counters are what they count; bytes of two epochs never meet in the outer deinterleaver; every lost symbol is marked; no wake-up is lost; shutdown drains |
| **IQ ring and sample clock** (probe 1629-1883, 2155-2427, 7927-7937, 9150-9164) | ring, head, count, end of input, overrun counter; pending discontinuity and overrun, output time, tail, cursor | push, blocking read, skip, resample, keep tail, continuity verdict | the ring holds the newest samples in order, loses some only when the frontend is behind, and the sample time accounts for what was lost |
| **Pipeline FIFO** (src/pipeline.c) | ring, closed flag, two conditions | try/wait push and pop, close, clear | a bounded queue; nobody sleeps on work; close releases everybody |
| **OFDM frontend** (probe 5062-5276, 7900-8540, 9100-9280) | tail of the last chunk, cursor, AFC trend, status hold, hold counter | acquire or track, scan for pilots, judge, shift the carrier, hold back, drop, hand over | a run of chunks brings every symbol once and in order, and the lock comes back whatever was lost |
| **Inner FEC** (probe 5600-6401) | Viterbi metrics, ring of survivors, depuncture phase | deinterleave, depuncture, decode a slice, trace back | the bytes are the bits sent, over slices and resets |
| **Outer FEC** (outer 960-1534, 3076-3937) | deinterleaver rows and branch, block under construction, scrambler phase, pending bytes, fail counters | acquire, feed, realign, correct, give up, reset | each block once, in order, at its place in the scrambler's period; a dead cadence is given up and a good one is kept |
| **Block 4** (outer 355-385, 1800-2535, 3657-3680, 4385-4408) | per call: the validator; across calls: gate, tables, replayed configuration, burst buffer | observe, note, open, relock, write, flush | the output opens on fresh tables, replays only unbroken configuration, accounts for every packet |
| **Status JSON and display state** (outer 238-294, 2583-3074) | session counters, snapshot, write back-off, temporary file | note, publish, write, rename | readers see whole files; a lock is shown only while there is one; a packet is counted once |
| **Receiver loop and configuration** (src/config.c, main.c, receiver.c; probe 9050-9280) | configuration, resampler position, tail | parse arguments, read a chunk, resample, choose a guard interval, end | ends at the end of the input, and not before |
| **Windows of --gui** (probe 353-1240) | flags, newest points, history ring, a thread | start, submit, look, draw, close | one thread a window; it shows the newest |
| **Start script** (tools-pi6ehv) | three processes, seen lock, lock lost since | start, look, stop, wait, restart | stops what is stuck, has a cause for each stop, and starts the pipeline again |
| **Sample formats, UDP output** (src/iq_input.c, src/udp_ts_output.c) | none; a socket | convert a block; send a datagram | not modelled, see section 5 |
| **Visualizer, offline tools, Windows GUI** (src/visualizer.c, tools/, gui/) | their own | send, replay, plot, launch | feed nothing back into the receiver |

### How the parts interact

* The reader thread and the frontend share the IQ ring under its mutex and one condition; what
  was lost is learned from the overrun counter, read at the start and the end of each read.
* The frontend and the worker share FIFO1 under `live_decode_mutex`, and the epoch tells the
  worker that what it holds has been invalidated.  They also share the Viterbi stream and the
  outer stream, which the frontend resets *outside* the mutex while the worker may be in the
  middle of a slice.  This is the hardest part of the program and is modelled first.
* The worker calls the outer FEC and block 4 as functions; FIFO3 between them is filled and
  drained by the same thread.  The output gate outlives the calls.
* Both threads publish status through globals and one temporary file.  The start script reads
  that file once a second, several times per look, and knows nothing else of the receiver.
* Both threads hand points and levels to the windows of `--gui`; nothing comes back.

### What is hard

Unlocked resets against a worker between two checks; state read under a lock and used after it;
overruns between two reads; a full queue whose gap mark must reach the next accepted job; a slice
that fails with the mark of its job; wake-ups by a single signal; a tail, a cursor and a sample
clock that must agree on the same symbol; a survivor ring that wraps; bytes that pass the
deinterleaver twice after a realignment; a sink that refuses a burst the gate keeps; two writers
of one temporary file; a status file left over from an earlier receiver; saturating counters that
would hide a drift.  `PROJECT.json` lists every hazard at its line with the properties that cover
it, or the reason why none does.

## 2. The modules

| module | models | checked in |
|---|---|---|
| `LiveDecode` | FIFO1, the frontend's decisions, the worker, the two decoder streams | `MCLiveDecode` |
| `LiveDecodeProofs` | types, separation of epochs, gaps, counters and shutdown, proved | TLAPS |
| `ReceiverLoop` | from the arguments to the exit status: samples of a chunk, resampler position, guard interval | `MCFrontend` |
| `IqRing` | the IQ ring, the reader, the sample clock, the continuity verdict | `MCFrontend` |
| `IqRingProofs` | the ring and the sample clock, proved | TLAPS |
| `OfdmFrontend` | the live frontend chunk by chunk: tail, tracking, pilots, AFC, hold, drop | `MCFrontend` |
| `FrontendProofs` | order of symbols, the lock that comes back, the end of the loop, proved | TLAPS |
| `BoundedQueue` | what a FIFO promises: the abstract specification | refined by `Fifo` |
| `Fifo` | `rbdvbt_fifo_t` for any set of threads | `MCThreads` |
| `GuiWindows` | a window of `--gui` with its thread | `MCThreads` |
| `ThreadsProofs` | `Fifo` implements `BoundedQueue`, wake-ups, windows, proved | TLAPS |
| `Carriers` | carrier roles, pilot signs and symbol interleaver of the 2K mode, full size | `MCFec` |
| `InnerStream` | deinterleavers, depuncturing, both Viterbi decoders | `MCFec` |
| `OuterStream` | the outer decoder byte by byte: alignment, deinterleaver, blocks, scrambler phase | `MCFec` |
| `ReedSolomon` | `rs_correct_204` with its field | `MCFec` |
| `OuterFec` | the outer FEC job by job: acquisition, fail counters, realignment, reset | `MCFec` |
| `OuterFecProofs` | of `OuterFec` types, the end of cadences, resets between the steps of a job; of `OuterStream` order and phase of the packets, proved | TLAPS |
| `TsGate` | block 4: validator, gate, burst buffer, failing sink | `MCOutput` |
| `TsGateProofs` | the properties of the gate, proved | TLAPS |
| `Status` | the reports of both threads, step by step, and the file they end up in | `MCOutput` |
| `StatusProofs` | the properties of `Status`, and that it implements `StatusFile`, proved | TLAPS |
| `StatusFile` | what readers of that file may rely on: the abstract specification | refined by `Status`, extended by `Watchdog` |
| `Watchdog` | the start script on top of `StatusFile` | itself |
| `WatchdogProofs` | what is behind every stop, proved | TLAPS |

The MC modules name the instances.  `MCFrontend`, `MCThreads`, `MCFec` and `MCOutput` put
components side by side that share no state: a variable says at the start which of them a
behaviour looks at, the others keep their initial state, and every property of a component holds
of the behaviours in which it does not move.  The configurations give the constants their values
and replace no definition.  Operators marked "Mutant" in a module are plausible bugs in the code
next to them.  No specification uses them; each is there to be put in the place of the
definition that follows it, and makes the property `PROJECT.json` pairs it with fail, which is
how we know that the property depends on the code.

### LiveDecode

The payload is abstracted to its place on air: symbol *p* is the *p*-th OFDM symbol transmitted
and a chunk, a job or a decoder stream is an interval of symbols.  That is what the properties
tell apart: a gap is a symbol missing inside an interval, and a mixture of epochs is a set of
epochs with two members.

* `fpc` is where the frontend is in `write_dvbt2k_qpsk_constellation`.  `ReceiveChunk` computes
  the continuity verdict from the cursor; a discontinuous chunk goes through the three resets
  (`lost_*`), a chunk with weak pilots is held (`PilotHold`) or dropped (`PilotDrop`, then
  `drop_*`), a good one is enqueued.  Each of the three resets is a step of its own since only
  the second holds the mutex.
* `Enqueue...` are the outcomes of `live_decode_enqueue`, one action for each: no memory, too
  large, full, accepted.  `StartWorker` creates the thread at the first job.
* `wpc` is where the worker is in `live_decode_worker_main`: one step for each critical section
  and one for each access to a shared stream, so that the frontend's resets may fall between the
  look at the epoch and the decode, or between the decode and the second look.  A slice takes
  effect on the Viterbi stream in two steps (`ViterbiStart`, `ViterbiEnd`) and on the outer
  stream in two (`OuterStart`, `OuterFeed`).
* `unmarked`, `innerGap`, `outerGap` and `staleFailure` are history: what was given up without a
  mark, what is missing inside a run, and whether an invalidated job failed in the decoder.  A
  slice that fails gives up the rest of its job; and if the job was to mark a discontinuity the
  outer stream has not yet seen, the mark is lost, and all between the two counts as given up
  (`GivenUpFrom`).  That is what the code does; no document says otherwise.

### ReceiverLoop

`cfg` is the configuration; `ReadArgument` reads one argument, the last of a kind counts, and
`BadArgument`, `Answer` (help, version), `Refuse` and `Measure` (benchmark) are the other ends of
`main`.  A round of the loop is `Setup`, `ReadChunk` (the samples a live chunk asks for, or what
is left), a resampler (`ResampleLive` with its fractional position `place` and the tail its filter
keeps, `ResampleWhole`), `Prepare` (guard interval, tail of the last chunk, the test for four
symbols that ends the probe with `RBDVBT_PROBE_EOF`) and `DecodeChunk`.  `Returns` is what
`receiver.c` makes of each return code: only in live mode does a failure go on to the next chunk.
What is done with the symbols is the matter of `OfdmFrontend` and `LiveDecode`.

### IqRing

A sample is its number of arrival.  Symbol *k* starts at sample `k * SymbolLen`.  `Push` is
`live_iq_ring_push` with its prefix, drop, wrap and broadcast; `ReadWait` and `ReadTake` are
the two ends of `live_iq_ring_read` together with what `read_probe_samples` does with the
overrun count; `Resample`, `KeptTail` and `Demod` keep the output time, the tail and the cursor.
The resampler runs at ratio 1 without a filter tail.  `hidden` is the amount by which the sample
time falls behind: the overruns no read reported.

### OfdmFrontend

Samples are counted on the output clock of the resampler; a transmitted symbol begins at every
multiple of `OfdmLen`.  Positions that outlive a chunk are kept relative to its end, so the model
has no end of its own.  `ReadFrame` puts the tail in front of the chunk and moves the cursor over
an overrun; `Track` or `Acquire` finds the first symbol, off by a choice from `Jitter`;
`PilotScan` finds the bin and the pilot lock, which is one of the four classes the code tells
apart (0.45, 0.55 and 0.70 are its limits); `Judge` is AFC with its trend and the verdict on
continuity; `HoldBack`, `DropChunk` and `HandOver` are what becomes of the chunk.  `First`,
`Used` and `NextStart` are the loop over symbols, with the symbols skipped because the last chunk
had them and the one given up because it ends with the chunk.  The carrier may move by up to two
bins from chunk to chunk and so leave the bins that are searched.  `given`, `skipped`, `seam` and
`steady` are history.

Two things follow from the code and are worth knowing, though no document is contradicted.  With
AFC on, a drift seen at a lock of 0.45 to 0.55 makes the chunk discontinuous and the cursor takes
the new bin at once, so the confirmation over two chunks (README.md:429) is only ever reached as
advice with AFC off.  And the cursor's symbol phase modulo four is recorded but never compared.

### Fifo and BoundedQueue

One action of a thread is what it does between taking the mutex and releasing it, in a call it
enters or in one it resumes after `pthread_cond_wait`.  A signal wakes one sleeper of the
model's choice, and a sleeper may wake unasked.  `Implements` is the refinement: the slots from
`head` on are the queue of `BoundedQueue`, `~closed` is `open`, and the return codes agree.

What is checked and proved of `Fifo` are statements about pipeline.c, for any use of it.  This
program uses little of it: its one `rbdvbt_fifo_t` is FIFO3, a local variable of
`rbdvbt_outer_recover_ts` (outer 3652), which one thread fills and drains with `try_push` and
`try_pop` (3136-3153, 4044-4061, 4291-4308).  The calls that wait, and close, are never made; the
queue between frontend and worker (FIFO1) has code of its own, which is in `LiveDecode`.

### GuiWindows

What is handed over is numbered.  `Start` and `StartFails` are asked for before every chunk;
`SubmitDepth` fills the history ring of the FIFO1 window and `SubmitPoints` the points of the
other two.  A window's thread opens a display, waits, copies (`Look`), handles events
(`UserCloses`), and reads `stop` without the mutex before it draws.  A closed window is opened
again by a later chunk, with a new thread, once the old one has cleared `started` and `enabled`.

### Carriers, InnerStream

`Carriers` holds the tables of the 2K mode at full size; `MCFec` evaluates what they must satisfy
in the assumption `CarrierTables`.  `InnerStream` works one step per pair of the mother code:
`BeginSlice`, `ReceiveSymbol` (both deinterleavers and depuncturing), `DecodePair` (add, compare,
select; the row of survivors; a byte traced back when it is due), `EndSlice`, `SliceFails`, and
`StreamCut` with `StreamCutEnds` for the frontend's reset wherever the worker is.  Rates 1/2 and
2/3 run as one stream over slices (`live_viterbi_stream_*`), the others decode each slice by
itself (`decode_viterbi_bytes`).  The transmitter is the environment: encoder, puncturing and
interleavers of EN 300 744.  Costs are 0 and 1.

The reset clears `valid` and the rate, then the count of steps, without a lock.  A worker in
the middle of a slice reads neither before the next slice but the count: it goes on with the
metrics it has, waits for the trace-back to fill again, and emits the rest of the slice as bytes
cut from the right bits at another place (`cut.bytes = "shifted"`), which go to the outer FEC.
The count is written by both: the worker may undo the new one (`CutUndone`), or be in the
middle of a trace-back, of which anything may come until the next preparation (`CutTorn`).  The
next slice finds `valid` cleared and prepares the stream anew.  Only if that preparation falls
between the rate and the count does the shift last (`cut.lasts`), until the next reset.

What becomes of shifted bytes: the resets of 7287-7294 come with an invalidation of FIFO1, so the
worker's second look at the epoch finds its job stale and empties the outer stream they are in
(`LiveDecode`).  The exception is the reset that a lack of memory for the soft FIFO leads to
(probe 7317, 7338): it invalidates nothing, and the shifted bytes of that slice stay in the outer
stream as errors.

### OuterStream, ReedSolomon, OuterFec

`OuterStream` knows a byte by its place in the transmitted stream.  `Scan` searches the pending
bytes over every phase of the deinterleaver, place of a block and place in the period; `Process`
is the deinterleaver, the assembly of blocks and FIFO3; `Realigns` is the search in a job that
brought nothing, after which its bytes pass the deinterleaver anew (`Realigned`), be it a job of
an old cadence (`Decodes`) or the one that has just found a cadence (`Acquires`).  The channel may
spoil a byte, the inner decoder may lose some unsaid, and the output may fail after a packet,
which leaves the rest of the job unseen.  `lost`, `losses`, `spoiled` and `blind` are history:
bytes lost, the totals there have been, whether bytes came in wrong, and whether those were all
that tell two places in the period apart.  A byte that only looks like a sync byte is not
modelled; the code asks for several in a row.  Blocks decide by their clean bytes here; how one is
corrected is `ReedSolomon`: syndromes, Berlekamp-Massey, roots and Forney over a field of any size, with
the same loops and early returns as `rs_correct_204`.

`OuterFec` looks at jobs as the counters do.  A job brings some Reed-Solomon blocks of which some
can be corrected; that is a choice.  The worker takes it in four steps: `Accumulate`, `Acquire`
or `Decode` (`live_grdvbt_outer_process`), `Realign` or `KeepCadence`
(`live_grdvbt_outer_realign_current`), `JudgeGood`, `JudgeDegraded` or `JudgeNothing` (outer
3836-3903), and `Recheck`, the second look at the epoch (probe 7042-7051).  `FrontendReset` may
fall between any two of them.  It comes with a new epoch, so `invalidated` stands for the stale
epoch of the job in hand, and `PendingIsStale` of `LiveDecode` says that no job of the new epoch
is taken before the reset is over.  A call that fails takes the error path, without a second
look.  `badRun`, `deadRun` and `longRun` are history.  The path for low pilots (outer 3682-3735)
does not run live: the frontend enqueues chunks from 0.70 on and the path is for less than 0.45.

### TsGate

A packet is its kind (PAT, PMT, video, other), its place in the order of arrival and the NAL
units that start in it.  `StartCall` begins a call of `rbdvbt_outer_recover_ts` with a fresh
validator and the gate as it was; `GoodPacket` is all of `block4_consume_fifo3_packet`, with the
gate's decision, the replay and every write; `BrokenPacket` and `Uncorrectable` are the two ways
a packet comes to grief, live and offline; `EndCall` is the flush behind `done:`.  The sink may
refuse any burst: the burst stays, the call ends.  A gate whose buffer is full after a second
refusal and is given another packet is in `pc = "undefined"`: the code then writes behind
`write_buf`, and the model says nothing about what follows.  `WrittenIsKept` says that one refusal
never leads there.

### Status, StatusFile and Watchdog

`Status` has a step for every stage of a report of either thread: the session counters, the
snapshot with its hold of the lock, `fopen` of the one temporary file, the write and close, the
rename.  A file system keeps bytes apart from names, so a writer whose file was renamed by the
other thread goes on writing to the reports' own file.  Each operation may fail, with the
back-off, and the receiver may be killed at any step and started anew (`Restart`); the files stay
as they are.  `shared`, `raced`, `surplus` and `programAge` are history.

`StatusFile` is what a reader may rely on, and `FileImplements` shows that the steps of `Status`
do no more to the file.  `Watchdog` extends `StatusFile` with the script: a look reads the file
once for every key (`ReadLocked`, `ReadLamp`, `Judge`), so the file may change in between, and
one that is empty or in parts (`InParts`) may yield any of the keys or none.  `Outdated`,
`LockSeen`, `LostSince`, `ErrorsWith` and `Verdicts` are what the script makes of a look.
`Stop` kills and waits for all three processes, `LeaveLoop` and `Wait` are the other end, and
`AfterAttempt` is the loop round them.  Processes end by themselves (`Crash`), take the ones
joined to them by a FIFO with them (`Follow`), or hang.  Time passes in seconds; a report takes
less than one.

## 3. What TLC checks

| run | result | what it shows |
|---|---|---|
| `live_decode` | passes | `TypeOK`: the backlog stays within FIFO1. `CountersMatch`: both counters equal what they count, so no saturating subtraction ever saturates. `OuterSingleEpoch`: bytes from before an invalidation never meet bytes from after it in the outer stream, whatever the unlocked resets do. `OuterGapsAccounted`: no symbol is missing inside an outer run but those given up without a mark. `DrainedAtJoin`: shutdown leaves nothing queued. `JobsLeave` and `ShutdownEnds`: no wake-up of the worker is lost, also when a chunk is larger than FIFO1. |
| `live_decode_inner_gap` | **violated** | `InnerGapsAccounted`, the same of the Viterbi trellis; see below. |
| `frontend` | passes | `EndsOnlyWithInput`: whatever the arguments, the overruns, the failed chunks and the changes of guard interval, no chunk of five or more symbols asked for is taken for the end of the input. `HoldsTheNewest`, `LosesOnlyWhenBehind`, `OnlyHiddenGaps`, `ReadReturns` of the ring and its clock. `SymbolsInOrder`: where a chunk continues a run no symbol comes twice and none is missing but those of the chunks held back. `LocksAgain`: after gaps, failures, drifts and scans that found nothing, the third undisturbed chunk continues the second. |
| `iq_ring_overrun` | **violated** | `OverrunsAreMarked`, what ARCHITECTURE.md asks of an overrun; see below. |
| `frontend_boundary` | **violated** | `NextSymbols`, `LocksAgain` without its exception for a symbol that ends with the chunk; see below. |
| `threads` | passes | `Implements`: the ring is a bounded queue. `NoneSleepsOnWork`: while somebody sleeps, there is somebody on the way for every item or free slot. `CloseReleases`: whoever waits when the FIFO is closed returns. `OneThread`: a window never has two threads and its flags are those of the one it has. `ShowsLatest`: it draws the newest, and nothing from before it was closed. |
| `fec` | passes | `BytesAreSent`: over slices and resets the inner decoder delivers the bits sent, each once and in order, also with one cell in error, and holds none back longer than the trace-back; its bytes are those of the transmitter but for the rest of a slice a reset fell into (and longer if it fell into the preparation of the stream), and nothing is said of a byte whose trace-back a reset fell into. `BlocksRestored`: the Reed-Solomon decoder restores what it can, and never makes up a block. `OnceInOrder`: no block comes twice or before an older one, though bytes pass the deinterleaver again, and none is left out while every byte arrives. `RightPackets`: each packet is descrambled at its own place in the period, wherever the search began and whatever was lost or came in wrong; it excepts two things the code has no means to notice, whole blocks lost between two bytes and a search that saw every inverted sync byte spoiled and those of another place in the period with them. `DeadCadenceGivenUp` and `OnlyDeadCadenceGivenUp`: a cadence is given up in time and never too early. `NoCadenceNoFailures`: a reset between the steps of a job leaves no failure to hold against the next cadence. |
| `inner_alignment` | **violated** | `BytesOnGrid` at rate 3/4; see below. |
| `output` | passes | `WrittenIsKept`: what is reported as written is with the sink or in the buffer, also over failing bursts and several calls, and it takes a second refusal for the buffer to run over. `OpensOnFreshTables`, `ReplaysOnlyUnbroken`, `LiveStaysOpen` of the gate. `WholeUnlessShared`: a reader finds a whole report, unless both threads were writing to the file at once. `SessionCountsJobs`: every packet is counted once, unless both were counting at once. `LockShownIsEarned`: no report shows a lock no job has earned within the hold time. `FileImplements`: the steps of both threads, their failures and restarts implement `StatusFile`. |
| `ts_gate_start` | **violated** | `WaitsForCleanStart`, what README.md says of `--wait-video-start`; see below. |
| `watchdog` | passes | `StopsHaveCause`: what is behind each of the four reasons to stop. Lost lock: no look found one for as long as the limit. Stale file: a receiver silent that long, or a write that failed. Missing file: one that is there, but empty or in parts; never one an earlier receiver left. Stuck ffmpeg: as many errors as the limit. It does not say that a receiver in order is never stopped: one look at a file in parts is enough, see below. `StuckIsStopped`: a stuck receiver that has had lock is stopped, whatever it left in its file. `EndIsNoticed`: when one process ends the script does not leave the others running, if a FIFO joins receiver and ffmpeg and the receiver is not stuck. UDP is the script's default, and for it nothing of the kind holds, see below. |
| `watchdog_restarts` | **violated** | `WatchdogRestarts`, what tools-pi6ehv/README.md says of a stop; see below. |

### Findings

* **A dropped chunk can be skipped inside one Viterbi run** (`live_decode_inner_gap`).  The
  low-pilot drop resets the Viterbi stream (probe 8506) before it invalidates FIFO1 (probe 8508).
  A worker between its look at the epoch and the decode runs one more slice, which makes the
  stream valid again.  If that slice ends before the invalidation, the next continuous chunk is
  decoded on the same trellis.  README.md:279-281 says that weak chunks are dropped before they
  can pollute the Viterbi state.
* **A symbol at the very end of a chunk is lost and the lock with it** (`frontend_boundary`).  The
  loop over symbols gives up a symbol whose last sample is the last of the chunk (probe 8029); the
  next chunk passes it over as done, starts a symbol late, is called discontinuous, and everything
  behind it is reset, on an undisturbed input.
* **Overruns between two reads are never reported** (`iq_ring_overrun`).  `overrun_before` is
  sampled when a read is entered (probe 1865), and during a read the ring can hardly overrun,
  since it has room (`LosesOnlyWhenBehind`).  ARCHITECTURE.md:354-362 asks that an overrun be
  marked as a discontinuity.
* **Rates 3/4 and 7/8 keep no byte alignment over slices** (`inner_alignment`).  Bytes are
  counted from the first bit of each slice (probe 6366), and a symbol of these rates is no whole
  number of bytes, so slices at odd symbols give shifted bytes.
* **The wait for a video start ends after 32 packets of a call** (`ts_gate_start`, outer 2447),
  which README.md:432 and the help text do not say.
* **The start script never restarts** (`watchdog_restarts`).  `pipeline_rc=$?` stands after the
  `fi` of the `if` that ran the attempt (script 488-491), where the status is 0.

Seen while modelling, without a run of their own: if a look finds no `updated_unix` in the status
file, the script compares the time since the *start* with the limit (script 448-452), so that
after the first 30 seconds one look at a file that is empty for a moment stops a receiver that has
just reported, where tools-pi6ehv/README.md:157-161 speaks of a file not renewed for 30 seconds
(both threads write through one temporary file, outer 2887, which one may empty just before the
other renames it); when the receiver ends and ffmpeg is joined to
it by UDP, the script leaves its loop and waits for ffmpeg (script 478-480), which nothing ends; a
reset of the Viterbi stream that falls into its preparation shifts the bytes of all slices until
the next reset; `--live-symbols` of four or less, or a
small `--max-samples`, ends a live receiver at once with status 0; `--max-samples` is a total
in the help (src/config.c:455) but per chunk in live mode; a window or ring that cannot be set up
makes the live loop try again without reading (probe 9020); the first outputs of a chunk are
filtered with fewer samples of the last chunk than the filter reaches; a report may be torn when
both threads write the status file at once, although ARCHITECTURE.md:473-475 calls the
replacement atomic (`WholeUnlessShared` says exactly when).

### Bounds, and why they are enough

* `MCLiveDecode`: FIFO1 of two symbols, slices of one symbol, chunks of one to three, four
  symbols on air, one failure.  Two queued jobs and one in hand occur together with a full queue,
  a chunk of two slices lets a reset fall between slices, a chunk of three is larger than FIFO1,
  and four symbols leave room for a chunk before the reset, the dropped one and one after it.
* `MCFrontend`, ring: chunks of four samples, a ring of 18 (`Want + Block` decides, as in the
  shipped configuration when chunks are short), reads of 3 and of 14, forty samples.  The ring
  wraps twice, overruns by a part of a read and by all of it, and loses whole symbols and parts
  of one.
* `MCFrontend`, loop: an FFT of 32, a rate of 3:2, a filter of radius two, chunks of three, five
  or six symbols, all guard intervals and `auto`, overruns of many chunks.  Every remainder of the
  resampler's position meets every guard interval, and chunks on both sides of four symbols occur.
* `MCFrontend`, frontend: symbols of six samples, chunks of 24 and 25, gaps of less than a
  symbol, a start found late by a sample, a carrier that moves by up to two bins of five.  Since
  positions are relative to the end of a chunk there is no bound on the length of a behaviour.
  A gap that is a whole number of symbols is left out here: the code cannot see it
  (`iq_ring_overrun` shows what follows).
* `MCThreads`: three threads, two slots, two items.  Two threads sleep on one condition while the
  third works, which is where a single signal can go to the wrong thread; the ring wraps without
  a bound on the number of calls.  A window is opened three times and its history of three wraps
  twice.
* `MCFec`, inner: a code of the same make with a register of two bits, bytes of four bits, symbols
  of twelve cells, slices of two; the ring of survivors wraps.  The count of steps never wraps in
  the code; the model takes the length of the ring off it once all rows are in use, which changes
  neither the row nor the place in a byte.  One reset is allowed before the next preparation of
  the stream; a second would only start the count once more.  `Carriers` is at full size.
* `MCFec`, outer: two branches of depth two, blocks of four bytes, a period of three, one byte
  wrong per block corrected; a start at each phase; losses that are no whole number of blocks.  Of
  the two exceptions of `RightPackets` the loss of whole blocks occurs, through bytes that a failed
  output left unseen; a blind search takes longer streams than these, and only the theorem speaks
  of one.  A block in Reed-Solomon is six of seven possible bytes with four of parity over a field
  of eight: shortened like 204 of 255, with one more error than can be corrected at most.
* `MCFec`, cadence: a soft limit of 4 and a hard limit of 2 (the shipped policies have 4 to 6 and
  2 or 3), jobs of none to two blocks around a hard-fail length of two, three bytes to acquire in
  jobs of one or two, two failing calls.  Each limit can be reached by each kind of run, and
  acquisition fails with bytes pending above the minimum.  The theorems are for every limit.
* `MCOutput`, gate: a burst of three, a replay of two, a wait of four packets, six packets and two
  refused bursts.  A burst fills in the middle of an opening, the replay overflows, a call ends
  with a partly filled burst, both refusals meet one burst.  The behaviours are those of the
  real 7, 16 and 32, whose only role is in these comparisons.
* `MCOutput`, status: hold and retry of a second, ages up to two, one failing operation.  Each of
  the steps of one thread may fall between any two of the other, and a kill between any two.
* `MCWatchdog`: a retry of two seconds, a lock loss of one, a stale time of two, ages up to three:
  as in the script, the retry is as long as the stale time.  Two errors of ffmpeg are the limit,
  found in one look or in two.

`CHECK_DEADLOCK FALSE` is said of `MCFec` and `MCOutput`, where `OuterStream` ends with the bytes
of the channel and `TsGate` after its last packet or in "undefined".  The other models state
their end as a step of its own (`Terminated`, `exit`) or have none.

### Fairness, and why the code justifies it

* `LiveDecode`: both threads run (`WF_vars(Worker)`, `WF_vars(FrontendRuns)`).  Neither waits on
  the other but in the join and in the worker's condition wait, which are guards of the model.
  Nothing is assumed of the next chunk or of the end of the input.
* `IqRing`: the frontend runs and blocks in its read only.  Nothing is assumed of stdin, and a
  failure is never forced; `ReadReturns` therefore speaks of a read for which there is enough.
* `Fifo`: a thread that is awake in a call gets the mutex in the end.  Nobody owes a call.  A
  sleeper is not fair: only a signal, a broadcast or an unasked wake-up ends its sleep.
* `Watchdog`: the script goes on looking (`WF_vars(Looks)`: a shell loop with `sleep 1`), a
  process whose input or reader is gone ends (`WF_vars(Follow)`), and time passes
  (`SF_vars(Second)`: strong, since the second is not enabled while a look is under way and no
  look takes forever).  Nothing is assumed of the receiver: it may report or be silent.
* The others have safety properties only.  `OuterStream`, `InnerStream`, `TsGate`, `Status` and
  `OfdmFrontend` are driven by what comes in, of which nothing can be promised.

## 4. What is proved

Every theorem below holds for all values of the constants that satisfy the assumption of its
module (`LiveDecodeAssumption`, `FifoAssumption` and so on, which TLC evaluates in the runs); the
bounds of section 3, on failures, packets, symbols on air, arbitrary natural numbers here, are no
part of the arguments.  The theorems marked with a property state what a run of section 3 checks
on a small instance.

| module | theorems, and the property each states |
|---|---|
| `LiveDecodeProofs` | `TypeCorrect` (`TypeOK`), `EpochsNeverMix` (`OuterSingleEpoch`), `NothingSkippedUnmarked` (`OuterGapsAccounted`), `LoadIsExact` (`CountersMatch`), `NothingLeftAtJoin` (`DrainedAtJoin`) |
| `IqRingProofs` | `RingTypeCorrect` (`TypeOK`), `RingHoldsTheNewest` (`HoldsTheNewest`), `NothingLostWhileWaiting` (`LosesOnlyWhenBehind`), `GapsAreMarked` (`OnlyHiddenGaps`) |
| `FrontendProofs` | `SymbolsStayInOrder` (`SymbolsInOrder`), `FrontendLocksAgain` (`LocksAgain`), `ReceiverEndsOnlyWithInput` (`EndsOnlyWithInput`) |
| `ThreadsProofs` | `FifoTypeCorrect`, `NoWakeUpLost` (`NoneSleepsOnWork`), `RingImplementsQueue` (`Implements`), `OneThreadPerWindow` (`OneThread`), `NewestIsShown` (`ShowsLatest`) |
| `OuterFecProofs` | `OuterTypeCorrect` (`TypeOK`), `DeadCadencesEnd` (`DeadCadenceGivenUp`), `GoodCadencesStay` (`OnlyDeadCadenceGivenUp`), `LostCadencesAreForgotten` (`NoCadenceNoFailures`); of the outer decoder byte by byte `StreamGoesInOneCadence`, `PacketsOnceInOrder` (`OnceInOrder`), `PacketsRightPhase` (`RightPackets`) |
| `TsGateProofs` | `GateTypeCorrect` (`TypeOK`), `WrittenPacketsAreKept` (`WrittenIsKept`), `TablesAreFresh` (`OpensOnFreshTables`), `ReplayIsUnbroken` (`ReplaysOnlyUnbroken`), `LiveOutputStaysOpen` (`LiveStaysOpen`) |
| `StatusProofs` | `FileIsWhole` (`WholeUnlessShared`), `SessionIsExact` (`SessionCountsJobs`), `LockOnShowIsEarned` (`LockShownIsEarned`), `ReportsImplementFile` (`FileImplements`) |
| `WatchdogProofs` | `EveryStopHasCause` (`StopsHaveCause`) |

Few of these properties are inductive.  What is, and why it is needed:

* **Epochs** (`EpochInv`).  The property says nothing of the queue or of the job in hand.
  - `QueuedAreCurrent`: queued jobs are of the current epoch, for an invalidation empties the queue.
  - `InHandIsNotNewer`: the job in hand is not of a later epoch.
  - `PendingIsStale`: between an invalidation and the reset of the outer stream the frontend
    enqueues nothing, so the queue is empty and the job in hand is stale.
  - `OuterIsClean`: the outer stream has bytes of one epoch, the job's while there is a job; and
    once the reset is over, a stale job has left none, except where the worker's second look at
    the epoch is about to find them and empty the stream again.

  The last part is why the unlocked reset is harmless to the outer stream although it is not to
  the trellis: the worker looks at the epoch *after* every write, and cleans up itself.  The one
  exception is explicit in the property: a job already invalidated that fails in the decoder
  takes the error path, where no second look follows (`staleFailure`).
* **Gaps** (`GapInv`).  `Linked` follows the symbols along the pipeline: what the outer stream
  had last, the job in hand, the head of the queue, each job to the one behind it, the chunk the
  frontend has, the next one.  At each link the symbols follow, or lie in what was given up
  without a mark, or there is a mark: a job that is not continuous, a pending gap, or an empty
  outer stream.  A stale job that failed breaks the chain, so it is the exception here too.
* **Load** (`CountersMatch` with the types).  The sum over the queue is a recursive function.
  That such sums exist, and what appending or taking a job does to them, is an induction over the
  length of the queue; it is done with the least number of a set that is not empty
  (`LeastNumber`), which follows from the well-foundedness of the natural numbers.
* **Shutdown** (`StopIsLast`).  The stop flag is only up while the frontend waits in the join,
  and a worker that was never started, or has left, has an empty queue.
* **Ring and sample time** (`RingInv`): the types, the newest samples, `OverrunsNoted` (the counts
  a read has seen are not ahead of the counter) and `TimeKept`, which accounts for every sample
  between the last demodulated chunk and the next one: taken by a chunk that failed, reported
  missing, or hidden; and where any is reported missing a mark is pending or a whole symbol has
  failed.  That the code never subtracts below zero follows from the same account.
* **Symbols in order** (`FrontInv`): types; `ChunkKnown`, the start found is a place where a symbol
  starts, but for its jitter; `RunKnown`, the cursor is where the run goes on, less the jitter of
  the chunk that set it, or a failed chunk has left it too far behind to be continued; and the
  skipped symbols are at most those of the held chunks.  The lemmas
  `UsedShape` and `ContinuesExactly` say what the loop over symbols takes from a chunk, and that two
  starts which agree within the tolerance agree exactly.  `LocksAgain` needs `SteadyInv` on top:
  what each undisturbed chunk leaves behind (a cursor in the next chunk's first symbol, the bin of
  the carrier, a chunk searched from its first symbol) until the third continues the second.
* **End of the input** (`LoopInv`).  Until the input has ended, a chunk is as long as was asked
  for, and what a resampler makes of it is four symbols or more.  The argument bounds the
  resampler's fractional position (`PlaceBefore`, `PlaceLeft`) and its ceilings.
* **FIFO.**  `NoneSleepsOnWork` is inductive with the types; the lemmas count the threads at each
  place.  For the refinement `FifoTypes` suffices: `PushAppends` and `PopTakes` say what a step
  does to the slots from the head on, and every other step is shown to be a refusal, a change of
  `closed`, or a stutter.
* **Windows** (`GuiInv`): a thread exists exactly while the flags say so, the ring is the tail of
  what was submitted, and a thread that has not looked since then still has something to look at.
* **Cadences** (`RunInv`) relates the three counters of the code to the runs they stand for:
  `deadRun <= failJobs <= badRun`, `longRun = hardFailJobs`, and `badRun` is at most
  `3 * failJobs` plus the one or two half-good jobs not yet counted.  The factor three is the
  code's: each dead job clears the productive count, after which two half-good jobs are forgiven
  again.  `CadenceLost` adds that a job without a cadence counts nothing, or is about to look at
  the epoch and clear what it counted.
* **The outer stream** (`StreamInv`).  The properties speak of packets, the state of rows of bytes;
  between them stands *the stream*, a function from places in the channel to bytes, of which the
  pending bytes, the rows and the block under construction are pieces.  The invariant says that
  there is one:
  - `SentBefore`: every byte of it that is not bad tells when it was sent, and so how many bytes
    were lost before it; these totals never shrink along the stream and are among `losses`.
  - `Waits`: without a cadence the pending bytes end the stream, and begin behind every packet so
    far.
  - `Holds` (in `Tracking`): with a cadence, the rows hold the last bytes of their branches, the
    branch is the distance from where the cadence began, and the block under construction is what
    the deinterleaver has given since it began (`Out`).
  - `Ordered`, `Right`, `Complete`: the next block is not as old as the newest packet; its phase
    is that of its number for one of the totals; and where nothing was lost or spoiled it is the
    very next block.

  What carries the argument is `NumberTells`: two bytes of one block at one branch are `Branches`
  apart, a block has `Depth` bytes of each branch and fewer may be wrong, so a correctable block
  has a right byte on *every* branch, and its number follows from the place and the loss of any of
  them.  From it come the lemmas on a run of bytes, whatever its length and wherever the output
  failed: `RunOrder`, `RunRight` and `RunWhole`.  A search leads to such a run because the sync
  bytes it has counted (a period of them or more) tell one place in the period unless the search
  was blind (`StartsRight`), and because among undamaged bytes the best candidate is where blocks
  begin (`CleanFound`).  `Process` and `Deinterleaved` are recursive functions of the bytes; that
  they exist and what they yield is proved by the least number at which it could fail.
* **Gate** (`Typed`, `Remembered`): remembered tables are a PAT and a PMT, and while the output is
  closed those the validator has seen are of this call; the configuration is in order and younger
  than the last broken packet; an open gate does not wait.  `WriteKeeps` and `WriteBalances` say
  what a write of any length does to buffer, sink and return value when a burst is refused, and
  `FullRefused` that a full buffer outside a write has been refused once.
* **Status**: `FilesApart` (which thread may have which file open, and what is in it),
  `SessionKept`, `LockEarned` (the lock of a report, the snapshot and the files comes from a job
  no older than the hold), `ReportedKept` (a second with a report ends with a fresh file or a
  back-off).  `StepImplements` maps each step to one of `StatusFile`.
* **Watchdog** (`WatchInv`): the loss the script has timed is no longer than the real one, a
  back-off has been noted as a failure, and without a failure the file is hardly older than the
  receiver's silence.  `NobodyLeft`: between two attempts nothing runs.  `LockInFile`: once this
  receiver has been seen to have lock, the file is one it has written, or in parts; so a file that
  cannot be used is in parts.

### The assumptions

They are what the code guarantees of its constants: capacities, lengths and limits are positive
(or natural where zero is possible), the tail is shorter than what acquisition needs, Hold and
Retry are below the age at which ages are no longer told apart. Those that carry an argument:
`Threads` is finite; the tracking radius (8 samples in the code) is less than a symbol (2112 or
more); a largest chunk exists; the defaults of the receiver, 64 symbols and 2097152 samples, are
five symbols or more; a correctable block has fewer wrong bytes than a branch has bytes of it (8
of 17); the search looks at fewer than 1000 blocks (the score is 1000 times the clean ones plus
the sync bytes) and asks for a period of sync bytes at least, as every policy for a named symbol
rate does (outer 1273-1324: 24 or more); and the receiver begins when the transmitter's
interleaver is full. The default policy (outer 1231) asks for one clean block and no more, which
does not tell its place in the period; the receiver is left with it where it does not know the
symbol rate's name, as for 125 kS/s (outer 1248), and `RightPackets` does not hold there.
`ReceiverEndsOnlyWithInput` has one hypothesis more, `FastInput`: the input rate is at least
1/157 of the OFDM clock (a filter radius of 12, an FFT of 2048). The code only asks that the rate
is not zero. Below that bound the filter alone takes up more time than a symbol and a chunk of
five symbols can come out too short (TLC finds the behaviour for an FFT of 32, a rate of 1:20 and
a radius of two), so the hypothesis is needed. No use of the program comes near it, and it is
stated rather than assumed of every instance.

### What the proofs found

Places where the *model* was not what the code does, or not what it meant, and TLC had seen
nothing.  `TsGate` flushed a full buffer when a write brought no packets; the code leaves a full
buffer, twice refused, alone until another packet comes or the call ends.  And three `CASE`
expressions had guards that overlap, of which TLC takes the first and TLA+ any; they exclude each
other now.  `RightPackets` was wrong in two ways.  It excepted a loss of whole blocks in all, but
what the code cannot notice is such a loss between *any* two bytes that still matter to it; and it
did not except the blind search: where the inverted sync bytes are spoiled, as few as two in a
small instance (two branches of depth two, nine blocks looked at), two places in the period have
the same score and the code takes the first.  And a job that finds a cadence and gets nothing
through it is searched once more in the code, as any other such job; in the model it was not.
All are corrected, and all runs were repeated.

### Only model-checked

* Liveness (`JobsLeave`, `ShutdownEnds`, `ReadReturns`, `CloseReleases`, `StuckIsStopped`,
  `EndIsNoticed`): liveness under fairness and `ENABLED` are outside what TLAPS proves here.
* `BytesAreSent` and `BlocksRestored`.  That Viterbi finds the nearest path and Berlekamp-Massey
  the locator is coding theory, by induction over the steps of an algorithm on its data; for the
  parameters checked TLC covers all of it.
* `StreamInv` itself: it quantifies over streams, functions on all integers, which TLC cannot
  enumerate.  The two properties it was made for are checked by the run.

## 5. What is not modelled, and why

* The signal processing proper: filters, FFT, correlation, equaliser, soft bits, fine timing.  It
  is numeric and its outcome enters the models as a choice: where a symbol is found, in which bin
  the carrier, pilots in one of four classes.  That a spectrum may be conjugated is part of
  finding a bin.  A symbol skipped because its pilots could not be estimated leaves a hole that
  no mark tells of; the models demodulate every symbol of a chunk.
* The measurements behind the constellation (MER, quality figures, eye and file outputs of
  offline probes, scans over offsets): computed anew from each chunk, feeding nothing back.  They
  are a large part of `probe_constellation.c`.
* The choice of a code rate by itself (`--fec auto`), an offline search over all rates; and the
  MPEG-sync path of the outer FEC, which is switched off in the code (outer 3655).
* Section parsing and continuity counters of the transport stream: a PAT or PMT is one packet,
  and continuity errors change no decision (the degraded lock they set is overwritten in the same
  call, outer 2508-2520).
* The frontend's reset in the middle of `process_bytes`, which frees the rows the worker is
  writing to: undefined behaviour in C.  The models let a reset fall between the steps of a job,
  and `LiveDecode` shows what becomes of the bytes of such a job.
* Sockets, files, X11 drawing: a sink takes a burst or refuses it, a display opens or not.  The
  UDP output reports no errors, so with it the model's refusals do not occur.
* The UDP telemetry of `visualizer.c`: one datagram per event, no state but a rate limit.
* The Windows GUI (`gui/`): a process launcher and form outside the receiver; what it starts is
  modelled, how Qt and Win32 report the end of a process is not in the source.
* Offline tools (`tools/`): replay, channel simulation and plots, single-threaded filters without
  state that outlives them.

## 6. The plan

Done, in this order: `LiveDecode` and its first proofs, `IqRing`, `BoundedQueue` and `Fifo`,
`TsGate`, `OuterFec`, `OuterStream`, `InnerStream`, `Status` with `StatusFile`, `Watchdog`,
`OfdmFrontend`, `GuiWindows`, `ReedSolomon`, `Carriers`, `ReceiverLoop`; then the proofs of
section 4, component by component.

What is left: type correctness of `InnerStream` with the place of the survivor ring in it.  What
its bytes are is beyond the prover (section 4).
