----------------------------- MODULE LiveDecode -----------------------------
(***************************************************************************)
(* FIFO1 of the live receiver: the job queue between the frontend (the     *)
(* main thread, one OFDM chunk after the other) and the decode worker      *)
(* (inner deinterleaver, Viterbi, outer FEC), src/src/probe_constellation.c*)
(*                                                                         *)
(* One action is one critical section of live_decode_mutex or one unlocked *)
(* access to state the two threads share: the live Viterbi stream and the  *)
(* live outer stream, which the frontend resets without a lock.            *)
(*                                                                         *)
(* Payload is abstracted to its place in the transmission: symbol p is the *)
(* p-th OFDM symbol on air, and a job, a chunk or a decoder stream is the  *)
(* interval of symbols it stands for.  The soft FIFO in front of the queue *)
(* hands on every window it is given at once (the preferred window is the  *)
(* window just appended), so it holds nothing between two chunks.          *)
(***************************************************************************)
EXTENDS Integers, Sequences, FiniteSets

CONSTANTS
  Capacity,     \* LIVE_DECODE_MAX_QUEUED_SYMBOLS
  Slice,        \* LIVE_VITERBI_CONSUME_SYMBOLS
  HoldMax,      \* LIVE_LOW_PILOT_HOLD_MAX
  MaxChunk,     \* bound: symbols in one chunk
  MaxSkip,      \* bound: symbols the frontend loses ahead of a chunk
  MaxPos,       \* bound: symbols on air
  MaxFailures   \* bound: failing allocations, decodes and writes

ASSUME LiveDecodeAssumption ==
  /\ Capacity \in Nat \ {0}
  /\ Slice \in Nat \ {0}
  /\ MaxChunk \in Nat \ {0}
  /\ {HoldMax, MaxSkip, MaxPos, MaxFailures} \subseteq Nat

VARIABLES
  \* the frontend thread
  fpc,          \* where it is
  chunk,        \* the chunk in hand
  air,          \* symbols on air so far
  cursor,       \* live_frontend_cursor
  holdCount,    \* live_low_pilot_hold_count
  statusHold,   \* live_status_hold.valid
  \* FIFO1, under live_decode_mutex
  queue, queued, processing, epoch, gapPending, stop,
  \* the worker thread
  wpc, job, off,
  \* decoder streams both threads write, under no lock
  inner,        \* live_viterbi_stream: valid, and the symbol that continues it
  outer,        \* live_grdvbt_outer: the epochs its bytes came from, and likewise
  \* history
  failures,     \* failures so far
  unmarked,     \* symbols given up without a discontinuity mark
  innerGap,     \* symbols skipped inside one Viterbi run
  outerGap,     \* symbols skipped inside one outer FEC run
  staleFailure  \* a job that was already invalidated failed in the decoder

frontend == <<fpc, chunk, air, cursor, holdCount, statusHold>>
fifo     == <<queue, queued, processing, epoch, gapPending, stop>>
worker   == <<wpc, job, off>>
streams  == <<inner, outer>>
history  == <<failures, unmarked, innerGap, outerGap, staleFailure>>
vars     == <<frontend, fifo, worker, streams, history>>

Locks  == {"decode", "weak", "lost"}  \* average pilot lock: >= 0.70, >= 0.45, below
Chunks == [pos: Nat, n: 1..MaxChunk, lock: Locks, continuous: BOOLEAN]
Jobs   == [pos: Nat, n: 1..MaxChunk, continuous: BOOLEAN, epoch: Nat]
Span(first, n) == first..(first + n - 1)

ColdInner == [valid |-> FALSE, next |-> 0]
EmptyOuter == [epochs |-> {}, next |-> 0]

Busy  == wpc \in {"check", "deinterleave", "viterbi", "decoding", "outer", "feeding",
                  "recheck", "stale", "finish"}
Stale == job.epoch # epoch

Init ==
  /\ fpc = "receive" /\ air = 0
  /\ chunk = [pos |-> 0, n |-> 1, lock |-> "lost", continuous |-> FALSE]
  /\ cursor = [valid |-> FALSE, next |-> 0]
  /\ holdCount = 0 /\ statusHold = FALSE
  /\ queue = <<>> /\ queued = 0 /\ processing = 0 /\ epoch = 0
  /\ gapPending = FALSE /\ stop = FALSE
  /\ wpc = "none" /\ off = 0
  /\ job = [pos |-> 0, n |-> 1, continuous |-> FALSE, epoch |-> 0]
  /\ inner = ColdInner /\ outer = EmptyOuter
  /\ failures = 0 /\ unmarked = {} /\ innerGap = {} /\ outerGap = {}
  /\ staleFailure = FALSE

-----------------------------------------------------------------------------
(* The frontend thread.                                                    *)

At(label)   == fpc = label
Goto(label) == fpc' = label

(* A chunk of n symbols is demodulated.  It continues the previous chunk    *)
(* when it starts where the cursor expects the next symbol and the carrier  *)
(* (bin shift, conjugate, no known input gap) matches.  `skip` symbols went *)
(* by in chunks that failed, most of which also clear the status hold.      *)
ReceiveChunk(n, skip, lock, match) ==
  LET pos == air + skip
      cont == cursor.valid /\ cursor.next = pos /\ match /\ lock # "lost"
  IN  /\ At("receive")
      /\ pos + n <= MaxPos
      /\ air' = pos + n
      /\ chunk' = [pos |-> pos, n |-> n, lock |-> lock, continuous |-> cont]
      /\ cursor' = [valid |-> TRUE, next |-> pos + n]
      /\ holdCount' = IF cont THEN holdCount ELSE 0
      /\ statusHold' \in {statusHold, statusHold /\ skip = 0}
      /\ Goto(IF cont THEN "pilot" ELSE "lost_inner")
      /\ UNCHANGED <<fifo, worker, streams, history>>

(* The chunk is good enough to decode, or held over, or dropped.            *)
PilotGood ==
  /\ At("pilot") /\ chunk.lock = "decode"
  /\ holdCount' = 0 /\ statusHold' = TRUE
  /\ Goto(IF chunk.continuous THEN "enqueue" ELSE "soft_inner")
  /\ UNCHANGED <<chunk, air, cursor, fifo, worker, streams, history>>

MayHold == statusHold /\ chunk.continuous /\ holdCount < HoldMax

PilotHold ==
  /\ At("pilot") /\ chunk.lock # "decode" /\ MayHold
  /\ holdCount' = holdCount + 1
  /\ unmarked' = unmarked \cup Span(chunk.pos, chunk.n)
  /\ Goto("receive")
  /\ UNCHANGED <<chunk, air, cursor, statusHold, fifo, worker, streams,
                 failures, innerGap, outerGap, staleFailure>>

PilotDrop ==
  /\ At("pilot") /\ chunk.lock # "decode" /\ ~MayHold
  /\ statusHold' = FALSE
  /\ cursor' = [cursor EXCEPT !.valid = chunk.lock = "weak"]
  /\ Goto("drop_inner")
  /\ UNCHANGED <<chunk, air, holdCount, fifo, worker, streams, history>>

(* live_viterbi_stream_reset, outside the mutex.                            *)
FrontendResetInner(label, next) ==
  /\ At(label)
  /\ inner' = ColdInner
  /\ Goto(next)
  /\ UNCHANGED <<chunk, air, cursor, holdCount, statusHold, fifo, worker, outer, history>>

(* Mutant: the reset also forgets the job the worker holds.                 *)
InvalidateForgetsWorker(label, next) ==
  /\ At(label)
  /\ queue' = <<>> /\ queued' = 0 /\ processing' = 0
  /\ gapPending' = FALSE
  /\ epoch' = epoch + 1
  /\ Goto(next)
  /\ UNCHANGED <<chunk, air, cursor, holdCount, statusHold, stop, worker, streams, history>>

(* live_decode_invalidate_queued: drop what is queued, start a new epoch.   *)
FrontendInvalidate(label, next) ==
  /\ At(label)
  /\ queue' = <<>> /\ queued' = 0
  /\ gapPending' = FALSE
  /\ epoch' = epoch + 1
  /\ Goto(next)
  /\ UNCHANGED <<chunk, air, cursor, holdCount, statusHold, processing, stop, worker,
                 streams, history>>

(* rbdvbt_outer_reset_live_stream, outside the mutex.                       *)
FrontendResetOuter(label, next) ==
  /\ At(label)
  /\ outer' = EmptyOuter
  /\ Goto(next)
  /\ UNCHANGED <<chunk, air, cursor, holdCount, statusHold, fifo, worker, inner, history>>

(* A discontinuous chunk resets the decoder, then is looked at; a dropped   *)
(* one resets it and is gone; a discontinuous window, or one FIFO1 refuses  *)
(* outright, resets the Viterbi stream once more.                           *)
FrontendReset ==
  \/ FrontendResetInner("lost_inner", "lost_invalidate")
  \/ FrontendInvalidate("lost_invalidate", "lost_outer")
  \/ FrontendResetOuter("lost_outer", "pilot")
  \/ FrontendResetInner("drop_inner", "drop_invalidate")
  \/ FrontendInvalidate("drop_invalidate", "drop_outer")
  \/ FrontendResetOuter("drop_outer", "receive")
  \/ FrontendResetInner("soft_inner", "enqueue")
  \/ FrontendResetInner("refused", "receive")

-----------------------------------------------------------------------------
(* live_decode_enqueue, called by the frontend through the soft FIFO.       *)

Window == [pos |-> chunk.pos, n |-> chunk.n, epoch |-> epoch,
           continuous |-> chunk.continuous /\ ~gapPending]

(* A failing enqueue fails the chunk, which clears the status hold; the     *)
(* soft FIFO then resets the Viterbi stream of a discontinuous window.      *)
Refused ==
  /\ statusHold' = FALSE
  /\ Goto(IF chunk.continuous THEN "receive" ELSE "refused")

StartWorker ==
  /\ At("enqueue") /\ wpc = "none"
  /\ stop' = FALSE
  /\ wpc' = "idle"
  /\ UNCHANGED <<frontend, queue, queued, processing, epoch, gapPending, job, off,
                 streams, history>>

EnqueueNoMemory ==
  /\ At("enqueue") /\ failures < MaxFailures
  /\ Refused
  /\ failures' = failures + 1
  /\ unmarked' = IF chunk.continuous
                 THEN unmarked \cup Span(chunk.pos, chunk.n) ELSE unmarked
  /\ UNCHANGED <<chunk, air, cursor, holdCount, fifo, worker, streams,
                 innerGap, outerGap, staleFailure>>

(* The soft FIFO cannot grow: it resets the Viterbi stream in any case.     *)
SoftFifoNoMemory ==
  /\ At("enqueue") /\ failures < MaxFailures
  /\ statusHold' = FALSE
  /\ Goto("refused")
  /\ failures' = failures + 1
  /\ unmarked' = IF chunk.continuous
                 THEN unmarked \cup Span(chunk.pos, chunk.n) ELSE unmarked
  /\ UNCHANGED <<chunk, air, cursor, holdCount, fifo, worker, streams,
                 innerGap, outerGap, staleFailure>>

EnqueueTooLarge ==
  /\ At("enqueue") /\ wpc # "none" /\ chunk.n > Capacity
  /\ gapPending' = TRUE
  /\ Refused
  /\ UNCHANGED <<chunk, air, cursor, holdCount, queue, queued, processing, epoch, stop,
                 worker, streams, history>>

(* Mutant: the dropped window leaves no gap mark.                           *)
EnqueueFullSilently ==
  /\ At("enqueue") /\ wpc # "none" /\ chunk.n <= Capacity
  /\ queued + chunk.n > Capacity
  /\ Goto("receive")
  /\ UNCHANGED <<chunk, air, cursor, holdCount, statusHold, fifo, worker, streams, history>>

(* Backlog full: the incoming window is dropped and the gap remembered.     *)
EnqueueFull ==
  /\ At("enqueue") /\ wpc # "none" /\ chunk.n <= Capacity
  /\ queued + chunk.n > Capacity
  /\ gapPending' = TRUE
  /\ Goto("receive")
  /\ UNCHANGED <<chunk, air, cursor, holdCount, statusHold, queue, queued, processing,
                 epoch, stop, worker, streams, history>>

(* Mutant: the incoming window is left out of the backlog test.             *)
EnqueueAcceptBeyond ==
  /\ At("enqueue") /\ wpc # "none"
  /\ queued <= Capacity /\ chunk.n <= Capacity
  /\ queue' = Append(queue, Window)
  /\ queued' = queued + chunk.n
  /\ gapPending' = FALSE
  /\ wpc' = IF wpc = "sleep" THEN "idle" ELSE wpc
  /\ Goto("receive")
  /\ UNCHANGED <<chunk, air, cursor, holdCount, statusHold, processing, epoch, stop,
                 job, off, streams, history>>

(* Mutant: the worker is signalled only when it already had work.           *)
EnqueueAcceptUnsignalled ==
  /\ At("enqueue") /\ wpc # "none"
  /\ queued + chunk.n <= Capacity
  /\ queue' = Append(queue, Window)
  /\ queued' = queued + chunk.n
  /\ gapPending' = FALSE
  /\ wpc' = IF wpc = "sleep" /\ queue # <<>> THEN "idle" ELSE wpc
  /\ Goto("receive")
  /\ UNCHANGED <<chunk, air, cursor, holdCount, statusHold, processing, epoch, stop,
                 job, off, streams, history>>

(* The live_decode_stop test of the code cannot fail here: only the thread  *)
(* that enqueues sets it, in its last call.                                 *)
EnqueueAccept ==
  /\ At("enqueue") /\ wpc # "none"
  /\ queued + chunk.n <= Capacity
  /\ queue' = Append(queue, Window)
  /\ queued' = queued + chunk.n
  /\ gapPending' = FALSE
  /\ wpc' = IF wpc = "sleep" THEN "idle" ELSE wpc
  /\ Goto("receive")
  /\ UNCHANGED <<chunk, air, cursor, holdCount, statusHold, processing, epoch, stop,
                 job, off, streams, history>>

Enqueue == \/ StartWorker \/ SoftFifoNoMemory \/ EnqueueNoMemory
           \/ EnqueueTooLarge \/ EnqueueFull \/ EnqueueAccept

(* Mutant: shutdown sets the flag and does not wake the worker.             *)
ShutdownUnsignalled ==
  /\ At("receive")
  /\ stop' = (wpc # "none")
  /\ Goto("join")
  /\ UNCHANGED <<chunk, air, cursor, holdCount, statusHold, queue, queued, processing,
                 epoch, gapPending, worker, streams, history>>

(* End of the input: rbdvbt_live_decoder_shutdown stops the worker, if it   *)
(* was ever started, joins it and clears what it left.                      *)
Shutdown ==
  /\ At("receive")
  /\ stop' = (wpc # "none")
  /\ wpc' = IF wpc = "sleep" THEN "idle" ELSE wpc
  /\ Goto("join")
  /\ UNCHANGED <<chunk, air, cursor, holdCount, statusHold, queue, queued, processing,
                 epoch, gapPending, job, off, streams, history>>

Join ==
  /\ At("join") /\ wpc \in {"none", "exited"}
  /\ queue' = <<>> /\ queued' = 0 /\ processing' = 0 /\ gapPending' = FALSE
  /\ Goto("done")
  /\ UNCHANGED <<chunk, air, cursor, holdCount, statusHold, epoch, stop, worker, streams,
                 history>>

Frontend ==
  \/ \E n \in 1..MaxChunk, skip \in 0..MaxSkip, lock \in Locks, match \in BOOLEAN :
       ReceiveChunk(n, skip, lock, match)
  \/ PilotGood \/ PilotHold \/ PilotDrop
  \/ FrontendReset
  \/ Enqueue
  \/ Shutdown \/ Join

-----------------------------------------------------------------------------
(* The worker thread, live_decode_worker_main.                              *)

Step(from, to) == wpc = from /\ wpc' = to

WorkerSleep ==
  /\ queue = <<>> /\ ~stop
  /\ Step("idle", "sleep")
  /\ UNCHANGED <<frontend, fifo, job, off, streams, history>>

(* Mutant: the worker leaves as soon as it sees the stop flag.              *)
WorkerExitAtOnce ==
  /\ stop
  /\ Step("idle", "exited")
  /\ UNCHANGED <<frontend, fifo, job, off, streams, history>>

WorkerExit ==
  /\ queue = <<>> /\ stop
  /\ Step("idle", "exited")
  /\ UNCHANGED <<frontend, fifo, job, off, streams, history>>

WorkerTake ==
  /\ queue # <<>>
  /\ Step("idle", "check")
  /\ job' = Head(queue) /\ off' = 0
  /\ queue' = Tail(queue)
  /\ queued' = IF queued >= Head(queue).n THEN queued - Head(queue).n ELSE 0
  /\ processing' = processing + Head(queue).n
  /\ UNCHANGED <<frontend, epoch, gapPending, stop, streams, history>>

(* The slice of the job in hand.                                            *)
SliceFirst == job.pos + off
SliceLen   == IF job.n - off > Slice THEN Slice ELSE job.n - off
SliceContinuous == job.continuous \/ off > 0

(* Before a slice, after its deinterleaving and after its decoding the      *)
(* worker asks, under the mutex, whether its job is still of this epoch.    *)
WorkerCheck(from, to) ==
  /\ wpc = from
  /\ wpc' = IF Stale THEN "stale" ELSE to
  /\ UNCHANGED <<frontend, fifo, job, off, streams, history>>

(* Mutant: no look at the epoch once the slice is decoded.                  *)
WorkerRecheckTrusting ==
  LET last == off + SliceLen >= job.n
  IN  /\ wpc = "recheck"
      /\ wpc' = IF last THEN "finish" ELSE "check"
      /\ off' = IF last THEN off ELSE off + SliceLen
      /\ UNCHANGED <<frontend, fifo, job, streams, history>>

WorkerRecheck ==
  LET last == off + SliceLen >= job.n
  IN  /\ wpc = "recheck"
      /\ wpc' = IF Stale THEN "stale" ELSE IF last THEN "finish" ELSE "check"
      /\ off' = IF Stale \/ last THEN off ELSE off + SliceLen
      /\ UNCHANGED <<frontend, fifo, job, streams, history>>

(* live_viterbi_stream_decode_bytes: start cold or go on with the trellis.  *)
ViterbiStart ==
  LET goOn == SliceContinuous /\ inner.valid
  IN  /\ Step("viterbi", "decoding")
      /\ inner' = [valid |-> TRUE, next |-> SliceFirst + SliceLen]
      /\ innerGap' = IF goOn THEN innerGap \cup (inner.next..(SliceFirst - 1))
                     ELSE innerGap
      /\ UNCHANGED <<frontend, fifo, job, off, outer, failures, unmarked, outerGap,
                     staleFailure>>

ViterbiEnd ==
  /\ Step("decoding", "outer")
  /\ UNCHANGED <<frontend, fifo, job, off, streams, history>>

(* write_selected_viterbi_output: a discontinuous slice resets the outer    *)
(* stream, then rbdvbt_outer_recover_ts takes the bytes.                    *)
OuterStart ==
  /\ Step("outer", "feeding")
  /\ outer' = IF SliceContinuous THEN outer ELSE EmptyOuter
  /\ UNCHANGED <<frontend, fifo, job, off, inner, history>>

Fed == [epochs |-> outer.epochs \cup {job.epoch}, next |-> SliceFirst + SliceLen]

FedGap == IF outer.epochs # {} THEN outer.next..(SliceFirst - 1) ELSE {}

OuterFeed ==
  /\ Step("feeding", "recheck")
  /\ outer' = Fed
  /\ outerGap' = outerGap \cup FedGap
  /\ UNCHANGED <<frontend, fifo, job, off, inner, failures, unmarked, innerGap,
                 staleFailure>>

(* A slice fails: no memory or too few cells to deinterleave or depuncture, *)
(* or the sink refuses the recovered packets (the bytes are in by then).    *)
(* The rest of the job is lost, and with it the mark of a discontinuity the *)
(* outer stream has not yet seen: all between the two is given up unmarked. *)
GivenUpFrom ==
  IF wpc = "feeding" THEN SliceFirst + SliceLen
  ELSE IF SliceContinuous \/ outer.epochs = {} THEN SliceFirst ELSE outer.next

WorkerFail ==
  /\ wpc \in {"deinterleave", "decoding", "feeding"}
  /\ failures < MaxFailures
  /\ wpc' = "finish"
  /\ inner' = ColdInner
  /\ failures' = failures + 1
  /\ unmarked' = unmarked \cup (GivenUpFrom..(job.pos + job.n - 1))
  /\ IF wpc = "feeding"
     THEN outer' = Fed /\ outerGap' = outerGap \cup FedGap
     ELSE UNCHANGED <<outer, outerGap>>
  /\ staleFailure' = (staleFailure \/ (wpc = "feeding" /\ Stale))
  /\ UNCHANGED <<frontend, fifo, job, off, innerGap>>

(* The job was invalidated: reset both streams and give the rest up.        *)
WorkerStale ==
  /\ Step("stale", "finish")
  /\ inner' = ColdInner /\ outer' = EmptyOuter
  /\ UNCHANGED <<frontend, fifo, job, off, history>>

WorkerFinish ==
  /\ Step("finish", "idle")
  /\ processing' = IF processing >= job.n THEN processing - job.n ELSE 0
  /\ UNCHANGED <<frontend, queue, queued, epoch, gapPending, stop, job, off, streams,
                 history>>

Worker ==
  \/ WorkerSleep \/ WorkerExit \/ WorkerTake
  \/ WorkerCheck("check", "deinterleave")
  \/ WorkerCheck("deinterleave", "viterbi")
  \/ ViterbiStart \/ ViterbiEnd \/ OuterStart \/ OuterFeed
  \/ WorkerRecheck \/ WorkerFail \/ WorkerStale \/ WorkerFinish

Terminated ==
  /\ At("done")
  /\ UNCHANGED vars

Next == Frontend \/ Worker \/ Terminated

(* Both threads are always scheduled, and no call of theirs blocks for      *)
(* good; only the next chunk and the end of input depend on the outside.    *)
FrontendRuns == PilotGood \/ PilotHold \/ PilotDrop \/ FrontendReset \/ Enqueue \/ Join

Spec == Init /\ [][Next]_vars /\ WF_vars(Worker) /\ WF_vars(FrontendRuns)

-----------------------------------------------------------------------------
(* What FIFO1 and the decoder must guarantee.                               *)

FrontendTypes ==
  /\ fpc \in {"receive", "lost_inner", "lost_invalidate", "lost_outer", "pilot",
              "drop_inner", "drop_invalidate", "drop_outer", "soft_inner", "enqueue",
              "refused", "join", "done"}
  /\ chunk \in Chunks /\ air \in Nat
  /\ cursor \in [valid: BOOLEAN, next: Nat]
  /\ holdCount \in 0..HoldMax /\ statusHold \in BOOLEAN

FifoTypes ==
  /\ queue \in Seq(Jobs) /\ queued \in 0..Capacity /\ processing \in Nat
  /\ epoch \in Nat /\ gapPending \in BOOLEAN /\ stop \in BOOLEAN

WorkerTypes ==
  /\ Busy \/ wpc \in {"none", "idle", "sleep", "exited"}
  /\ job \in Jobs /\ off \in Nat /\ off < job.n

StreamTypes ==
  /\ inner \in [valid: BOOLEAN, next: Nat]
  /\ outer \in [epochs: SUBSET Nat, next: Nat]

HistoryTypes ==
  /\ failures \in 0..MaxFailures /\ staleFailure \in BOOLEAN
  /\ unmarked \subseteq Nat /\ innerGap \subseteq Nat /\ outerGap \subseteq Nat

(* The variables keep their types: among them, the queued symbols stay      *)
(* within the capacity of FIFO1 and the worker's offset inside its job.     *)
TypeOK == FrontendTypes /\ FifoTypes /\ WorkerTypes /\ StreamTypes /\ HistoryTypes

(* The symbols of the first i of the queued jobs.                           *)
SymbolsUpTo(jobs) ==
  LET upTo[i \in 0..Len(jobs)] == IF i = 0 THEN 0 ELSE upTo[i - 1] + jobs[i].n
  IN  upTo

(* Those of all of them, counted as FIFO1's load is reported.               *)
QueuedSymbols == SymbolsUpTo(queue)[Len(queue)]

(* The two counters of FIFO1 agree with what is queued and with the job the *)
(* worker holds, so neither saturating subtraction ever saturates and the   *)
(* backlog test compares the real backlog with the capacity.                *)
CountersMatch ==
  /\ queued = QueuedSymbols
  /\ processing = IF Busy THEN job.n ELSE 0

(* Bytes decoded before an invalidation never meet bytes decoded after it   *)
(* in the outer deinterleaver, whatever the frontend's unlocked resets do   *)
(* to a worker in the middle of a slice.  The one way out: an invalidated   *)
(* job whose write fails leaves its bytes behind, for no check follows.     *)
OuterSingleEpoch ==
  staleFailure \/ \A a, b \in outer.epochs : a = b

(* No symbol is missing inside a run of the outer FEC, however jobs are     *)
(* dropped, refused, invalidated or cut short, but the ones the program     *)
(* gives up without a mark: a held weak chunk, a window there was no memory *)
(* for and what a failed slice takes with it.                               *)
OuterGapsAccounted == staleFailure \/ outerGap \subseteq unmarked

(* The same of the Viterbi trellis: a chunk dropped for its weak pilots     *)
(* resets the inner continuity (README.md:279-281 and the log line of the   *)
(* drop), so no trellis runs on across what it dropped.                     *)
InnerGapsAccounted == innerGap \subseteq unmarked

(* When shutdown has joined the worker nothing is left of the queue: every  *)
(* accepted job was decoded, and the trailing drop drops nothing.           *)
DrainedAtJoin ==
  At("join") /\ wpc \in {"none", "exited"} => queue = <<>> /\ queued = 0 /\ processing = 0

(* An accepted job is taken by the worker or invalidated: the signal that   *)
(* wakes the worker is never lost.                                          *)
JobsLeave == \A p \in 0..MaxPos :
  (\E i \in DOMAIN queue : queue[i].pos = p) ~> ~(\E i \in DOMAIN queue : queue[i].pos = p)

(* Shutdown ends: the worker drains the queue, exits and is joined.         *)
ShutdownEnds == At("join") ~> At("done")
=============================================================================
