------------------------------- MODULE IqRing -------------------------------
(***************************************************************************)
(* The live IQ ring between the reader thread (stdin) and the frontend,    *)
(* and what the frontend makes of its overruns: the pending discontinuity  *)
(* and the absolute sample time the live resampler keeps,                  *)
(* src/src/probe_constellation.c.                                          *)
(*                                                                         *)
(* Samples are numbered as they arrive, and symbol k of the signal starts  *)
(* at sample k * SymbolLen.  The resampler is taken at ratio 1 with no     *)
(* filter tail, so an input sample is an output sample.  Tracking and      *)
(* acquisition both find the true start of a symbol in the new samples;    *)
(* the tolerance of 16 samples is 0 here.                                  *)
(***************************************************************************)
EXTENDS Integers, FiniteSetsExt

CONSTANTS
  Want,         \* chunk_samples: what one chunk of the frontend asks for
  Block,        \* samples the reader thread reads at most at a time
  Reads,        \* the lengths its reads have
  MinCap,       \* least capacity of the ring
  SymbolLen,    \* samples of an OFDM symbol
  TailSymbols,  \* symbols of the last chunk kept in front of the next
  MinSymbols,   \* symbols a chunk needs, its tail included
  MaxSamples,   \* bound: samples stdin delivers
  MaxFailures   \* bound: chunks that fail

ASSUME IqRingAssumption ==
  /\ Want \in Nat \ {0} /\ Block \in Nat \ {0} /\ MinCap \in Nat
  /\ Reads \subseteq 1..Block
  /\ SymbolLen \in Nat \ {0} /\ TailSymbols \in Nat \ {0} /\ MinSymbols \in Nat
  /\ TailSymbols < MinSymbols
  /\ MaxSamples \in Nat /\ MaxFailures \in Nat

(* Mutant: the ring is sized by the chunk alone.                            *)
CapOfChunks == Max({4 * Want, MinCap})

(* The capacity live_iq_ring_start allocates.                               *)
Cap == Max({4 * Want, Want + Block, MinCap})

VARIABLES
  \* live_iq_ring, under its mutex
  items, head, count, eof, overrun,
  \* the frontend
  fpc,            \* where it is
  before,         \* overrun_before of the read in progress
  chunk,          \* the chunk it read: first sample, length, output time
  gapPending,     \* live_iq_discontinuity_pending
  overrunPending, \* live_iq_overrun_pending_samples
  outputSeq,      \* output_seq of the resampler
  tail,           \* tail_count of live_ofdm_buffer_state
  cursor,         \* live_frontend_cursor: valid, next_symbol_sample_abs
  continuous,     \* frontend_continuous of the last chunk
  \* history
  produced,       \* samples pushed so far
  seen,           \* overruns when the last chunk was taken
  lastEnd,        \* the sample after the previous demodulated chunk
  hidden,         \* samples gone since then that the sample time misses
  failures        \* chunks that failed

ring     == <<items, head, count, eof, overrun, produced>>
clock    == <<gapPending, overrunPending, outputSeq, tail, cursor>>
verdict  == <<continuous, lastEnd>>
history  == <<seen, hidden, failures>>
vars     == <<ring, clock, verdict, history, fpc, before, chunk>>

Slots == 0..(Cap - 1)

Init ==
  /\ items = [s \in Slots |-> 0] /\ head = 0 /\ count = 0 /\ eof = FALSE /\ overrun = 0
  /\ fpc = "call" /\ before = 0 /\ chunk = [first |-> 0, n |-> 0, time |-> 0]
  /\ gapPending = FALSE /\ overrunPending = 0 /\ outputSeq = 0 /\ tail = 0
  /\ cursor = [valid |-> FALSE, next |-> 0] /\ continuous = FALSE
  /\ produced = 0 /\ seen = 0 /\ lastEnd = 0 /\ hidden = 0 /\ failures = 0

-----------------------------------------------------------------------------
(* The reader thread.                                                       *)

Least(a, b) == IF a < b THEN a ELSE b
Excess(a, b) == IF a > b THEN a - b ELSE 0

Wake == fpc' = IF fpc = "waiting" THEN "woken" ELSE fpc

(* The ring after `write` samples, the first of them `first`, went in       *)
(* behind the `kept` samples that follow newHead.                           *)
Written(newHead, kept, first, write) ==
  [s \in Slots |-> LET k == (s - newHead - kept) % Cap
                   IN  IF k < write THEN first + k ELSE items[s]]

(* Mutant: what does not fit overwrites the oldest, and the head stays.     *)
PushOver(n) ==
  /\ ~eof /\ produced + n <= MaxSamples
  /\ items' = Written(head, count, produced, n)
  /\ count' = Least(Cap, count + n)
  /\ overrun' = overrun + Excess(count + n, Cap)
  /\ produced' = produced + n
  /\ Wake
  /\ UNCHANGED <<head, eof, before, chunk, clock, verdict, history>>

(* Mutant: the overrun is counted and nothing is taken out.                 *)
PushBeyond(n) ==
  /\ ~eof /\ produced + n <= MaxSamples
  /\ items' = Written(head, count, produced, n)
  /\ count' = count + n
  /\ overrun' = overrun + Excess(count + n, Cap)
  /\ produced' = produced + n
  /\ Wake
  /\ UNCHANGED <<head, eof, before, chunk, clock, verdict, history>>

(* Mutant: the frontend is woken only when the ring was empty.              *)
PushShy(n) ==
  /\ ~eof /\ produced + n <= MaxSamples /\ n <= Cap - count
  /\ items' = Written(head, count, produced, n)
  /\ count' = count + n
  /\ produced' = produced + n
  /\ IF count = 0 THEN Wake ELSE UNCHANGED fpc
  /\ UNCHANGED <<head, overrun, eof, before, chunk, clock, verdict, history>>

(* live_iq_ring_push of a block of n samples: of a block longer than the    *)
(* ring only the end goes in, what does not fit pushes the oldest samples   *)
(* out, and a broadcast wakes the frontend.                                 *)
Push(n) ==
  LET prefix  == Excess(n, Cap)
      write   == n - prefix
      drop    == Excess(write, Cap - count)
      newHead == (head + drop) % Cap
  IN  /\ ~eof /\ produced + n <= MaxSamples
      /\ items' = Written(newHead, count - drop, produced + prefix, write)
      /\ head' = newHead
      /\ count' = count - drop + write
      /\ overrun' = overrun + prefix + drop
      /\ produced' = produced + n
      /\ Wake
      /\ UNCHANGED <<eof, before, chunk, clock, verdict, history>>

(* stdin has ended.                                                         *)
EndOfInput ==
  /\ ~eof
  /\ eof' = TRUE
  /\ Wake
  /\ UNCHANGED <<items, head, count, overrun, produced, before, chunk, clock, verdict, history>>

-----------------------------------------------------------------------------
(* live_iq_ring_read and read_probe_samples, on the frontend thread.        *)

Ready == count >= Want \/ eof

Entered == IF fpc = "call" THEN overrun ELSE before

ReadWait ==
  /\ fpc \in {"call", "woken"} /\ ~Ready
  /\ before' = Entered
  /\ fpc' = "waiting"
  /\ UNCHANGED <<ring, chunk, clock, verdict, history>>

(* The oldest samples go to the frontend with the overruns to report.       *)
Take(delta, marked) ==
  LET n == Least(Want, count)
  IN  /\ fpc \in {"call", "woken"} /\ Ready
      /\ head' = (head + n) % Cap
      /\ count' = count - n
      /\ chunk' = [first |-> items[head], n |-> n, time |-> 0]
      /\ before' = Entered
      /\ overrunPending' = overrunPending + delta
      /\ gapPending' = (gapPending \/ marked)
      /\ seen' = overrun
      /\ hidden' = hidden + (overrun - seen - delta)
      /\ fpc' = IF n = 0 THEN "done" ELSE "resample"
      /\ UNCHANGED <<items, eof, overrun, produced, outputSeq, tail, cursor, verdict, failures>>

(* Mutant: the overrun is skipped and not marked.                           *)
ReadTakeUnmarked == Take(overrun - Entered, FALSE)

(* The read returns a chunk, or at the end of the input what is left, and   *)
(* with it the overruns since it was entered.                               *)
ReadTake == Take(overrun - Entered, overrun # Entered)

(* live_resampler_skip_input: the output time and the cursor move on.       *)
Skip(n) ==
  /\ overrunPending' = overrunPending - n
  /\ cursor' = [cursor EXCEPT !.next = IF cursor.valid THEN @ + n ELSE @]

Resample ==
  /\ fpc = "resample"
  /\ Skip(overrunPending)
  /\ chunk' = [chunk EXCEPT !.time = outputSeq + overrunPending]
  /\ outputSeq' = outputSeq + overrunPending + chunk.n
  /\ fpc' = "demod"
  /\ UNCHANGED <<ring, before, gapPending, tail, verdict, history>>

(* There is no memory to resample, before the skip or after it.             *)
ResampleFail ==
  /\ fpc = "resample" /\ failures < MaxFailures
  /\ \E n \in {0, overrunPending} : Skip(n) /\ outputSeq' = outputSeq + n
  /\ hidden' = hidden + chunk.n
  /\ failures' = failures + 1
  /\ fpc' = "call"
  /\ UNCHANGED <<ring, before, chunk, gapPending, tail, verdict, seen>>

(* live_ofdm_prepend_tail: the chunk and the tail in front of it are kept   *)
(* for the next one.                                                        *)
KeptTail == Least(tail + chunk.n, TailSymbols * SymbolLen)
LongEnough == tail + chunk.n >= MinSymbols * SymbolLen

(* The chunk fails: there is no memory for the tail, or later, before or    *)
(* after the demodulation has taken the pending discontinuity.              *)
ChunkFail ==
  /\ fpc = "demod" /\ failures < MaxFailures
  /\ \/ UNCHANGED <<tail, gapPending>>
     \/ LongEnough /\ tail' = KeptTail /\ gapPending' \in {gapPending, FALSE}
  /\ failures' = failures + 1
  /\ fpc' = "call"
  /\ UNCHANGED <<ring, before, chunk, overrunPending, outputSeq, cursor, verdict, seen, hidden>>

(* A chunk too short for the acquisition is taken for the end of the input. *)
ChunkTooShort ==
  /\ fpc = "demod" /\ ~LongEnough
  /\ tail' = KeptTail
  /\ fpc' = "done"
  /\ UNCHANGED <<ring, before, chunk, gapPending, overrunPending, outputSeq, cursor, verdict,
                 history>>

(* The samples between sample n and the start of its symbol.                *)
IntoSymbol(n) == n % SymbolLen
SymbolStart(n) == n - IntoSymbol(n)

(* The output time of the first symbol demodulated: the one that starts in  *)
(* the tail and ends in the chunk, or without a tail the first of the chunk.*)
FirstSymbol ==
  IF tail > 0 \/ IntoSymbol(chunk.first) = 0
  THEN chunk.time - IntoSymbol(chunk.first)
  ELSE chunk.time + SymbolLen - IntoSymbol(chunk.first)

NextSymbol == chunk.time + chunk.n - IntoSymbol(chunk.first + chunk.n)

(* A chunk is continuous when its first symbol starts where the cursor      *)
(* expects it, no discontinuity is pending, and the carrier, the spectrum   *)
(* sense and the pilot lock agree, which depends on the signal.             *)
Demod ==
  /\ fpc = "demod" /\ LongEnough
  /\ continuous' \in {FALSE, cursor.valid /\ cursor.next = FirstSymbol /\ ~gapPending}
  /\ gapPending' = FALSE
  /\ tail' = KeptTail
  /\ cursor' = [valid |-> TRUE, next |-> NextSymbol]
  /\ lastEnd' = chunk.first + chunk.n
  /\ hidden' = 0
  /\ fpc' = "call"
  /\ UNCHANGED <<ring, before, chunk, overrunPending, outputSeq, seen, failures>>

Reader   == (\E n \in Reads : Push(n)) \/ EndOfInput
Frontend == ReadWait \/ ReadTake \/ Resample \/ ResampleFail \/ ChunkFail \/ ChunkTooShort
            \/ Demod

Terminated == fpc = "done" /\ UNCHANGED vars

Next == Reader \/ Frontend \/ Terminated

(* The frontend is always scheduled and only blocks in the read; stdin owes *)
(* nothing, and a chunk need not fail.                                      *)
FrontendStep == ReadWait \/ ReadTake \/ Resample \/ ChunkTooShort \/ Demod

Spec == Init /\ [][Next]_vars /\ WF_vars(FrontendStep)

-----------------------------------------------------------------------------

Sample == 0..MaxSamples

(* The variables keep their types: among them, the ring never holds more    *)
(* than its capacity.                                                       *)
TypeOK ==
  /\ items \in [Slots -> Sample] /\ head \in Slots /\ count \in 0..Cap /\ eof \in BOOLEAN
  /\ fpc \in {"call", "waiting", "woken", "resample", "demod", "done"}
  /\ chunk \in [first: Sample, n: 0..Want, time: Nat]
  /\ gapPending \in BOOLEAN /\ continuous \in BOOLEAN
  /\ cursor \in [valid: BOOLEAN, next: Nat] /\ tail \in 0..(TailSymbols * SymbolLen)
  /\ {overrun, before, overrunPending, outputSeq, produced, seen, lastEnd, hidden} \subseteq Nat
  /\ failures \in 0..MaxFailures

(* However pushes, overruns and reads interleave and wrap, the ring holds   *)
(* the newest samples in order, without a hole.                             *)
HoldsTheNewest ==
  \A k \in 0..(count - 1) : items[(head + k) % Cap] = produced - count + k

(* No sample is lost while the frontend has less than a chunk to read: the  *)
(* reader thread's block always fits beside an unfinished chunk.            *)
LosesOnlyWhenBehind == [][overrun' # overrun => count >= Want]_vars

(* Samples are missing between two chunks the frontend calls continuous     *)
(* only through the overruns no read reports and the chunks there was no    *)
(* memory to resample; and a chunk is called discontinuous for an input gap *)
(* only when there is one.                                                  *)
OnlyHiddenGaps ==
  [][Demod =>
       /\ continuous' => SymbolStart(chunk.first) = SymbolStart(lastEnd) + hidden
       /\ gapPending => chunk.first > lastEnd]_vars

(* A waiting frontend gets its chunk: the broadcast is never lost, and the  *)
(* end of the input ends the frontend.                                      *)
ReadReturns ==
  /\ (fpc \in {"waiting", "woken"} /\ Ready) ~> fpc = "resample" \/ fpc = "done"
  /\ eof ~> fpc = "done"

(* What ARCHITECTURE.md asks of an overrun of the input FIFO: it is marked  *)
(* as a discontinuity, so a continuous chunk starts where the last ended.   *)
OverrunsAreMarked ==
  [][Demod /\ continuous' /\ failures = 0 => chunk.first = lastEnd]_vars
=============================================================================
