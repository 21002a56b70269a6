---------------------------- MODULE OfdmFrontend ----------------------------
(***************************************************************************)
(* The live OFDM frontend chunk by chunk, src/src/probe_constellation.c:   *)
(* tail of the last chunk in front of the new one, tracking or acquisition *)
(* of the symbol start, pilot scan, the symbols that are demodulated, AFC, *)
(* the verdict on continuity, and what becomes of a chunk with weak pilots.*)
(*                                                                         *)
(* Samples are counted on the output clock of the resampler, on which      *)
(* module IqRing accounts for overruns.  A transmitted symbol begins at    *)
(* every multiple of OfdmLen; where the receiver finds it is off by a      *)
(* choice from Jitter.  Positions that outlive a chunk are kept relative   *)
(* to its end, so that the model has no end of its own.                    *)
(***************************************************************************)
EXTENDS Integers, FiniteSets, FiniteSetsExt

CONSTANTS
  OfdmLen,      \* samples of a symbol with its guard interval
  Sizes,        \* samples of a chunk
  Gaps,         \* samples an overrun may have cost before a chunk; 0 for none
  Jitter,       \* how far off the start of a symbol is found
  TrackRadius,  \* LIVE_GRDVBT_TRACK_RADIUS
  MaxError,     \* LIVE_FRONTEND_CONTINUITY_MAX_SAMPLE_ERROR
  ScanLimit,    \* dvbt2k_pilot_scan_bin_limit
  ScanRadius,   \* LIVE_AFC_BIN_SEARCH_RADIUS
  MaxBinStep,   \* LIVE_AFC_MAX_BIN_STEP
  ConfirmChunks,\* LIVE_AFC_TREND_CONFIRM_CHUNKS
  HoldChunks,   \* LIVE_LOW_PILOT_HOLD_MAX
  Drifts,       \* how far the carrier may move from chunk to chunk, in bins
  MaxSpent      \* bound: chunks that fail for want of memory

TailLen == 2 * OfdmLen
MinLen == 4 * OfdmLen
Bins == -ScanLimit .. ScanLimit
None == -1
NoTrend == [sight |-> <<0, FALSE>>, count |-> 0]

\* Average pilot lock of a chunk: below 0.45, below 0.55, below 0.70, or more
Locks == {"poor", "weak", "strong", "decode"}

ASSUME OfdmAssumption ==
  /\ {OfdmLen, TrackRadius, MaxError, ScanLimit, ScanRadius, MaxBinStep,
      ConfirmChunks, HoldChunks, MaxSpent} \subseteq Nat
  /\ OfdmLen > 0 /\ TrackRadius < OfdmLen
  /\ Sizes \subseteq Nat /\ \A n \in Sizes : n >= MinLen
  /\ \E m \in Sizes : \A n \in Sizes : n <= m
  /\ Gaps \subseteq Nat
  /\ Jitter \subseteq Nat /\ \A j \in Jitter : MaxError + j < OfdmLen

VARIABLES
  stage,    \* where the frontend is: read, sync, scan, judge, pilots
  here,     \* the end of the last chunk, modulo OfdmLen
  kept,     \* samples in live_ofdm_buffer_state
  carrier,  \* the bin the carrier is in
  afc,      \* --afc
  track,    \* live_frontend_cursor: valid, bin, and how far its next symbol is back
  trend,    \* live_afc_state: what was seen, how often
  holdCount,\* live_low_pilot_hold_count
  shown,    \* live_status_hold.valid
  frame,    \* the chunk in hand
  follows,  \* live_symbol_continuity_ok
  \* history
  given,    \* how far back the last symbol handed over ended; None after a reset
  skipped,  \* symbols of the chunk held back since
  seam,     \* symbols missing, or too many, where the last chunk joined the run
  steady,   \* chunks in a row of an undisturbed signal
  spent

ofdmVars == <<stage, here, kept, carrier, afc, track, trend, holdCount, shown, frame,
              follows, given, skipped, seam, steady, spent>>

NoFrame == [n |-> 0, gap |-> FALSE, moved |-> FALSE, prefix |-> 0, len |-> 0,
            edge |-> FALSE, start |-> 0, jitter |-> 0, bin |-> 0, advised |-> 0,
            lock |-> "poor"]
Lost == [valid |-> FALSE, bin |-> 0, back |-> 0]

OfdmInit ==
  /\ stage = "read"
  /\ here \in 0 .. OfdmLen - 1
  /\ kept = 0
  /\ carrier = 0 /\ afc \in BOOLEAN
  /\ track = Lost /\ trend = NoTrend
  /\ holdCount = 0 /\ shown = FALSE
  /\ frame = NoFrame /\ follows = FALSE
  /\ given = None /\ skipped = 0 /\ seam = 0 /\ steady = 0 /\ spent = 0

Stage(from, to) == stage = from /\ stage' = to

(***************************************************************************)
(* A chunk arrives: the tail goes in front of it and its own end is kept.  *)
(* live_resampler_skip_input has moved the cursor over an overrun.         *)
(***************************************************************************)
ReadFrame(n, gap, drift) ==
  /\ Stage("read", "sync")
  /\ carrier + drift \in Bins
  /\ carrier' = carrier + drift
  /\ here' = (here + gap + n) % OfdmLen
  /\ frame' = [NoFrame EXCEPT
                 !.n = n, !.gap = gap # 0, !.moved = drift # 0, !.prefix = kept,
                 !.len = kept + n, !.edge = (here + gap) % OfdmLen = 0]
  /\ kept' = Min({kept + n, TailLen})
  /\ track' = [track EXCEPT !.back = @ + n]
  /\ given' = IF given = None THEN None ELSE given + gap + n
  /\ follows' = FALSE
  /\ UNCHANGED <<afc, trend, holdCount, shown, skipped, seam, steady, spent>>

\* Where symbols begin in the chunk, tail included.
Starts == {i \in 0 .. frame.len - 1 : (here - frame.len + i) % OfdmLen = 0}

\* The place the tracker looks at first, or None: the expected symbol, moved
\* into the chunk, and back by one if the tail has room for it.
Predicted ==
  LET expected == frame.len - track.back
      selected == IF expected >= 0 THEN expected ELSE expected % OfdmLen
      back == IF frame.prefix >= OfdmLen /\ selected >= OfdmLen
              THEN selected - OfdmLen ELSE selected
  IN  IF track.valid /\ back + OfdmLen <= frame.len THEN {back} ELSE {}

Synced(start, jitter) ==
  frame' = [frame EXCEPT !.start = start, !.jitter = jitter]

\* Found near where it was expected, with a score of 0.70 or more
Track ==
  /\ Stage("sync", "scan")
  /\ \E p \in Predicted, s \in Starts, j \in Jitter :
       /\ s + j \in p - TrackRadius .. p + TrackRadius
       /\ Synced(s + j, j)
  /\ UNCHANGED <<here, kept, carrier, afc, track, trend, holdCount, shown, follows,
                 given, skipped, seam, steady, spent>>

\* Searched anew in the first symbol's length; there is always a best place.
Acquire ==
  /\ Stage("sync", "scan")
  /\ \E s \in Starts, j \in Jitter :
       s < OfdmLen /\ Synced((s + j) % OfdmLen, j)
  /\ UNCHANGED <<here, kept, carrier, afc, track, trend, holdCount, shown, follows,
                 given, skipped, seam, steady, spent>>

Near(bin) == {b \in Bins : b - bin \in -ScanRadius .. ScanRadius}

\* scan_dvbt2k_pilot_alignment: the carrier where it is among the bins looked at
Scanned(bins) == IF carrier \in bins THEN {carrier} ELSE bins

\* Pilots are as good as the channel; a bin beside the carrier they are weak,
\* further off they are noise.
LocksAt(bin) ==
  CASE bin = carrier -> Locks
    [] bin - carrier \in {-1, 1} -> {"poor", "weak", "strong"}
    [] OTHER -> {"poor"}

\* Without AFC the bin stays, and a second scan looks round it for the advice.
PilotScan ==
  /\ Stage("scan", "judge")
  /\ \E bin \in Scanned(IF ~track.valid THEN Bins
                        ELSE IF afc THEN Near(track.bin) ELSE {track.bin}) :
       \E advised \in IF track.valid /\ ~afc THEN Scanned(Near(track.bin)) ELSE {bin} :
         \E lock \in LocksAt(bin) :
           frame' = [frame EXCEPT !.bin = bin, !.advised = advised, !.lock = lock]
  /\ UNCHANGED <<here, kept, carrier, afc, track, trend, holdCount, shown, follows,
                 given, skipped, seam, steady, spent>>

(***************************************************************************)
(* The symbols demodulated: not those that end in the tail, for the last   *)
(* chunk had them, and only those that end before the chunk does.          *)
(***************************************************************************)
EndOf(s) == frame.start + (s + 1) * OfdmLen
Skipped == Cardinality({s \in 0 .. frame.len \div OfdmLen : EndOf(s) <= frame.prefix})
Used == {s \in Skipped .. frame.len \div OfdmLen : EndOf(s) < frame.len}
First == frame.start + Skipped * OfdmLen
NextStart == First + Cardinality(Used) * OfdmLen

\* symbol_phase_delta
PhaseDelta(d) == Min({d % OfdmLen, (-d) % OfdmLen})
Abs(n) == IF n < 0 THEN -n ELSE n

(***************************************************************************)
(* AFC.  A move of one bin is advised when the pilots are strong, or when  *)
(* the same move has been seen in ConfirmChunks chunks.                    *)
(***************************************************************************)
Delta == frame.advised - track.bin
Measurable == Abs(Delta) <= MaxBinStep /\ frame.lock # "poor"
Strong == frame.lock \in {"strong", "decode"}
Sight == <<frame.advised, Delta > 0>>

SameTrend == trend # NoTrend /\ trend.sight = Sight

Advised == /\ Delta # 0 /\ Measurable
           /\ Strong \/ (SameTrend /\ trend.count + 1 >= ConfirmChunks)

TrendNext ==
  CASE Delta = 0 \/ ~Measurable -> NoTrend
    [] Delta # 0 /\ Measurable /\ Strong -> trend
    [] Delta # 0 /\ Measurable /\ ~Strong /\ SameTrend ->
         [trend EXCEPT !.count = Min({@ + 1, ConfirmChunks})]
    [] OTHER -> [sight |-> Sight, count |-> 1]

\* Mutant: a start in step with the symbols is taken for the one expected.
ContinuesInStep(delta) ==
  /\ ~frame.gap
  /\ PhaseDelta(delta) <= MaxError
  /\ frame.bin = track.bin \/ (afc /\ Advised)
  /\ frame.lock # "poor"

\* The verdict on a chunk that begins `delta' samples off what the cursor says.
ContinuesAt(delta) ==
  /\ ~frame.gap
  /\ Abs(delta) <= MaxError
  /\ PhaseDelta(delta) <= MaxError
  /\ frame.bin = track.bin \/ (afc /\ Advised)
  /\ frame.lock # "poor"

Continues == track.valid /\ ContinuesAt(First - (frame.len - track.back))

\* A chunk of an undisturbed signal, of which AFC can make use.
Undisturbed ==
  /\ ~frame.gap /\ ~frame.moved /\ frame.jitter = 0
  /\ IF frame.bin = carrier THEN frame.lock = "decode" ELSE frame.lock = "poor"

\* A chunk that does not continue the run cuts it off: both streams, FIFO1 and
\* the chunks held back.
Judge ==
  /\ Stage("judge", "pilots")
  /\ Used # {}
  /\ follows' = Continues
  /\ trend' = IF ~track.valid THEN trend
              ELSE IF Continues /\ afc /\ Advised THEN NoTrend
              ELSE TrendNext
  /\ track' = [valid |-> TRUE, bin |-> frame.bin, back |-> frame.len - NextStart]
  /\ IF Continues
     THEN UNCHANGED <<holdCount, given, skipped>>
     ELSE holdCount' = 0 /\ given' = None /\ skipped' = 0
  /\ steady' = IF Undisturbed THEN Min({steady + 1, 3}) ELSE 0
  /\ UNCHANGED <<here, kept, carrier, afc, shown, frame, seam, spent>>

(***************************************************************************)
(* What becomes of the chunk.                                              *)
(***************************************************************************)
\* Mutant: a chunk is held back whatever was held before.
MayHoldAgain == shown /\ follows /\ frame.lock # "poor"

\* One weak chunk of a run may be left out and the run goes on.
MayHoldBack == /\ shown /\ track.valid /\ follows
               /\ frame.lock # "poor"
               /\ holdCount < HoldChunks

HoldBack ==
  /\ Stage("pilots", "read")
  /\ frame.lock # "decode" /\ MayHoldBack
  /\ holdCount' = holdCount + 1
  /\ skipped' = IF given = None THEN 0 ELSE skipped + Cardinality(Used)
  /\ frame' = NoFrame
  /\ UNCHANGED <<here, kept, carrier, afc, track, trend, shown, follows, given, seam,
                 steady, spent>>

\* Mutant: the cursor stays valid whatever the pilots.
DropChunkKeepingCursor ==
  /\ Stage("pilots", "read")
  /\ frame.lock # "decode" /\ ~MayHoldBack
  /\ shown' = FALSE /\ trend' = NoTrend /\ follows' = FALSE
  /\ given' = None /\ skipped' = 0
  /\ frame' = NoFrame
  /\ UNCHANGED <<here, kept, carrier, afc, track, holdCount, seam, steady, spent>>

\* A weak chunk is dropped, and with poor pilots the cursor too.
DropChunk ==
  /\ Stage("pilots", "read")
  /\ frame.lock # "decode" /\ ~MayHoldBack
  /\ shown' = FALSE /\ trend' = NoTrend /\ follows' = FALSE
  /\ track' = [track EXCEPT !.valid = @ /\ frame.lock # "poor"]
  /\ given' = None /\ skipped' = 0
  /\ frame' = NoFrame
  /\ UNCHANGED <<here, kept, carrier, afc, holdCount, seam, steady, spent>>

\* The chunk goes on to the soft FIFO and FIFO1 (module LiveDecode).
HandOver ==
  /\ Stage("pilots", "read")
  /\ frame.lock = "decode"
  /\ holdCount' = 0
  /\ shown' = TRUE
  /\ seam' = IF given = None THEN 0
             ELSE (First - frame.jitter - (frame.len - given)) - skipped * OfdmLen
  /\ given' = frame.len - (NextStart - frame.jitter)
  /\ skipped' = 0
  /\ frame' = NoFrame
  /\ UNCHANGED <<here, kept, carrier, afc, track, trend, follows, steady, spent>>

\* No memory, or no pilots at all: the cursor stays behind.
ScanFails ==
  /\ Stage("scan", "read")
  /\ spent < MaxSpent
  /\ spent' = spent + 1
  /\ shown' = FALSE /\ trend' = NoTrend
  /\ frame' = NoFrame
  /\ steady' = 0
  /\ UNCHANGED <<here, kept, carrier, afc, track, holdCount, follows, given, skipped,
                 seam>>

OfdmNext ==
  \/ \E n \in Sizes, gap \in Gaps, d \in Drifts : \E drift \in {d, -d} :
       ReadFrame(n, gap, drift)
  \/ Track \/ Acquire
  \/ PilotScan \/ ScanFails
  \/ Judge
  \/ HoldBack \/ DropChunk \/ HandOver

OfdmSpec == OfdmInit /\ [][OfdmNext]_ofdmVars
-----------------------------------------------------------------------------
(***************************************************************************)
(* Properties.                                                             *)
(***************************************************************************)
(* SymbolsInOrder: where a chunk continues a run, whether its start was    *)
(* tracked or acquired and after whatever chunks were held back, dropped   *)
(* or failed, no symbol comes twice and none is missing but those of at    *)
(* most HoldChunks chunks the frontend has held back.                      *)
SymbolsInOrder ==
  /\ seam = 0
  /\ skipped <= HoldChunks * ((Max(Sizes) + OfdmLen) \div OfdmLen)

(* NextSymbols: once an undisturbed signal is there, every chunk goes on   *)
(* with the symbols that follow the last ones, as ARCHITECTURE.md says of  *)
(* a continuous input.                                                     *)
NextSymbols == stage = "pilots" /\ steady = 3 => follows

(* LocksAgain: the same, but for a symbol that ends with the last sample   *)
(* of a chunk: whatever came before, gaps, failures, drift of the carrier  *)
(* with AFC or a scan that found nothing, the third undisturbed chunk      *)
(* continues the second.                                                   *)
LocksAgain == stage = "pilots" /\ steady = 3 /\ ~frame.edge => follows
=============================================================================
