----------------------------- MODULE ReceiverLoop -----------------------------
(***************************************************************************)
(* The receiver from its arguments to its exit status: src/src/config.c,   *)
(* main.c, receiver.c, and the part of src/src/probe_constellation.c that  *)
(* settles how many samples of the symbol grid a chunk has: the samples    *)
(* asked for, the resampler and its fraction of a sample, the choice of a  *)
(* guard interval for each chunk, and the tail of the chunk before.  What  *)
(* is done with a chunk is the matter of OfdmFrontend and LiveDecode.      *)
(*                                                                         *)
(* An argument is what it sets.  Those that only name outputs, formats,    *)
(* offline measurements or log levels set nothing that is looked at here.  *)
(***************************************************************************)
EXTENDS Integers

CONSTANTS
  Fft,            \* fft_size
  RateIn,         \* sample_rate_hz : target_rate_hz, in lowest terms,
  RateOut,        \* with --resample-to-dvbt-rate
  FilterRadius,   \* RBDVBT_RESAMPLER_RADIUS
  DefaultSymbols, \* RBDVBT_LIVE_TARGET_SYMBOLS_DEFAULT
  DefaultSamples, \* DEFAULT_PROBE_MAX_SAMPLES
  GuardArgs,      \* what --gi may be given: n for 1/n, 0 for auto
  SymbolArgs,     \* what --live-symbols may be given
  SampleArgs,     \* what --max-samples may be given
  Overruns,       \* samples the ring may lose while a chunk is read
  MaxMissed       \* bound: of them, how many pile up while no chunk is resampled

Guards == {8, 16, 32}
GiAuto == 0
SymbolOf(guard) == Fft + Fft \div guard

ASSUME ReceiverAssumption ==
  /\ Fft % 32 = 0
  /\ {Fft, RateIn, RateOut, DefaultSymbols, DefaultSamples} \subseteq Nat \ {0}
  /\ FilterRadius \in Nat
  /\ DefaultSymbols >= 5 /\ DefaultSamples >= 5 * SymbolOf(8)
  /\ GuardArgs \subseteq Guards \cup {GiAuto}
  /\ SymbolArgs \subseteq Nat \ {0}
  /\ SampleArgs \cup Overruns \subseteq Nat /\ MaxMissed \in Nat

VARIABLES
  phase,   \* args, setup, read, resample, prepare, decode, exit
  cfg,     \* rbdvbt_config_t; symbols and max are 0 until given
  got,     \* samples in hand
  missed,  \* live_iq_overrun_pending_samples
  place,   \* next_x, in input samples divided by RateOut
  saved,   \* live_ofdm_buffer_state: samples, and the symbol length they are of
  drained, \* stdin has ended and all of it is read
  exit     \* exit status; None before

receiverVars == <<phase, cfg, got, missed, place, saved, drained, exit>>

NoExit == -1
Failed == 255 \* -1 as an exit status
Eof == 1      \* RBDVBT_PROBE_EOF
NothingSaved == [n |-> 0, symbol |-> 0]

ReceiverInit ==
  /\ phase = "args"
  /\ cfg = [stdin |-> FALSE, rate |-> FALSE, sr |-> FALSE, probe |-> FALSE, live |-> FALSE,
            x4 |-> FALSE, dvbt |-> FALSE, gi |-> 8, symbols |-> 0, max |-> 0,
            help |-> FALSE, version |-> FALSE, bench |-> FALSE]
  /\ got = 0 /\ missed = 0 /\ place = 0 /\ saved = NothingSaved
  /\ drained = FALSE /\ exit = NoExit

-----------------------------------------------------------------------------
(* rbdvbt_parse_args and main.                                             *)

\* --gui asks for --probe-constellation.
Flags == {"stdin", "rate", "sr", "x4", "dvbt", "help", "version", "bench", "probe"}

Exits(status) == phase' = "exit" /\ exit' = status

\* Of the same argument twice, the last counts; --live asks for the probe too.
ReadArgument ==
  /\ phase = "args"
  /\ \/ \E flag \in Flags : cfg' = [cfg EXCEPT ![flag] = TRUE]
     \/ cfg' = [cfg EXCEPT !.live = TRUE, !.probe = TRUE]
     \/ \E g \in GuardArgs : cfg' = [cfg EXCEPT !.gi = g]
     \/ \E n \in SymbolArgs : cfg' = [cfg EXCEPT !.symbols = n]
     \/ \E n \in SampleArgs : cfg' = [cfg EXCEPT !.max = n]
  /\ UNCHANGED <<phase, got, missed, place, saved, drained, exit>>

\* An unknown argument, one without its value, or a value out of range.
BadArgument ==
  /\ phase = "args"
  /\ Exits(2)
  /\ UNCHANGED <<cfg, got, missed, place, saved, drained>>

Asks == cfg.help \/ cfg.version \/ cfg.bench
Complete == cfg.stdin /\ cfg.rate /\ cfg.sr /\ ~(cfg.x4 /\ cfg.dvbt)

Answer ==
  /\ phase = "args" /\ Asks
  /\ \E status \in IF cfg.help \/ cfg.version THEN {0} ELSE {0, 1} : Exits(status)
  /\ UNCHANGED <<cfg, got, missed, place, saved, drained>>

Refuse ==
  /\ phase = "args" /\ ~Asks /\ ~Complete
  /\ Exits(2)
  /\ UNCHANGED <<cfg, got, missed, place, saved, drained>>

\* Without --probe-constellation the input is only measured.
Measure ==
  /\ phase = "args" /\ ~Asks /\ Complete /\ ~cfg.probe
  /\ Exits(0)
  /\ UNCHANGED <<cfg, got, missed, place, saved, drained>>

Begin ==
  /\ phase = "args" /\ ~Asks /\ Complete /\ cfg.probe
  /\ phase' = "setup"
  /\ UNCHANGED <<cfg, got, missed, place, saved, drained, exit>>

-----------------------------------------------------------------------------
(* The samples a chunk asks for.                                           *)

Target ==
  LET symbols == IF cfg.symbols = 0 THEN DefaultSymbols ELSE cfg.symbols
      symbol == SymbolOf(IF cfg.gi = GiAuto THEN 8 ELSE cfg.gi)
  IN  (2 * symbols * symbol * RateIn + RateOut) \div (2 * RateOut)

Limit ==
  IF cfg.live /\ cfg.dvbt /\ (cfg.max = 0 \/ (cfg.symbols # 0 /\ cfg.max > Target))
  THEN Target
  ELSE IF cfg.max # 0 THEN cfg.max ELSE DefaultSamples

(* A chunk returns; the live loop begins the next unless the input is said  *)
(* to have ended.                                                          *)
Returns(rc) ==
  /\ IF cfg.live /\ rc # Eof
     THEN phase' = "setup" /\ UNCHANGED exit
     ELSE Exits(IF cfg.live THEN 0 ELSE rc)
  /\ got' = 0

\* No window of --gui, no socket of the visualizer, no memory or no reader thread
SetupFails ==
  /\ phase = "setup"
  /\ Returns(Failed)
  /\ UNCHANGED <<cfg, missed, place, saved, drained>>

Setup ==
  /\ phase = "setup"
  /\ phase' = "read"
  /\ UNCHANGED <<cfg, got, missed, place, saved, drained, exit>>

\* read_probe_samples: all that is asked for, less only where stdin ends.
ReadChunk ==
  /\ phase = "read"
  /\ \E n \in IF drained THEN {0} ELSE {0, 1, Limit \div 2, Limit},
        lost \in IF cfg.live /\ cfg.dvbt THEN Overruns ELSE {0} :
       /\ missed + lost <= MaxMissed
       /\ drained' = (n < Limit)
       /\ IF n = 0
          THEN Returns(Eof) /\ UNCHANGED missed
          ELSE got' = n /\ missed' = missed + lost /\ phase' = "resample" /\ UNCHANGED exit
  /\ UNCHANGED <<cfg, place, saved>>

-----------------------------------------------------------------------------
(* The resampler.  Output samples lie RateIn apart on a scale on which     *)
(* input samples lie RateOut apart; place is where the next lies, counted  *)
(* from the first input sample of the chunk.                               *)

Ceiling(a, b) == -((-a) \div b)

\* Mutant: what was skipped moves the place the other way.
PlaceAfterForward(from, n) == IF n = 0 THEN from ELSE from + n * RateOut

\* live_resampler_skip_input
PlaceAfter(from, n) ==
  LET span == n * RateOut - from
  IN  IF n > 0 /\ span > 0 THEN RateIn * Ceiling(span, RateIn) - span ELSE from - n * RateOut

\* Output samples whose filter ends before the chunk does
Outputs(from, n) ==
  LET room == (n - FilterRadius) * RateOut - from
  IN  IF room > 0 THEN Ceiling(room, RateIn) ELSE 0

Resampled(n) ==
  /\ got' = n
  /\ phase' = "prepare" /\ UNCHANGED exit

ResampleLive ==
  LET from == PlaceAfter(place, missed)
      n == Outputs(from, got)
  IN  /\ phase = "resample" /\ cfg.dvbt /\ cfg.live
      /\ place' = from + n * RateIn - got * RateOut
      /\ missed' = 0
      /\ IF n > 0 THEN Resampled(n) ELSE Returns(Failed)
      /\ UNCHANGED <<cfg, saved, drained>>

\* No memory: for the tables, before the input is skipped, after that, or last.
ResampleLiveFails ==
  LET from == PlaceAfter(place, missed)
  IN  /\ phase = "resample" /\ cfg.dvbt /\ cfg.live
      /\ \/ place' = 0 /\ UNCHANGED missed
         \/ place' = from /\ missed' = 0
         \/ place' = from + Outputs(from, got) * RateIn - got * RateOut /\ missed' = 0
      /\ Returns(Failed)
      /\ UNCHANGED <<cfg, saved, drained>>

\* By four, or from a file at once; or not at all.
ResampleWhole ==
  LET n == CASE cfg.x4 -> 4 * got
             [] ~cfg.x4 /\ cfg.dvbt -> (got * RateOut) \div RateIn
             [] OTHER -> got
  IN  /\ phase = "resample" /\ ~(cfg.dvbt /\ cfg.live)
      /\ IF n > 0 THEN Resampled(n) ELSE Returns(Failed)
      /\ UNCHANGED <<cfg, missed, place, saved, drained>>

ResampleWholeFails ==
  /\ phase = "resample" /\ ~(cfg.dvbt /\ cfg.live) /\ (cfg.x4 \/ cfg.dvbt)
  /\ Returns(Failed)
  /\ UNCHANGED <<cfg, missed, place, saved, drained>>

-----------------------------------------------------------------------------
(* The guard interval and the tail.                                        *)

\* select_guard_interval_auto looks at those there are four symbols for, in
\* every chunk anew; with noise it may take any of them.
Fitting == {g \in Guards : got >= 4 * SymbolOf(g)}
GuardChoice ==
  CASE cfg.gi # GiAuto -> {cfg.gi}
    [] cfg.gi = GiAuto /\ Fitting # {} -> Fitting
    [] OTHER -> {32}

Prefix(symbol) == IF cfg.live /\ saved.symbol = symbol THEN saved.n ELSE 0

\* live_ofdm_prepend_tail, and the test that ends the probe
Prepare ==
  /\ phase = "prepare"
  /\ \E guard \in GuardChoice :
       LET symbol == SymbolOf(guard)
           n == Prefix(symbol) + got
       IN  /\ saved' = IF ~cfg.live THEN saved
                       ELSE [n |-> IF n < 2 * symbol THEN n ELSE 2 * symbol,
                             symbol |-> symbol]
           /\ IF n >= 4 * symbol
              THEN got' = n /\ phase' = "decode" /\ UNCHANGED exit
              ELSE Returns(Eof)
  /\ UNCHANGED <<cfg, missed, place, drained>>

PrepareFails ==
  /\ phase = "prepare" /\ cfg.live
  /\ \E guard \in GuardChoice :
       saved' = [n |-> Prefix(SymbolOf(guard)), symbol |-> SymbolOf(guard)]
  /\ Returns(Failed)
  /\ UNCHANGED <<cfg, missed, place, drained>>

\* The rest of the probe: decoded, or pilots or memory were wanting.
DecodeChunk ==
  /\ phase = "decode"
  /\ \E rc \in {0, Failed} : Returns(rc)
  /\ UNCHANGED <<cfg, missed, place, saved, drained>>

ReceiverNext ==
  \/ ReadArgument \/ BadArgument \/ Answer \/ Refuse \/ Measure \/ Begin
  \/ SetupFails \/ Setup \/ ReadChunk
  \/ ResampleLive \/ ResampleLiveFails \/ ResampleWhole \/ ResampleWholeFails
  \/ Prepare \/ PrepareFails \/ DecodeChunk
  \/ phase = "exit" /\ UNCHANGED receiverVars

ReceiverSpec == ReceiverInit /\ [][ReceiverNext]_receiverVars
-----------------------------------------------------------------------------
\* The arguments ask for chunks of five symbols or more of any guard interval.
FiveSymbols ==
  /\ cfg.symbols = 0 \/ cfg.symbols >= 5
  /\ cfg.max = 0 \/ IF cfg.dvbt THEN cfg.max * RateOut >= 5 * SymbolOf(8) * RateIn
                                 ELSE cfg.max >= 5 * SymbolOf(8)

(* EndsOnlyWithInput: a live receiver that was asked for chunks of five or  *)
(* more symbols takes no chunk for the end of its input while there is      *)
(* input, whatever overruns, failed chunks and changes of the guard         *)
(* interval came before.                                                    *)
EndsOnlyWithInput == phase = "exit" /\ exit = 0 /\ cfg.live /\ ~Asks /\ FiveSymbols => drained
=============================================================================
