------------------------------- MODULE TsGate -------------------------------
(***************************************************************************)
(* Block 4, the transport stream sink: the validator of one decoder call,  *)
(* the output gate that outlives the calls in live mode, and its burst     *)
(* buffer in front of the sink, src/src/dvbt_outer.c.                      *)
(*                                                                         *)
(* A packet is its kind, its place in the order of arrival and the NAL     *)
(* units that start in it.  A PAT or a PMT is one packet, and names the    *)
(* PMT or the one video stream.  The sink takes a burst or fails; what a   *)
(* UDP sink loses on the wire it has taken.                                *)
(***************************************************************************)
EXTENDS Integers, SequencesExt

CONSTANTS
  Burst,        \* TS_WRITE_BURST_PACKETS
  ConfigMax,    \* VIDEO_GATE_CONFIG_PACKETS
  StartPackets, \* packets of a call after which the gate waits no longer
  Nals,         \* the sets of NAL units that start in a packet
  MaxPackets,   \* bound: packets recovered
  MaxFailures   \* bound: bursts the sink refuses

ASSUME TsGateAssumption ==
  /\ Burst \in Nat \ {0} /\ ConfigMax \in Nat \ {0} /\ StartPackets \in Nat
  /\ Nals \subseteq SUBSET {"vps", "sps", "pps", "idr"}
  /\ MaxPackets \in Nat /\ MaxFailures \in Nat

VARIABLES
  mode,      \* live, wait_video_start, HEVC, and whether the pilots are locked
  pc,        \* between two calls, in one, leaving one, done, or undefined
  received,  \* packets recovered so far
  \* ts_validator_t: packets, and whether it has a PAT and, with it, a PMT
  validator,
  \* ts_output_gate_t
  enabled, waiting, pat, pmt, have, config, held,
  lock,      \* lock_state of the call in progress
  written,   \* packets the calls have reported written
  \* history
  put,       \* what the last step put into the burst buffer
  sent,      \* packets the sink took
  failures,  \* bursts it refused
  callStart, \* packets recovered before this call
  lastBad    \* the last packet that came broken through a closed gate

gate    == <<enabled, waiting, pat, pmt, have, config>>
history == <<sent, failures, callStart, lastBad>>
vars    == <<mode, pc, received, validator, gate, held, lock, written, put, history>>

NoPacket == [kind |-> "none", id |-> 0, nals |-> {}]
Config == {"vps", "sps", "pps"}

(* A live call with low pilots is skipped: it is no call here.              *)
Modes == {m \in [live: BOOLEAN, wait: BOOLEAN, hevc: BOOLEAN, pilotOk: BOOLEAN] :
            m.live => m.pilotOk}

Init ==
  /\ mode \in Modes
  /\ pc = "between" /\ received = 0
  /\ validator = [packets |-> 0, pat |-> FALSE, pmt |-> FALSE]
  /\ enabled = FALSE /\ waiting = mode.wait
  /\ pat = NoPacket /\ pmt = NoPacket /\ have = {} /\ config = <<>> /\ held = 0
  /\ lock = "search" /\ written = 0
  /\ put = <<>> /\ sent = 0 /\ failures = 0 /\ callStart = 0 /\ lastBad = 0

-----------------------------------------------------------------------------
(* rbdvbt_outer_recover_ts begins: a new validator, the gate as it was.     *)
StartCall ==
  /\ pc = "between"
  /\ pc' = "call"
  /\ validator' = [packets |-> 0, pat |-> FALSE, pmt |-> FALSE]
  /\ lock' = "search"
  /\ callStart' = received
  /\ put' = <<>>
  /\ UNCHANGED <<mode, received, gate, held, written, sent, failures, lastBad>>

(* Mutant: the packets noted for the replay outlive the relock.             *)
RelockKeepingConfig ==
  /\ enabled' = FALSE /\ waiting' = mode.wait
  /\ pat' = NoPacket /\ pmt' = NoPacket /\ have' = {}
  /\ UNCHANGED config

(* ts_output_gate_relock; the burst buffer keeps what it has.               *)
Relock ==
  /\ enabled' = FALSE /\ waiting' = mode.wait
  /\ pat' = NoPacket /\ pmt' = NoPacket /\ have' = {} /\ config' = <<>>

(* Mutant: live or not, a broken packet shuts the gate.                     *)
RelockAlways == Relock

(* A broken packet shuts the gate again, unless it is open in live mode.    *)
RelockUnlessLive ==
  IF mode.live /\ enabled THEN UNCHANGED gate ELSE Relock

(* The Reed-Solomon decoder gives a block up: offline the gate shuts.       *)
Uncorrectable ==
  /\ pc = "call"
  /\ IF mode.live
     THEN /\ lock' = IF enabled THEN "degraded" ELSE "relock"
          /\ UNCHANGED <<gate, lastBad>>
     ELSE /\ lock' = IF received = 0 THEN "search" ELSE "relock"
          /\ Relock
          /\ lastBad' = received
  /\ put' = <<>>
  /\ UNCHANGED <<mode, pc, received, validator, held, written, sent, failures, callStart>>

-----------------------------------------------------------------------------
Kinds == {"pat", "pmt", "video", "other"}

Receive ==
  /\ pc = "call" /\ received < MaxPackets
  /\ received' = received + 1

(* ts_validator_observe: the PMT is known by the PID a PAT gave.            *)
Observed(kind) ==
  [packets |-> validator.packets + 1,
   pat |-> validator.pat \/ kind = "pat",
   pmt |-> validator.pmt \/ (kind = "pmt" /\ validator.pat)]

(* A packet with the transport error bit, which the validator reads all the *)
(* same, or without a sync byte, which it only counts.                      *)
BrokenPacket ==
  /\ Receive
  /\ \E kind \in Kinds : validator' = Observed(kind)
  /\ lock' = IF enabled THEN "degraded" ELSE "locking"
  /\ RelockUnlessLive
  /\ lastBad' = IF mode.live /\ enabled THEN lastBad ELSE received'
  /\ put' = <<>>
  /\ UNCHANGED <<mode, pc, held, written, sent, failures, callStart>>

-----------------------------------------------------------------------------
(* ts_output_gate_write_packet for one packet after the other: a full       *)
(* buffer goes to the sink.                                                 *)
WriteAll(packets) ==
  /\ put' = packets
  /\ held' = (held + Len(packets)) % Burst
  /\ sent' = sent + held + Len(packets) - held'
  /\ written' = written + Len(packets)
  /\ pc' = "call"
  /\ UNCHANGED failures

(* Mutant: the refused burst is thrown away.                                *)
WriteSomeDiscarding(packets) ==
  \E n \in 1..Len(packets) :
    /\ (held + n) % Burst = 0 /\ failures < MaxFailures
    /\ put' = SubSeq(packets, 1, n)
    /\ held' = 0
    /\ sent' = sent + held + n - Burst
    /\ written' = written + n - 1
    /\ failures' = failures + 1
    /\ pc' = "leave"

(* The sink refuses a full buffer: it stays, the packet that filled it is   *)
(* not reported, the rest is lost, and so is the rest of the call.          *)
WriteSome(packets) ==
  \E n \in 1..Len(packets) :
    /\ (held + n) % Burst = 0 /\ failures < MaxFailures
    /\ put' = SubSeq(packets, 1, n)
    /\ held' = Burst
    /\ sent' = sent + held + n - Burst
    /\ written' = written + n - 1
    /\ failures' = failures + 1
    /\ pc' = "leave"

(* A buffer the sink has refused twice is full and gets another packet:     *)
(* write_buf ends before it, and nothing more is said of the gate.          *)
WriteBeyond(packets) ==
  /\ held = Burst /\ packets # <<>>
  /\ held' = held + 1
  /\ pc' = "undefined"
  /\ put' = packets
  /\ UNCHANGED <<sent, written, failures>>

Write(packets) ==
  \/ held < Burst /\ WriteAll(packets)
  \/ held < Burst /\ WriteSome(packets)
  \/ /\ held = Burst /\ packets = <<>>
     /\ put' = <<>> /\ pc' = "call"
     /\ UNCHANGED <<held, sent, written, failures>>
  \/ WriteBeyond(packets)

-----------------------------------------------------------------------------
IsTable(kind) == kind = "pat" \/ (kind = "pmt" /\ validator.pat)

(* ts_packet_video_nal_flags, once the PMT has named the video stream.      *)
NalsOf(p, v) == IF p.kind = "video" /\ v.pmt THEN p.nals ELSE {}

(* Mutant: the replay grows past its last slot.                             *)
NotedWithoutEnd(p, nals) ==
  IF waiting /\ "idr" \notin nals /\ nals \cap Config # {}
  THEN Append(config, p)
  ELSE config

(* ts_output_gate_note_video: the packets that configure the video decoder  *)
(* are kept for the replay, the oldest making room.                         *)
Noted(p, nals) ==
  IF waiting /\ "idr" \notin nals /\ nals \cap Config # {}
  THEN LET all == Append(config, p)
       IN  IF Len(all) > ConfigMax THEN Tail(all) ELSE all
  ELSE config

CleanStart(had, nals) ==
  /\ {"sps", "pps"} \subseteq had /\ (mode.hevc => "vps" \in had)
  /\ "idr" \in nals

(* Mutant: the tables may be of an earlier call.                            *)
MayOpenOnOldTables(p, v, had) ==
  /\ mode.pilotOk /\ pat' # NoPacket /\ pmt' # NoPacket
  /\ waiting => CleanStart(had, NalsOf(p, v)) \/ v.packets >= StartPackets

(* ts_output_gate_try_write opens the gate.                                 *)
MayOpen(p, v, had) ==
  /\ mode.pilotOk /\ pat' # NoPacket /\ pmt' # NoPacket
  /\ v.pat /\ v.pmt
  /\ waiting => CleanStart(had, NalsOf(p, v)) \/ v.packets >= StartPackets

(* block4_consume_fifo3_packet of a whole packet: an open gate lets it      *)
(* pass unless it is a table; the packet that opens the gate comes behind   *)
(* the tables and the noted configuration.                                  *)
GoodPacket ==
  \E kind \in Kinds, nals \in Nals :
    LET p      == [kind |-> kind, id |-> received + 1, nals |-> nals]
        v      == Observed(kind)
        flags  == NalsOf(p, v)
        had    == IF waiting THEN have \union (flags \cap Config) ELSE have
        opens  == ~enabled /\ MayOpen(p, v, had)
        itself == IF IsTable(kind) THEN <<>> ELSE <<p>>
    IN  /\ kind # "video" => nals = {}
        /\ Receive
        /\ validator' = v
        /\ pat' = (IF kind = "pat" THEN p ELSE pat)
        /\ pmt' = (IF kind = "pmt" /\ IsTable(kind) THEN p ELSE pmt)
        /\ have' = had
        /\ config' = Noted(p, flags)
        /\ enabled' = (enabled \/ opens)
        /\ waiting' = (waiting /\ ~opens)
        /\ Write(IF opens THEN <<pat', pmt'>> \o config' \o itself
                 ELSE IF enabled THEN itself ELSE <<>>)
        /\ lock' = IF enabled \/ (opens /\ pc' = "call") THEN "locked"
                   ELSE IF v.pat /\ v.pmt /\ ~waiting THEN "locked" ELSE "locking"
        /\ UNCHANGED <<mode, callStart, lastBad>>

-----------------------------------------------------------------------------
(* The end of the call, good or bad: what is left in the buffer goes to the *)
(* sink, which may refuse it, and the sink is closed.                       *)
EndCall ==
  /\ pc \in {"call", "leave"}
  /\ pc' = IF mode.live THEN "between" ELSE "done"
  /\ lock' = "search" /\ put' = <<>>
  /\ \/ held' = 0 /\ sent' = sent + held /\ UNCHANGED failures
     \/ /\ held > 0 /\ failures < MaxFailures
        /\ failures' = failures + 1 /\ UNCHANGED <<held, sent>>
  /\ UNCHANGED <<mode, received, validator, gate, written, callStart, lastBad>>

Next == StartCall \/ Uncorrectable \/ BrokenPacket \/ GoodPacket \/ EndCall

Spec == Init /\ [][Next]_vars

-----------------------------------------------------------------------------
Packets == [kind: Kinds \union {"none"}, id: 0..MaxPackets, nals: Nals \union {{}}]

(* The variables keep their types, as long as the program is defined.       *)
TypeOK ==
  /\ mode \in Modes
  /\ pc \in {"between", "call", "leave", "done", "undefined"}
  /\ received \in 0..MaxPackets
  /\ validator \in [packets: 0..MaxPackets, pat: BOOLEAN, pmt: BOOLEAN]
  /\ enabled \in BOOLEAN /\ waiting \in BOOLEAN
  /\ pat \in Packets /\ pmt \in Packets /\ have \subseteq Config
  /\ config \in Seq(Packets) /\ Len(config) <= ConfigMax
  /\ held \in Nat /\ (held > Burst => pc = "undefined")
  /\ lock \in {"search", "locking", "locked", "degraded", "relock"}
  /\ {written, sent, failures, callStart, lastBad} \subseteq Nat

(* However calls end, fail and follow each other, a packet reported as      *)
(* written has been taken by the sink or waits in the buffer; each refused  *)
(* burst leaves at most one that was not reported, and a call that is not   *)
(* refused any leaves nothing behind for the next.  One refusal is always   *)
(* survived: the buffer is only written beyond its end after a second one.  *)
AccountKept ==
  pc # "undefined" =>
    /\ written <= sent + held
    /\ sent + held <= written + failures
    /\ pc \in {"between", "done"} /\ failures = 0 => held = 0

WrittenIsKept == AccountKept /\ (pc = "undefined" => failures >= 2)

(* The output opens with a PAT and a PMT of the call in progress, though    *)
(* the gate keeps tables and configuration across calls, and what it        *)
(* replays behind them came in order and after the last broken packet.      *)
OpensOnFreshTables ==
  [][~enabled /\ enabled' =>
       /\ Len(put') >= 2 \/ pc' = "leave"
       /\ \A i \in DOMAIN put' : i <= 2 => put'[i].kind = <<"pat", "pmt">>[i]
                                           /\ put'[i].id > callStart]_vars

ReplaysOnlyUnbroken ==
  [][~enabled /\ enabled' =>
       \A i, j \in DOMAIN put' : 2 < i /\ i < j =>
         lastBad < put'[i].id /\ put'[i].id <= put'[j].id]_vars

(* A live output, once open, stays open through errors and calls.           *)
LiveStaysOpen == [][mode.live /\ enabled => enabled']_vars

(* README.md:432: with --wait-video-start the output stays closed until a   *)
(* clean start of the video comes by, SPS, PPS and an IDR picture.          *)
WaitsForCleanStart ==
  [][mode.wait /\ ~enabled /\ enabled' /\ pc' = "call" =>
       \E i \in DOMAIN put' : "idr" \in put'[i].nals]_vars
=============================================================================
