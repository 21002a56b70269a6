----------------------------- MODULE TsGateProofs -----------------------------
(***************************************************************************)
(* For every size of the burst and of the replay, and however many packets *)
(* come and bursts are refused: the output gate of block 4 loses no packet *)
(* it has reported, opens on the tables of the call in progress, replays   *)
(* nothing from before a broken packet, and stays open in live mode.       *)
(***************************************************************************)
EXTENDS TsGate, SequenceTheorems, TLAPS

(* What is assumed of the constants.                                        *)
LEMMA Bounds ==
  /\ Burst \in Nat /\ Burst > 0 /\ ConfigMax \in Nat /\ ConfigMax > 0
  /\ StartPackets \in Nat /\ MaxPackets \in Nat /\ MaxFailures \in Nat
BY TsGateAssumption DEF TsGateAssumption

(* What is left of so many packets when the full bursts have gone.          *)
LEMMA LeftOver ==
  ASSUME NEW n \in Nat
  PROVE  n % Burst \in Nat /\ n % Burst < Burst /\ n % Burst <= n
<1>1. n % Burst \in 0 .. (Burst - 1)
  BY Bounds
<1>2. CASE n < Burst
  <2>1. n % Burst = n
    BY <1>2, Bounds
  <2> QED BY <1>1, <2>1, Bounds
<1>3. CASE ~(n < Burst)
  BY <1>1, <1>3, Bounds
<1> QED BY <1>2, <1>3

(* The packets that open the output: the tables, the replay, the packet.    *)
LEMMA Opening ==
  ASSUME NEW S, NEW a \in S, NEW b \in S, NEW c \in Seq(S), NEW r \in Seq(S)
  PROVE  LET all == <<a, b>> \o c \o r
         IN  /\ all \in Seq(S) /\ Len(all) = 2 + Len(c) + Len(r)
             /\ all[1] = a /\ all[2] = b
             /\ \A i \in 3 .. 2 + Len(c) : all[i] = c[i - 2]
             /\ \A i \in 3 + Len(c) .. Len(all) : all[i] = r[i - 2 - Len(c)]
<1> DEFINE t == <<a, b>>
           h == t \o c
           all == h \o r
<1>1. t \in Seq(S) /\ Len(t) = 2 /\ t[1] = a /\ t[2] = b
  OBVIOUS
<1> HIDE DEF t
<1>2. /\ t \o c \in Seq(S)
      /\ Len(t \o c) = Len(t) + Len(c)
      /\ \A i \in 1 .. Len(t) + Len(c) : (t \o c)[i] = IF i <= Len(t) THEN t[i] ELSE c[i - Len(t)]
  BY <1>1, ConcatProperties
<1> HIDE DEF h
<1>3. /\ h \o r \in Seq(S)
      /\ Len(h \o r) = Len(h) + Len(r)
      /\ \A i \in 1 .. Len(h) + Len(r) : (h \o r)[i] = IF i <= Len(h) THEN h[i] ELSE r[i - Len(h)]
  <2>1. h \in Seq(S)
    BY <1>2 DEF h
  <2> QED BY <2>1, ConcatProperties
<1>4. Len(c) \in Nat /\ Len(r) \in Nat
  BY LenProperties
<1> HIDE DEF all
<1>5. /\ Len(h) = 2 + Len(c) /\ \A i \in 1 .. 2 + Len(c) : h[i] = IF i <= 2 THEN t[i] ELSE c[i - 2]
      /\ Len(all) = 2 + Len(c) + Len(r)
      /\ \A i \in 1 .. Len(all) : all[i] = IF i <= Len(h) THEN h[i] ELSE r[i - Len(h)]
  BY <1>1, <1>2, <1>3, <1>4 DEF h, all
<1>6. /\ all[1] = a /\ all[2] = b
      /\ \A i \in 3 .. 2 + Len(c) : all[i] = c[i - 2]
  BY <1>1, <1>4, <1>5
<1>7. \A i \in 3 + Len(c) .. Len(all) : all[i] = r[i - 2 - Len(c)]
  <2> SUFFICES ASSUME NEW i \in 3 + Len(c) .. Len(all) PROVE all[i] = r[i - 2 - Len(c)]
    OBVIOUS
  <2>1. i \in 1 .. Len(all) /\ ~(i <= Len(h)) /\ i - Len(h) = i - 2 - Len(c)
    BY <1>4, <1>5
  <2> QED BY <1>5, <2>1
<1> QED
  BY <1>3, <1>5, <1>6, <1>7 DEF all, h, t

-----------------------------------------------------------------------------
(* What WriteAll, WriteSome and WriteBeyond have in common: the first of    *)
(* the packets go into the buffer, all of them unless the call is over, and *)
(* the packet that met the refusal is the one that is not reported.         *)

(* A write hands on a prefix of what it was given, all of it unless the     *)
(* call ends, and leaves less than a burst or, after a refusal, a full one. *)
LEMMA WriteKeeps ==
  ASSUME held \in 0 .. Burst, written \in Nat, sent \in Nat, failures \in Nat,
         NEW packets \in Seq(Packets), Write(packets)
  PROVE  /\ put' \in Seq(Packets) /\ Len(put') <= Len(packets)
         /\ \A i \in 1 .. Len(put') : put'[i] = packets[i]
         /\ pc' = "leave" \/ put' = packets
         /\ pc' \in {"call", "leave", "undefined"}
         /\ held' \in Nat /\ sent' \in Nat /\ written' \in Nat /\ failures' \in Nat
         /\ held' <= Burst \/ pc' = "undefined"
         /\ pc' # "undefined" =>
              \E n \in Nat : /\ sent' + held' = sent + held + n
                             /\ \/ written' = written + n /\ failures' = failures
                                \/ written' + 1 = written + n /\ failures' = failures + 1
<1>0. Len(packets) \in Nat
  BY LenProperties
<1> DEFINE len == Len(packets)
<1>1. CASE held < Burst /\ WriteAll(packets)
  <2> DEFINE rest == (held + len) % Burst
  <2>1. rest \in Nat /\ rest < Burst /\ rest <= held + len
    BY <1>0, LeftOver, Bounds
  <2>2. /\ put' = packets /\ pc' = "call" /\ failures' = failures
        /\ held' = rest /\ sent' = sent + held + len - rest /\ written' = written + len
    BY <1>1 DEF WriteAll
  <2> HIDE DEF rest
  <2>3. sent' + held' = sent + held + len /\ sent' \in Nat
    BY <1>0, <2>1, <2>2, Bounds
  <2> QED
    BY <1>0, <2>1, <2>2, <2>3, Bounds
<1>2. CASE held < Burst /\ WriteSome(packets)
  <2>1. PICK n \in 1 .. len :
          /\ (held + n) % Burst = 0
          /\ put' = SubSeq(packets, 1, n) /\ held' = Burst /\ sent' = sent + held + n - Burst
          /\ written' = written + n - 1 /\ failures' = failures + 1 /\ pc' = "leave"
    BY <1>2 DEF WriteSome
  <2>2. held + n >= Burst
    <3>1. CASE held + n < Burst
      <4>1. (held + n) % Burst = held + n
        BY <1>0, <3>1, Bounds
      <4> QED BY <1>0, <2>1, <4>1
    <3> QED BY <3>1, Bounds
  <2>3. /\ SubSeq(packets, 1, n) \in Seq(Packets) /\ Len(SubSeq(packets, 1, n)) = n
        /\ \A i \in 1 .. n : SubSeq(packets, 1, n)[i] = packets[i]
    BY <1>0, SubSeqProperties
  <2>4. /\ put' \in Seq(Packets) /\ Len(put') = n /\ n <= len
        /\ \A i \in 1 .. n : put'[i] = packets[i]
    BY <1>0, <2>1, <2>3
  <2>5. sent' \in Nat /\ sent' + held' = sent + held + n
    BY <1>0, <2>1, <2>2, Bounds
  <2>6. written' \in Nat /\ written' + 1 = written + n
    BY <1>0, <2>1
  <2> QED
    BY <1>0, <2>1, <2>4, <2>5, <2>6, Bounds
<1>3. CASE /\ held = Burst /\ packets = <<>> /\ put' = <<>> /\ pc' = "call"
           /\ UNCHANGED <<held, sent, written, failures>>
  <2>1. sent' + held' = sent + held + 0 /\ written' = written + 0
    BY <1>3, Bounds
  <2> QED
    BY <1>3, <2>1, Bounds
<1>4. CASE WriteBeyond(packets)
  BY <1>0, <1>4, Bounds DEF WriteBeyond
<1> QED
  BY <1>1, <1>2, <1>3, <1>4 DEF Write

-----------------------------------------------------------------------------
(* Types.  A call validates only what has been recovered since it began.    *)

InOrder ==
  /\ callStart <= received /\ lastBad <= received
  /\ validator.packets + callStart <= received

Typed == TypeOK /\ InOrder

(* The types of the placeholder and of the configuration units.             *)
LEMMA Tables == NoPacket \in Packets /\ Config \subseteq {"vps", "sps", "pps", "idr"}
BY Bounds DEF NoPacket, Packets, Config

(* The types hold at the start.                                             *)
LEMMA InitTyped == Init => Typed
<1> SUFFICES ASSUME Init PROVE Typed
  OBVIOUS
<1>1. validator \in [packets : 0 .. MaxPackets, pat : BOOLEAN, pmt : BOOLEAN]
  BY Bounds DEF Init
<1>2. config \in Seq(Packets) /\ Len(config) = 0
  BY DEF Init
<1>3. enabled \in BOOLEAN /\ waiting \in BOOLEAN
  BY DEF Init, Modes
<1> QED
  BY <1>1, <1>2, <1>3, Bounds, Tables DEF Init, Typed, TypeOK, InOrder

(* What the validator knows after one more packet.                          *)
LEMMA ObservedType ==
  ASSUME Typed, Receive, NEW kind
  PROVE  /\ Observed(kind) \in [packets : 0 .. MaxPackets, pat : BOOLEAN, pmt : BOOLEAN]
         /\ Observed(kind).packets = validator.packets + 1
         /\ Observed(kind).pat = (validator.pat \/ kind = "pat")
         /\ Observed(kind).pmt = (validator.pmt \/ (kind = "pmt" /\ validator.pat))
         /\ received \in Nat /\ received' = received + 1 /\ received' \in 0 .. MaxPackets
         /\ pc = "call"
<1>1. received \in Nat /\ received < MaxPackets /\ received' = received + 1 /\ pc = "call"
  BY Bounds DEF Typed, TypeOK, Receive
<1>2. validator.packets \in Nat /\ callStart \in Nat /\ validator.packets + callStart <= received
  BY Bounds DEF Typed, TypeOK, InOrder
<1>3. validator.packets + 1 \in 0 .. MaxPackets /\ received' \in 0 .. MaxPackets
  BY <1>1, <1>2, Bounds
<1>4. /\ (validator.pat \/ kind = "pat") \in BOOLEAN
      /\ (validator.pmt \/ (kind = "pmt" /\ validator.pat)) \in BOOLEAN
  OBVIOUS
<1>5. Observed(kind) \in [packets : 0 .. MaxPackets, pat : BOOLEAN, pmt : BOOLEAN]
  BY <1>3, <1>4 DEF Observed
<1> QED
  BY <1>1, <1>3, <1>5 DEF Observed

(* ts_output_gate_relock, or not.                                           *)
LEMMA RelockTypes ==
  ASSUME Typed, Relock \/ UNCHANGED gate
  PROVE  /\ enabled' \in BOOLEAN /\ waiting' \in BOOLEAN
         /\ pat' \in Packets /\ pmt' \in Packets /\ have' \subseteq Config
         /\ config' \in Seq(Packets) /\ Len(config') <= ConfigMax
<1>1. CASE Relock
  <2>1. config' \in Seq(Packets) /\ Len(config') = 0
    BY <1>1 DEF Relock
  <2>2. mode.wait \in BOOLEAN
    BY DEF Typed, TypeOK, Modes
  <2>3. enabled' \in BOOLEAN /\ waiting' \in BOOLEAN
    BY <1>1, <2>2 DEF Relock
  <2> QED
    BY <1>1, <2>1, <2>3, Bounds, Tables DEF Relock
<1>2. CASE UNCHANGED gate
  BY <1>2 DEF gate, Typed, TypeOK
<1> QED BY <1>1, <1>2

(* The replay keeps its room, and an order in which it came.                *)
LEMMA NotedType ==
  ASSUME Typed, NEW p \in Packets, NEW nals
  PROVE  /\ Noted(p, nals) \in Seq(Packets) /\ Len(Noted(p, nals)) <= ConfigMax
         /\ Noted(p, nals) = config
            \/ \E d \in {0, 1} : \A i \in DOMAIN Noted(p, nals) :
                 \/ i + d \in DOMAIN config /\ Noted(p, nals)[i] = config[i + d]
                 \/ i + d = Len(config) + 1 /\ Noted(p, nals)[i] = p
<1> DEFINE all == Append(config, p)
<1>1. config \in Seq(Packets) /\ Len(config) <= ConfigMax /\ Len(config) \in Nat
  BY LenProperties DEF Typed, TypeOK
<1>2. /\ all \in Seq(Packets) /\ Len(all) = Len(config) + 1
      /\ \A i \in 1 .. Len(config) : all[i] = config[i]
      /\ all[Len(config) + 1] = p
  BY <1>1, AppendProperties
<1> HIDE DEF all
<1>3. CASE Noted(p, nals) = config
  BY <1>1, <1>3
<1>4. CASE Noted(p, nals) = all /\ Len(all) <= ConfigMax
  <2>1. \A i \in DOMAIN all : \/ i + 0 \in DOMAIN config /\ all[i] = config[i + 0]
                              \/ i + 0 = Len(config) + 1 /\ all[i] = p
    <3> SUFFICES ASSUME NEW i \in 1 .. Len(all)
                 PROVE  \/ i + 0 \in 1 .. Len(config) /\ all[i] = config[i + 0]
                        \/ i + 0 = Len(config) + 1 /\ all[i] = p
      BY <1>1, <1>2, LenProperties
    <3> QED BY <1>1, <1>2
  <2> QED BY <1>2, <1>4, <2>1
<1>5. CASE Noted(p, nals) = Tail(all) /\ Len(all) > ConfigMax
  <2>1. /\ Tail(all) \in Seq(Packets) /\ Len(Tail(all)) = Len(config)
        /\ \A i \in 1 .. Len(config) : Tail(all)[i] = all[i + 1]
    BY <1>1, <1>2
  <2>2. \A i \in DOMAIN Tail(all) :
          \/ i + 1 \in DOMAIN config /\ Tail(all)[i] = config[i + 1]
          \/ i + 1 = Len(config) + 1 /\ Tail(all)[i] = p
    <3> SUFFICES ASSUME NEW i \in 1 .. Len(config)
                 PROVE  \/ i + 1 \in 1 .. Len(config) /\ Tail(all)[i] = config[i + 1]
                        \/ i + 1 = Len(config) + 1 /\ Tail(all)[i] = p
      BY <1>1, <2>1, LenProperties
    <3> QED BY <1>1, <1>2, <2>1
  <2> QED BY <1>1, <1>5, <2>1, <2>2
<1>6. \/ Noted(p, nals) = config
      \/ Noted(p, nals) = all /\ Len(all) <= ConfigMax
      \/ Noted(p, nals) = Tail(all) /\ Len(all) > ConfigMax
  <2>1. Len(all) \in Nat
    BY <1>1, <1>2
  <2>2. Len(all) <= ConfigMax \/ Len(all) > ConfigMax
    BY <2>1, Bounds
  <2> QED BY <2>2 DEF Noted, all
<1> QED
  BY <1>3, <1>4, <1>5, <1>6

(* What a whole packet does, as the proofs use it: GoodPacket without its   *)
(* names, and without the condition on the video.                           *)
Passing(p, opens, itself) ==
  IF opens THEN <<pat', pmt'>> \o config' \o itself
  ELSE IF enabled THEN itself ELSE <<>>

Arrives(p, nals, opens, itself) ==
  /\ p \in Packets /\ opens \in BOOLEAN /\ itself \in {<<>>, <<p>>}
  /\ Receive /\ p.id = received + 1
  /\ validator' = Observed(p.kind)
  /\ pat' = (IF p.kind = "pat" THEN p ELSE pat)
  /\ pmt' = (IF p.kind = "pmt" /\ validator.pat THEN p ELSE pmt)
  /\ have' \subseteq Config
  /\ config' = Noted(p, nals)
  /\ opens => ~enabled /\ pat' # NoPacket /\ pmt' # NoPacket /\ validator'.pat /\ validator'.pmt
  /\ enabled' = (enabled \/ opens) /\ waiting' = (waiting /\ ~opens)
  /\ Write(Passing(p, opens, itself))
  /\ lock' \in {"search", "locking", "locked", "degraded", "relock"}
  /\ UNCHANGED <<mode, callStart, lastBad>>

(* Every good packet goes the way Arrives describes.                        *)
LEMMA GoodArrives ==
  ASSUME Typed, GoodPacket
  PROVE  \E p, nals, opens, itself : Arrives(p, nals, opens, itself)
<1>1. PICK kind \in Kinds, nals \in Nals :
        LET p      == [kind |-> kind, id |-> received + 1, nals |-> nals]
            v      == Observed(kind)
            flags  == NalsOf(p, v)
            had    == IF waiting THEN have \union (flags \cap Config) ELSE have
            opens  == ~enabled /\ MayOpen(p, v, had)
            itself == IF IsTable(kind) THEN <<>> ELSE <<p>>
        IN  /\ kind # "video" => nals = {}
            /\ Receive
            /\ validator' = v
            /\ pat' = (IF kind = "pat" THEN p ELSE pat)
            /\ pmt' = (IF kind = "pmt" /\ IsTable(kind) THEN p ELSE pmt)
            /\ have' = had
            /\ config' = Noted(p, flags)
            /\ enabled' = (enabled \/ opens)
            /\ waiting' = (waiting /\ ~opens)
            /\ Write(IF opens THEN <<pat', pmt'>> \o config' \o itself
                     ELSE IF enabled THEN itself ELSE <<>>)
            /\ lock' = IF enabled \/ (opens /\ pc' = "call") THEN "locked"
                       ELSE IF v.pat /\ v.pmt /\ ~waiting THEN "locked" ELSE "locking"
            /\ UNCHANGED <<mode, callStart, lastBad>>
  BY DEF GoodPacket
<1> DEFINE p == [kind |-> kind, id |-> received + 1, nals |-> nals]
           v == Observed(kind)
           flags == NalsOf(p, v)
           had == IF waiting THEN have \union (flags \cap Config) ELSE have
           opens == ~enabled /\ MayOpen(p, v, had)
           itself == IF IsTable(kind) THEN <<>> ELSE <<p>>
<1>2. p \in Packets /\ p.kind = kind /\ p.id = received + 1
  <2>1. received + 1 \in 0 .. MaxPackets
    BY <1>1, ObservedType
  <2> QED BY <2>1 DEF Packets
<1>3. opens \in BOOLEAN /\ itself \in {<<>>, <<p>>}
  <2>1. MayOpen(p, v, had) \in BOOLEAN
    BY DEF MayOpen
  <2> QED BY <2>1
<1>4. had \subseteq Config
  BY DEF Typed, TypeOK
<1>5. opens => ~enabled /\ pat' # NoPacket /\ pmt' # NoPacket /\ v.pat /\ v.pmt
  BY DEF MayOpen
<1>6. kind = "pmt" /\ IsTable(kind) <=> kind = "pmt" /\ validator.pat
  BY DEF IsTable
<1>7. Write(Passing(p, opens, itself))
  BY <1>1 DEF Passing
<1>8. Arrives(p, flags, opens, itself)
  <2> HIDE DEF p, v, flags, had, opens, itself
  <2>1. /\ Receive /\ validator' = v
        /\ pat' = (IF kind = "pat" THEN p ELSE pat)
        /\ pmt' = (IF kind = "pmt" /\ IsTable(kind) THEN p ELSE pmt)
        /\ have' = had
        /\ config' = Noted(p, flags)
        /\ enabled' = (enabled \/ opens)
        /\ waiting' = (waiting /\ ~opens)
        /\ lock' = IF enabled \/ (opens /\ pc' = "call") THEN "locked"
                   ELSE IF v.pat /\ v.pmt /\ ~waiting THEN "locked" ELSE "locking"
        /\ UNCHANGED <<mode, callStart, lastBad>>
    BY <1>1 DEF p, v, flags, had, opens, itself
  <2>2. v = Observed(p.kind)
    BY <1>2 DEF v
  <2> QED
    BY <1>2, <1>3, <1>4, <1>5, <1>6, <1>7, <2>1, <2>2 DEF Arrives
<1> HIDE DEF p, flags, opens, itself
<1> QED
  BY <1>8

(* The types along that way.                                                *)
LEMMA ArrivesTypes ==
  ASSUME Typed, NEW p, NEW nals, NEW opens, NEW itself, Arrives(p, nals, opens, itself)
  PROVE  /\ p \in Packets /\ pat' \in Packets /\ pmt' \in Packets
         /\ config' \in Seq(Packets) /\ Len(config') <= ConfigMax
         /\ itself \in Seq(Packets) /\ Passing(p, opens, itself) \in Seq(Packets)
         /\ held \in 0 .. Burst
<1>1. pat' \in Packets /\ pmt' \in Packets
  BY DEF Arrives, Typed, TypeOK
<1>2. config' \in Seq(Packets) /\ Len(config') <= ConfigMax
  BY NotedType DEF Arrives
<1>3. itself \in Seq(Packets)
  <2>1. <<p>> \in Seq(Packets) /\ <<>> \in Seq(Packets)
    BY DEF Arrives
  <2> QED BY <2>1 DEF Arrives
<1>4. Passing(p, opens, itself) \in Seq(Packets)
  BY <1>1, <1>2, <1>3, Opening DEF Passing
<1>5. held \in 0 .. Burst
  BY Bounds DEF Arrives, Receive, Typed, TypeOK
<1> QED
  BY <1>1, <1>2, <1>3, <1>4, <1>5 DEF Arrives

(* All steps together.                                                      *)
LEMMA StepTyped == Typed /\ [Next]_vars => Typed'
<1> SUFFICES ASSUME Typed, [Next]_vars PROVE Typed'
  OBVIOUS
<1> USE DEF gate, history
<1>0. /\ received \in Nat /\ callStart \in Nat /\ lastBad \in Nat /\ received <= MaxPackets
      /\ validator.packets \in Nat /\ validator.packets + callStart <= received
      /\ callStart <= received /\ lastBad <= received
      /\ sent \in Nat /\ held \in Nat /\ written \in Nat /\ failures \in Nat
  BY Bounds DEF Typed, TypeOK, InOrder
<1>1. CASE StartCall
  <2>1. validator' \in [packets : 0 .. MaxPackets, pat : BOOLEAN, pmt : BOOLEAN]
        /\ validator'.packets = 0
    BY <1>1, Bounds DEF StartCall
  <2>2. TypeOK'
    BY <1>1, <2>1 DEF StartCall, Typed, TypeOK
  <2>3. InOrder'
    BY <1>0, <1>1, <2>1 DEF StartCall, InOrder
  <2> QED BY <2>2, <2>3 DEF Typed
<1>2. CASE Uncorrectable
  <2>1. Relock \/ UNCHANGED gate
    BY <1>2 DEF Uncorrectable
  <2>2. lock' \in {"search", "locking", "locked", "degraded", "relock"}
        /\ lastBad' \in {lastBad, received}
        /\ UNCHANGED <<mode, pc, received, validator, held, written, sent, failures, callStart>>
    BY <1>2 DEF Uncorrectable
  <2>3. TypeOK'
    BY <1>0, <2>1, <2>2, RelockTypes DEF Typed, TypeOK
  <2>4. InOrder'
    BY <1>0, <2>2 DEF InOrder
  <2> QED BY <2>3, <2>4 DEF Typed
<1>3. CASE BrokenPacket
  <2>1. Relock \/ UNCHANGED gate
    BY <1>3 DEF BrokenPacket, RelockUnlessLive
  <2>2. PICK kind \in Kinds : validator' = Observed(kind) /\ Receive
    BY <1>3 DEF BrokenPacket
  <2>3. lock' \in {"search", "locking", "locked", "degraded", "relock"}
        /\ lastBad' \in {lastBad, received'}
        /\ UNCHANGED <<mode, pc, held, written, sent, failures, callStart>>
    BY <1>3 DEF BrokenPacket
  <2>4. TypeOK'
    BY <1>0, <2>1, <2>2, <2>3, RelockTypes, ObservedType DEF Typed, TypeOK
  <2>5. InOrder'
    BY <1>0, <2>2, <2>3, ObservedType DEF InOrder
  <2> QED BY <2>4, <2>5 DEF Typed
<1>4. CASE GoodPacket
  <2>1. PICK p, nals, opens, itself : Arrives(p, nals, opens, itself)
    BY <1>4, GoodArrives
  <2> DEFINE packets == Passing(p, opens, itself)
  <2>2. /\ packets \in Seq(Packets) /\ held \in 0 .. Burst /\ Write(packets)
        /\ pat' \in Packets /\ pmt' \in Packets
        /\ config' \in Seq(Packets) /\ Len(config') <= ConfigMax
    BY <2>1, ArrivesTypes DEF Arrives
  <2> HIDE DEF packets
  <2>3. /\ pc' \in {"call", "leave", "undefined"}
        /\ held' \in Nat /\ sent' \in Nat /\ written' \in Nat /\ failures' \in Nat
        /\ held' <= Burst \/ pc' = "undefined"
    BY <1>0, <2>2, WriteKeeps
  <2>4. /\ enabled' = (enabled \/ opens) /\ waiting' = (waiting /\ ~opens)
        /\ have' \subseteq Config
        /\ lock' \in {"search", "locking", "locked", "degraded", "relock"}
        /\ UNCHANGED <<mode, callStart, lastBad>>
        /\ Receive /\ validator' = Observed(p.kind)
    BY <2>1 DEF Arrives
  <2>5. enabled' \in BOOLEAN /\ waiting' \in BOOLEAN
    BY <2>4 DEF Typed, TypeOK
  <2>6. held' > Burst => pc' = "undefined"
    BY <2>3, Bounds
  <2>7. TypeOK'
    BY <1>0, <2>2, <2>3, <2>4, <2>5, <2>6, ObservedType DEF Typed, TypeOK
  <2>8. InOrder'
    BY <1>0, <2>4, ObservedType DEF InOrder
  <2> QED BY <2>7, <2>8 DEF Typed
<1>5. CASE EndCall
  <2>1. /\ held' \in Nat /\ sent' \in Nat /\ failures' \in Nat
        /\ held' > Burst => held > Burst
        /\ pc' \in {"between", "done"} /\ pc \in {"call", "leave"}
    BY <1>0, <1>5, Bounds DEF EndCall
  <2>2. ~(held' > Burst)
    BY <2>1 DEF Typed, TypeOK
  <2>3. TypeOK'
    BY <1>5, <2>1, <2>2 DEF EndCall, Typed, TypeOK
  <2>4. InOrder'
    BY <1>5 DEF EndCall, Typed, InOrder
  <2> QED BY <2>3, <2>4 DEF Typed
<1>6. CASE UNCHANGED vars
  BY <1>6 DEF vars, Typed, TypeOK, InOrder
<1> QED
  BY <1>1, <1>2, <1>3, <1>4, <1>5, <1>6 DEF Next

(* TypeOK holds for every size of the buffers: the buffer of a burst is     *)
(* never beyond its end but where the code is undefined, and the replay has *)
(* no more than its slots.                                                  *)
THEOREM GateTypeCorrect == Spec => []TypeOK
<1>1. Typed => TypeOK
  BY DEF Typed
<1> QED
  BY InitTyped, StepTyped, <1>1, PTL DEF Spec

-----------------------------------------------------------------------------
(* The account of the packets.  Between the steps of a defined program it   *)
(* is inductive as it stands: WriteKeeps says what a write does to it, and  *)
(* the flush at the end of a call moves packets from the buffer to the sink.*)

(* Nothing has been written at the start.                                   *)
LEMMA InitKept == Init => AccountKept
BY DEF Init, AccountKept

(* A write adds as much to what is reported as to the sink and the buffer,  *)
(* but for the packets that met a refusal.                                  *)
LEMMA WriteBalances ==
  ASSUME held \in 0 .. Burst, written \in Nat, sent \in Nat, failures \in Nat,
         NEW packets \in Seq(Packets), Write(packets), pc' # "undefined",
         written <= sent + held, sent + held <= written + failures
  PROVE  written' <= sent' + held' /\ sent' + held' <= written' + failures'
<1>1. PICK n \in Nat : /\ sent' + held' = sent + held + n
                       /\ \/ written' = written + n /\ failures' = failures
                          \/ written' + 1 = written + n /\ failures' = failures + 1
  BY WriteKeeps
<1>2. held' \in Nat /\ sent' \in Nat /\ written' \in Nat /\ failures' \in Nat /\ held \in Nat
  BY WriteKeeps, Bounds
<1>3. PICK h \in Nat, s \in Nat, w \in Nat, f \in Nat :
        h = held' /\ s = sent' /\ w = written' /\ f = failures'
  BY <1>2
<1>4. w <= s + h /\ s + h <= w + f
  <2>1. s + h = sent + held + n
    BY <1>1, <1>3
  <2>2. \/ w = written + n /\ f = failures
        \/ w + 1 = written + n /\ f = failures + 1
    BY <1>1, <1>3
  <2> QED BY <1>2, <2>1, <2>2
<1> QED
  BY <1>3, <1>4

(* All steps together.                                                      *)
LEMMA StepKept == Typed /\ AccountKept /\ [Next]_vars => AccountKept'
<1> SUFFICES ASSUME Typed, AccountKept, [Next]_vars PROVE AccountKept'
  OBVIOUS
<1> USE DEF history
<1>0. sent \in Nat /\ held \in Nat /\ written \in Nat /\ failures \in Nat
  BY DEF Typed, TypeOK
<1>1. CASE StartCall
  BY <1>1 DEF StartCall, AccountKept
<1>2. CASE Uncorrectable \/ BrokenPacket
  BY <1>2 DEF Uncorrectable, BrokenPacket, Receive, AccountKept
<1>3. CASE GoodPacket
  <2>1. PICK p, nals, opens, itself : Arrives(p, nals, opens, itself)
    BY <1>3, GoodArrives
  <2> DEFINE packets == Passing(p, opens, itself)
  <2>2. packets \in Seq(Packets) /\ held \in 0 .. Burst /\ Write(packets) /\ pc = "call"
    BY <2>1, ArrivesTypes DEF Arrives, Receive
  <2> HIDE DEF packets
  <2>3. pc' \in {"call", "leave", "undefined"}
    BY <1>0, <2>2, WriteKeeps
  <2>4. pc' # "undefined" =>
          written' <= sent' + held' /\ sent' + held' <= written' + failures'
    BY <1>0, <2>2, WriteBalances DEF AccountKept
  <2> QED
    BY <2>3, <2>4 DEF AccountKept
<1>4. CASE EndCall
  <2>1. /\ written <= sent + held /\ sent + held <= written + failures /\ written' = written
        /\ \/ held' = 0 /\ sent' = sent + held /\ failures' = failures
           \/ held' = held /\ sent' = sent /\ failures' = failures + 1
    BY <1>4 DEF EndCall, AccountKept
  <2>2. /\ written' <= sent' + held' /\ sent' + held' <= written' + failures'
        /\ failures' = 0 => held' = 0
    BY <1>0, <2>1
  <2> QED
    BY <2>2 DEF AccountKept
<1>5. CASE UNCHANGED vars
  BY <1>5 DEF vars, AccountKept
<1> QED
  BY <1>1, <1>2, <1>3, <1>4, <1>5 DEF Next

(* A full buffer has been refused by the sink; and once more when the call  *)
(* that met the refusal is over, or the buffer has run over.                *)
FullRefused ==
  /\ held = Burst => failures >= 1
  /\ held = Burst /\ pc # "leave" => failures >= 2
  /\ pc = "undefined" => failures >= 2

(* The buffer is empty at the start,                                        *)
LEMMA InitFull == Init => FullRefused
BY Bounds DEF Init, FullRefused

(* a write fills it only by a refusal,                                      *)
LEMMA WriteFull ==
  ASSUME Typed, FullRefused, NEW packets \in Seq(Packets), pc = "call", Write(packets)
  PROVE  FullRefused'
<1>0. held \in Nat /\ failures \in Nat /\ Len(packets) \in Nat
  BY LenProperties DEF Typed, TypeOK
<1>1. CASE WriteAll(packets)
  <2>1. held' < Burst /\ held' # Burst /\ pc' = "call"
    BY <1>0, <1>1, LeftOver, Bounds DEF WriteAll
  <2> QED BY <2>1 DEF FullRefused
<1>2. CASE WriteSome(packets)
  <2>1. failures' = failures + 1 /\ pc' = "leave"
    BY <1>2 DEF WriteSome
  <2> QED BY <1>0, <2>1 DEF FullRefused
<1>3. CASE held = Burst /\ pc' \in {"call", "undefined"} /\ UNCHANGED failures
  <2>1. failures >= 2
    BY <1>3 DEF FullRefused
  <2> QED BY <1>0, <1>3, <2>1 DEF FullRefused
<1> QED
  BY <1>1, <1>2, <1>3 DEF Write, WriteBeyond

(* and every step keeps that.                                               *)
LEMMA StepFull == Typed /\ FullRefused /\ [Next]_vars => FullRefused'
<1> SUFFICES ASSUME Typed, FullRefused, [Next]_vars PROVE FullRefused'
  OBVIOUS
<1> USE DEF history
<1>0. held \in Nat /\ failures \in Nat
  BY DEF Typed, TypeOK
<1>1. CASE StartCall \/ Uncorrectable \/ BrokenPacket \/ UNCHANGED vars
  <2>1. UNCHANGED <<held, failures>> /\ (pc' = pc \/ (pc = "between" /\ pc' = "call"))
    BY <1>1 DEF StartCall, Uncorrectable, BrokenPacket, Receive, vars
  <2> QED BY <2>1 DEF FullRefused
<1>2. CASE GoodPacket
  <2>1. PICK p, nals, opens, itself : Arrives(p, nals, opens, itself)
    BY <1>2, GoodArrives
  <2>2. /\ Passing(p, opens, itself) \in Seq(Packets) /\ pc = "call"
        /\ Write(Passing(p, opens, itself))
    BY <2>1, ArrivesTypes DEF Arrives, Receive
  <2> QED BY <2>2, WriteFull
<1>3. CASE EndCall
  <2>1. /\ pc' \in {"between", "done"} /\ pc \in {"call", "leave"}
        /\ \/ held' = 0 /\ failures' = failures
           \/ held' = held /\ failures' = failures + 1
    BY <1>3 DEF EndCall
  <2>2. CASE held' = 0
    BY <2>1, <2>2, Bounds DEF FullRefused
  <2>3. CASE held' = held /\ failures' = failures + 1
    BY <1>0, <2>1, <2>3 DEF FullRefused
  <2> QED BY <2>1, <2>2, <2>3
<1> QED
  BY <1>1, <1>2, <1>3 DEF Next

(* However calls end, fail and follow each other, a packet reported written *)
(* has been taken by the sink or waits in the buffer, each refused burst    *)
(* leaves at most one that was not reported, and the buffer does not run    *)
(* over before the second refusal.                                          *)
THEOREM WrittenPacketsAreKept == Spec => []WrittenIsKept
<1>1. AccountKept /\ FullRefused => WrittenIsKept
  BY DEF WrittenIsKept, FullRefused
<1> QED
  BY InitTyped, StepTyped, InitKept, StepKept, InitFull, StepFull, <1>1, PTL DEF Spec

-----------------------------------------------------------------------------
(* What the gate remembers.  A table the validator of this call knows of is *)
(* of this call, unless it came broken: then a gate that is closed has      *)
(* forgotten its tables.  The replay is in the order of arrival, and after  *)
(* the last broken packet.                                                  *)

KnownTables ==
  /\ pat # NoPacket => pat.kind = "pat"
  /\ pmt # NoPacket => pmt.kind = "pmt"

FreshTables ==
  ~enabled =>
    /\ validator.pat /\ pat # NoPacket => pat.id > callStart
    /\ validator.pmt /\ pmt # NoPacket => pmt.id > callStart

ReplayInOrder ==
  /\ \A i \in DOMAIN config : lastBad < config[i].id /\ config[i].id <= received
  /\ \A i, j \in DOMAIN config : i <= j => config[i].id <= config[j].id

OpenWaitsNoMore == enabled => ~waiting

Remembered == KnownTables /\ FreshTables /\ ReplayInOrder /\ OpenWaitsNoMore

(* The invariant holds at the start.                                        *)
LEMMA InitRemembered == Init => Remembered
<1> SUFFICES ASSUME Init PROVE Remembered
  OBVIOUS
<1>1. DOMAIN config = {} /\ validator.pat = FALSE /\ validator.pmt = FALSE
  BY DEF Init
<1> QED
  BY <1>1 DEF Init, Remembered, KnownTables, FreshTables, ReplayInOrder, OpenWaitsNoMore

(* A relock forgets the tables and the configuration.                       *)
LEMMA RelockForgets == ASSUME Relock PROVE Remembered'
<1>1. DOMAIN config' = {}
  BY DEF Relock
<1> QED
  BY <1>1 DEF Relock, Remembered, KnownTables, FreshTables, ReplayInOrder, OpenWaitsNoMore

(* Numbers of packets are numbers.                                          *)
LEMMA PacketsKnown ==
  ASSUME Typed
  PROVE  /\ received \in Nat /\ callStart \in Nat /\ lastBad \in Nat
         /\ callStart <= received /\ lastBad <= received
         /\ \A i \in DOMAIN config : config[i] \in Packets
         /\ \A p \in Packets : p.id \in Nat
<1>1. config \in Seq(Packets)
  BY DEF Typed, TypeOK
<1>2. \A p \in Packets : p.id \in Nat
  BY Bounds DEF Packets
<1> QED
  BY <1>1, <1>2, Bounds DEF Typed, TypeOK, InOrder

(* A packet is remembered with its number.                                  *)
LEMMA ArrivesRemembered ==
  ASSUME Typed, Remembered, NEW p, NEW nals, NEW opens, NEW itself,
         Arrives(p, nals, opens, itself)
  PROVE  Remembered'
<1>1. /\ p \in Packets /\ p.id = received + 1 /\ received' = received + 1
      /\ callStart' = callStart /\ lastBad' = lastBad
      /\ validator'.pat = (validator.pat \/ p.kind = "pat")
      /\ validator'.pmt = (validator.pmt \/ (p.kind = "pmt" /\ validator.pat))
      /\ pat' = (IF p.kind = "pat" THEN p ELSE pat)
      /\ pmt' = (IF p.kind = "pmt" /\ validator.pat THEN p ELSE pmt)
      /\ enabled' = (enabled \/ opens) /\ waiting' = (waiting /\ ~opens)
      /\ config' = Noted(p, nals)
  BY ObservedType DEF Arrives
<1>2. KnownTables'
  BY <1>1 DEF Remembered, KnownTables, NoPacket
<1>3. FreshTables'
  <2>1. p.id > callStart
    BY <1>1, PacketsKnown
  <2> QED
    BY <1>1, <2>1 DEF Remembered, FreshTables
<1>4. ReplayInOrder'
  <2>1. CASE config' = config
    <3>1. \A i \in DOMAIN config : config[i].id \in Nat
      BY PacketsKnown
    <3> QED
      BY <1>1, <2>1, <3>1, PacketsKnown DEF Remembered, ReplayInOrder
  <2>2. ASSUME NEW d \in {0, 1},
               \A i \in DOMAIN config' :
                 \/ i + d \in DOMAIN config /\ config'[i] = config[i + d]
                 \/ i + d = Len(config) + 1 /\ config'[i] = p
        PROVE  ReplayInOrder'
    <3>1. /\ config \in Seq(Packets) /\ Len(config) \in Nat /\ DOMAIN config = 1 .. Len(config)
          /\ config' \in Seq(Packets) /\ DOMAIN config' = 1 .. Len(config') /\ Len(config') \in Nat
      BY <1>1, NotedType, LenProperties DEF Typed, TypeOK
    <3>2. \A i \in DOMAIN config : config[i].id \in Nat
      BY PacketsKnown
    <3>3. ASSUME NEW i \in DOMAIN config'
          PROVE  lastBad' < config'[i].id /\ config'[i].id <= received'
      <4>1. CASE i + d \in DOMAIN config /\ config'[i] = config[i + d]
        BY <1>1, <3>2, <4>1, PacketsKnown DEF Remembered, ReplayInOrder
      <4>2. CASE config'[i] = p
        BY <1>1, <4>2, PacketsKnown
      <4> QED BY <2>2, <4>1, <4>2
    <3>4. ASSUME NEW i \in DOMAIN config', NEW j \in DOMAIN config', i <= j
          PROVE  config'[i].id <= config'[j].id
      <4>0. i + d <= j + d /\ i \in Int /\ j \in Int
        BY <3>1, <3>4
      <4>1. CASE j + d = Len(config) + 1 /\ config'[j] = p
        BY <1>1, <3>3, <4>1
      <4>2. CASE j + d \in DOMAIN config /\ config'[j] = config[j + d]
        <5>1. i + d # Len(config) + 1
          BY <3>1, <4>0, <4>2
        <5>2. i + d \in DOMAIN config /\ config'[i] = config[i + d]
          BY <2>2, <5>1
        <5> QED
          BY <4>0, <4>2, <5>2 DEF Remembered, ReplayInOrder
      <4> QED BY <2>2, <4>1, <4>2
    <3> QED
      BY <3>3, <3>4 DEF ReplayInOrder
  <2>3. \/ config' = config
        \/ \E d \in {0, 1} : \A i \in DOMAIN config' :
             \/ i + d \in DOMAIN config /\ config'[i] = config[i + d]
             \/ i + d = Len(config) + 1 /\ config'[i] = p
    BY <1>1, NotedType
  <2> QED BY <2>1, <2>2, <2>3
<1>5. OpenWaitsNoMore'
  BY <1>1 DEF Remembered, OpenWaitsNoMore
<1> QED
  BY <1>2, <1>3, <1>4, <1>5 DEF Remembered

(* All steps together.                                                      *)
LEMMA StepRemembered == Typed /\ Remembered /\ [Next]_vars => Remembered'
<1> SUFFICES ASSUME Typed, Remembered, [Next]_vars PROVE Remembered'
  OBVIOUS
<1> USE DEF gate, history
<1>1. CASE StartCall
  <2>1. validator'.pat = FALSE /\ validator'.pmt = FALSE
    BY <1>1 DEF StartCall
  <2> QED
    BY <1>1, <2>1
    DEF StartCall, Remembered, KnownTables, FreshTables, ReplayInOrder, OpenWaitsNoMore
<1>2. CASE Uncorrectable
  <2>1. Relock \/ UNCHANGED <<gate, received, validator, callStart, lastBad>>
    BY <1>2 DEF Uncorrectable
  <2> QED
    BY <2>1, RelockForgets
    DEF Remembered, KnownTables, FreshTables, ReplayInOrder, OpenWaitsNoMore
<1>3. CASE BrokenPacket
  <2>1. CASE Relock
    BY <2>1, RelockForgets
  <2>2. CASE ~Relock
    <3>1. /\ mode.live /\ enabled /\ UNCHANGED <<gate, callStart>> /\ lastBad' = lastBad
          /\ received \in Nat /\ received' = received + 1
      BY <1>3, <2>2, PacketsKnown DEF BrokenPacket, RelockUnlessLive, Receive
    <3>2. \A i \in DOMAIN config : config[i].id \in Nat
      BY PacketsKnown
    <3>3. ReplayInOrder'
      BY <3>1, <3>2 DEF Remembered, ReplayInOrder
    <3> QED
      BY <3>1, <3>3 DEF Remembered, KnownTables, FreshTables, OpenWaitsNoMore
  <2> QED BY <2>1, <2>2
<1>4. CASE GoodPacket
  BY <1>4, GoodArrives, ArrivesRemembered
<1>5. CASE EndCall \/ UNCHANGED vars
  BY <1>5
  DEF EndCall, vars, Remembered, KnownTables, FreshTables, ReplayInOrder, OpenWaitsNoMore
<1> QED
  BY <1>1, <1>2, <1>3, <1>4, <1>5 DEF Next

(* A gate opens with a whole packet, and what it then puts into the buffer  *)
(* begins with the tables and the replay.                                   *)
LEMMA OpeningStep ==
  ASSUME Typed, ~enabled, enabled', [Next]_vars
  PROVE  \E p, nals, opens, itself :
           /\ Arrives(p, nals, opens, itself) /\ opens
           /\ LET all == <<pat', pmt'>> \o config' \o itself
              IN  /\ put' \in Seq(Packets) /\ Len(put') <= Len(all)
                  /\ put' = all \/ pc' = "leave"
                  /\ \A i \in 1 .. Len(put') : put'[i] = all[i]
<1> USE DEF gate, history
<1>1. GoodPacket
  BY DEF Next, StartCall, Uncorrectable, BrokenPacket, RelockUnlessLive, Relock, EndCall, vars
<1>2. PICK p, nals, opens, itself : Arrives(p, nals, opens, itself)
  BY <1>1, GoodArrives
<1>3. opens
  BY <1>2 DEF Arrives
<1> DEFINE all == <<pat', pmt'>> \o config' \o itself
<1>4. all \in Seq(Packets) /\ held \in 0 .. Burst /\ Write(all)
  BY <1>2, <1>3, ArrivesTypes DEF Arrives, Passing
<1> HIDE DEF all
<1>5. /\ put' \in Seq(Packets) /\ Len(put') <= Len(all)
      /\ put' = all \/ pc' = "leave"
      /\ \A i \in 1 .. Len(put') : put'[i] = all[i]
  BY <1>4, WriteKeeps DEF Typed, TypeOK
<1> QED
  BY <1>2, <1>3, <1>5 DEF all

(* The step that opens the output.                                          *)
LEMMA StepOpensFresh ==
  ASSUME Typed, Remembered, [Next]_vars, ~enabled, enabled'
  PROVE  /\ Len(put') >= 2 \/ pc' = "leave"
         /\ \A i \in DOMAIN put' : i <= 2 => put'[i].kind = <<"pat", "pmt">>[i]
                                             /\ put'[i].id > callStart
<1>1. PICK p, nals, opens, itself :
           /\ Arrives(p, nals, opens, itself) /\ opens
           /\ LET all == <<pat', pmt'>> \o config' \o itself
              IN  /\ put' \in Seq(Packets) /\ Len(put') <= Len(all)
                  /\ put' = all \/ pc' = "leave"
                  /\ \A i \in 1 .. Len(put') : put'[i] = all[i]
  BY OpeningStep
<1> DEFINE all == <<pat', pmt'>> \o config' \o itself
<1>2. /\ Len(all) = 2 + Len(config') + Len(itself) /\ all[1] = pat' /\ all[2] = pmt'
      /\ Len(config') \in Nat /\ Len(itself) \in Nat
  BY <1>1, ArrivesTypes, Opening, LenProperties
<1>3. /\ put' \in Seq(Packets) /\ Len(put') <= Len(all)
      /\ put' = all \/ pc' = "leave"
      /\ \A i \in 1 .. Len(put') : put'[i] = all[i]
      /\ DOMAIN put' = 1 .. Len(put') /\ Len(put') \in Nat
  BY <1>1, LenProperties
<1> HIDE DEF all
<1>4. /\ pat'.kind = "pat" /\ pmt'.kind = "pmt" /\ pat'.id > callStart /\ pmt'.id > callStart
  <2>1. /\ p.id = received + 1 /\ p.id > callStart
        /\ validator'.pat = (validator.pat \/ p.kind = "pat")
        /\ validator'.pmt = (validator.pmt \/ (p.kind = "pmt" /\ validator.pat))
        /\ pat' = (IF p.kind = "pat" THEN p ELSE pat)
        /\ pmt' = (IF p.kind = "pmt" /\ validator.pat THEN p ELSE pmt)
        /\ pat' # NoPacket /\ pmt' # NoPacket /\ validator'.pat /\ validator'.pmt
    BY <1>1, ObservedType, PacketsKnown DEF Arrives
  <2> QED
    BY <2>1 DEF Remembered, KnownTables, FreshTables
<1>5. ASSUME NEW i \in DOMAIN put', i <= 2
      PROVE  put'[i].kind = <<"pat", "pmt">>[i] /\ put'[i].id > callStart
  <2>1. i = 1 \/ i = 2
    BY <1>3, <1>5
  <2> QED
    BY <1>2, <1>3, <1>4, <2>1
<1> QED
  BY <1>2, <1>3, <1>5

(* The output opens with a PAT and a PMT of the call in progress, however   *)
(* many calls and broken packets came before.                               *)
THEOREM TablesAreFresh == Spec => OpensOnFreshTables
<1>1. Typed /\ Remembered /\ [Next]_vars
        => [~enabled /\ enabled' =>
              /\ Len(put') >= 2 \/ pc' = "leave"
              /\ \A i \in DOMAIN put' : i <= 2 => put'[i].kind = <<"pat", "pmt">>[i]
                                                  /\ put'[i].id > callStart]_vars
  BY StepOpensFresh
<1> QED
  BY InitTyped, StepTyped, InitRemembered, StepRemembered, <1>1, PTL
  DEF Spec, OpensOnFreshTables

(* The step that replays the configuration.                                 *)
LEMMA StepReplaysUnbroken ==
  ASSUME Typed, Remembered, Remembered', [Next]_vars, ~enabled, enabled'
  PROVE  \A i, j \in DOMAIN put' : 2 < i /\ i < j =>
           lastBad < put'[i].id /\ put'[i].id <= put'[j].id
<1>1. PICK p, nals, opens, itself :
           /\ Arrives(p, nals, opens, itself) /\ opens
           /\ LET all == <<pat', pmt'>> \o config' \o itself
              IN  /\ put' \in Seq(Packets) /\ Len(put') <= Len(all)
                  /\ put' = all \/ pc' = "leave"
                  /\ \A i \in 1 .. Len(put') : put'[i] = all[i]
  BY OpeningStep
<1> DEFINE all == <<pat', pmt'>> \o config' \o itself
<1>2. /\ Len(all) = 2 + Len(config') + Len(itself)
      /\ \A i \in 3 .. 2 + Len(config') : all[i] = config'[i - 2]
      /\ \A i \in 3 + Len(config') .. Len(all) : all[i] = itself[i - 2 - Len(config')]
      /\ Len(config') \in Nat /\ Len(itself) \in Nat
      /\ config' \in Seq(Packets) /\ DOMAIN config' = 1 .. Len(config')
      /\ Len(itself) <= 1 /\ \A i \in 1 .. Len(itself) : itself[i] = p
  <2>1. itself \in {<<>>, <<p>>}
    BY <1>1 DEF Arrives
  <2>2. Len(itself) <= 1 /\ \A i \in 1 .. Len(itself) : itself[i] = p
    <3>1. CASE itself = <<>>
      BY <3>1
    <3>2. CASE itself = <<p>>
      BY <3>2
    <3> QED BY <2>1, <3>1, <3>2
  <2>3. /\ pat' \in Packets /\ pmt' \in Packets
        /\ config' \in Seq(Packets) /\ itself \in Seq(Packets)
    BY <1>1, ArrivesTypes
  <2>4. /\ Len(config') \in Nat /\ Len(itself) \in Nat
        /\ DOMAIN config' = 1 .. Len(config')
    BY <2>3, LenProperties
  <2>5. /\ Len(all) = 2 + Len(config') + Len(itself)
        /\ \A i \in 3 .. 2 + Len(config') : all[i] = config'[i - 2]
        /\ \A i \in 3 + Len(config') .. Len(all) : all[i] = itself[i - 2 - Len(config')]
    BY <2>3, Opening
  <2> QED
    BY <2>2, <2>3, <2>4, <2>5
<1>3. /\ put' \in Seq(Packets) /\ Len(put') <= Len(all)
      /\ \A i \in 1 .. Len(put') : put'[i] = all[i]
      /\ DOMAIN put' = 1 .. Len(put') /\ Len(put') \in Nat
  BY <1>1, LenProperties
<1> HIDE DEF all
<1>4. lastBad' = lastBad /\ p.id = received + 1 /\ received' = received + 1 /\ p.id \in Nat
  BY <1>1, ObservedType, PacketsKnown DEF Arrives
<1>5. /\ \A i \in DOMAIN config' : lastBad < config'[i].id /\ config'[i].id <= p.id
      /\ \A i, j \in DOMAIN config' : i <= j => config'[i].id <= config'[j].id
  BY <1>4 DEF Remembered, ReplayInOrder
<1>6. ASSUME NEW i \in DOMAIN put', NEW j \in DOMAIN put', 2 < i, i < j
      PROVE  lastBad < put'[i].id /\ put'[i].id <= put'[j].id
  <2>1. /\ i \in Nat /\ j \in Nat /\ j <= 3 + Len(config')
        /\ i - 2 \in DOMAIN config' /\ put'[i] = config'[i - 2]
    BY <1>2, <1>3, <1>6
  <2>2. CASE j <= 2 + Len(config')
    <3>1. j - 2 \in DOMAIN config' /\ put'[j] = config'[j - 2] /\ i - 2 <= j - 2
      BY <1>2, <1>3, <1>6, <2>1, <2>2
    <3> QED BY <1>5, <2>1, <3>1
  <2>3. CASE j = 3 + Len(config')
    <3>1. j - 2 - Len(config') = 1 /\ 1 \in 1 .. Len(itself) /\ j \in 3 + Len(config') .. Len(all)
      BY <1>2, <1>3, <1>6, <2>1, <2>3
    <3>2. put'[j] = p
      BY <1>2, <1>3, <3>1
    <3> QED BY <1>5, <2>1, <3>2
  <2> QED BY <1>2, <2>1, <2>2, <2>3
<1> QED BY <1>6

(* What the gate replays behind the tables came in order and after the last *)
(* broken packet, wherever a refused burst cuts it off.                     *)
THEOREM ReplayIsUnbroken == Spec => ReplaysOnlyUnbroken
<1>1. Typed /\ Remembered /\ Remembered' /\ [Next]_vars
        => [~enabled /\ enabled' =>
              \A i, j \in DOMAIN put' : 2 < i /\ i < j =>
                lastBad < put'[i].id /\ put'[i].id <= put'[j].id]_vars
  BY StepReplaysUnbroken
<1> QED
  BY InitTyped, StepTyped, InitRemembered, StepRemembered, <1>1, PTL
  DEF Spec, ReplaysOnlyUnbroken

(* A live output, once open, stays open through errors and calls.           *)
THEOREM LiveOutputStaysOpen == Spec => LiveStaysOpen
<1>1. [Next]_vars => [mode.live /\ enabled => enabled']_vars
  <2> SUFFICES ASSUME Next, mode.live, enabled PROVE enabled'
    BY DEF vars
  <2>1. CASE StartCall \/ Uncorrectable \/ BrokenPacket \/ EndCall
    BY <2>1 DEF StartCall, Uncorrectable, BrokenPacket, RelockUnlessLive, EndCall, gate
  <2>2. CASE GoodPacket
    BY <2>2 DEF GoodPacket
  <2> QED BY <2>1, <2>2 DEF Next
<1> QED
  BY <1>1, PTL DEF Spec, LiveStaysOpen
=============================================================================
