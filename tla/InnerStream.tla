----------------------------- MODULE InnerStream -----------------------------
(***************************************************************************)
(* The inner decoder between FIFO1 and FIFO2 (src/probe_constellation.c):  *)
(* bit and symbol deinterleaver, depuncturing and Viterbi decoder, one     *)
(* step per pair of the mother code.  Rates 1/2 and 2/3 run as one stream  *)
(* across slices: a ring of survivor rows, from which one byte at a time   *)
(* is traced back (live_viterbi_stream).  The other rates decode every     *)
(* slice by itself (decode_viterbi_bytes).                                 *)
(*                                                                         *)
(* The transmitter is the environment: it sends bits of its choice through *)
(* the encoder, the puncturing and the interleavers of EN 300 744.  What   *)
(* it has sent and the receiver has not delivered yet is kept in `due', so *)
(* that each byte put into FIFO2 can be held against the bits sent there.  *)
(* Costs are 0 and 1: how well a value fits a bit.                         *)
(***************************************************************************)
EXTENDS Integers, Sequences, SequencesExt, FiniteSets, FiniteSetsExt, TLC

CONSTANTS
  Memory,         \* bits of the encoder's register before the newest one (6)
  TapsX, TapsY,   \* the bits of the register that X and Y add up
  ByteBits,       \* bits of a byte (8)
  Cells,          \* data cells of a symbol (1512)
  Block,          \* cells the bit interleaver works on (126)
  Perm,           \* the symbol interleaver's permutation of the cells
  Rates,          \* the inner code rates looked at
  TracebackBytes, \* rate -> how far the stream's decisions lag, in bytes
  Payloads,       \* what a symbol may carry: functions from bit number to bit
  BadCells,       \* which cell of a symbol may come in wrong; None for none
  SliceSymbols    \* symbols the worker decodes at once (64)

None == -1
States == 0 .. 2^Memory - 1
Streamed == {"1/2", "2/3"}

\* For each pair of the mother code, where its X and its Y are found among the
\* bits of a group of dibits, two to a dibit; None for a bit not sent.
PairTable ==
  [r \in Rates |->
     CASE r = "1/2" -> <<<<0, 1>>>>
       [] r = "2/3" -> <<<<0, 1>>, <<None, 2>>, <<3, 4>>, <<None, 5>>>>
       [] r = "3/4" -> <<<<0, 1>>, <<None, 2>>, <<3, None>>>>
       [] r = "5/6" -> <<<<0, 1>>, <<None, 2>>, <<3, None>>, <<None, 4>>,
                         <<5, None>>>>
       [] r = "7/8" -> <<<<0, 1>>, <<None, 2>>, <<None, 3>>, <<None, 4>>,
                         <<5, None>>, <<None, 6>>, <<7, None>>>>]

GroupIn == [r \in Rates |->
  CASE r = "1/2" -> 1 [] r \in {"2/3", "5/6"} -> 3 [] r = "3/4" -> 2
    [] r = "7/8" -> 4]

PairCount(r) == (Cells \div GroupIn[r]) * Len(PairTable[r])
TracebackBits(r) == TracebackBytes[r] * ByteBits
HistoryLen(r) == TracebackBits(r) + ByteBits

ASSUME InnerAssumption ==
  /\ {Memory, ByteBits, Cells, Block, SliceSymbols} \subseteq Nat \ {0}
  /\ TapsX \cup TapsY \subseteq 0 .. Memory
  /\ Block % 2 = 0 /\ Cells % Block = 0
  /\ Perm \in [0 .. Cells - 1 -> 0 .. Cells - 1]
  /\ \A i, j \in 0 .. Cells - 1 : Perm[i] = Perm[j] => i = j
  /\ \A r \in Rates : Cells % GroupIn[r] = 0

(***************************************************************************)
(* The code.                                                               *)
(***************************************************************************)
Bit(n, i) == (n \div 2^i) % 2
Parity(reg, taps) == Cardinality({i \in taps : Bit(reg, i) = 1}) % 2

\* dvbt_conv_parity_for_state: X and Y of a full register
Expected ==
  [reg \in 0 .. 2^(Memory + 1) - 1 |->
     [x |-> Parity(reg, TapsX), y |-> Parity(reg, TapsY)]]

\* viterbi_init_tables: the two registers that lead into a state
Reg(next, pred) == 2 * next + pred
Prev(next, pred) == Reg(next, pred) % 2^Memory
BitOf(state) == Bit(state, Memory - 1)

PermBack == AntiFunction(Perm)

\* dvbt2k_symbol_deinterleave_complex: even symbols are read, odd ones written
\* through the permutation.
SymbolDeinterleave(index, cells) ==
  [i \in 0 .. Cells - 1 |->
     IF index % 2 = 0 THEN cells[Perm[i]]
                      ELSE cells[PermBack[i]]]

\* dvbt_qpsk_bit_deinterleave_block: in each block the second bits were
\* turned by half a block.
BitDeinterleave(cells) ==
  [i \in 0 .. Cells - 1 |->
     LET base == (i \div Block) * Block
         turned == base + ((i - base + Block \div 2) % Block)
     IN  <<cells[i][1], cells[turned][2]>>]

\* dvbt_depuncture_dibits_into_costs
Depuncture(r, dibits) ==
  LET table == PairTable[r]
      Source(group, k) ==
        IF k = None THEN None
        ELSE dibits[group * GroupIn[r] + (k \div 2)][1 + (k % 2)]
  IN  [p \in 1 .. PairCount(r) |->
         LET group == (p - 1) \div Len(table)
             pair == table[1 + ((p - 1) % Len(table))]
         IN  [x |-> Source(group, pair[1]), y |-> Source(group, pair[2])]]

Cost(value, bit) == IF value \in {None, bit} THEN 0 ELSE 1
PairCost(pair, e) == Cost(pair.x, e.x) + Cost(pair.y, e.y)

\* Add, compare, select for one pair: the metrics after it, the row that tells
\* for each state which predecessor survives, and the best state.
Acs(old, pair) ==
  LET metric == [n \in States |->
                   [p \in 0 .. 1 |->
                      old[Prev(n, p)] + PairCost(pair, Expected[Reg(n, p)])]]
      row == [n \in States |-> IF metric[n][1] < metric[n][0] THEN 1 ELSE 0]
      chosen == [n \in States |-> metric[n][row[n]]]
      least == Min({chosen[n] : n \in States})
  IN  [metrics |-> [n \in States |-> chosen[n] - least],
       row     |-> row,
       best    |-> Min({n \in States : chosen[n] = least})]

\* The state `back' steps before the one after step `last', along the survivors.
StatesBack(rows, len, last, best, back) ==
  LET f[k \in 0 .. back] ==
        IF k = 0 THEN best
        ELSE LET state == f[k - 1]
             IN  Prev(state, rows[(last - (k - 1)) % len][state])
  IN  f

\* The bits of steps first..last when the path ends in `best' after step `end'.
Traceback(rows, len, end, best, first, last) ==
  LET path == StatesBack(rows, len, end, best, end - first + 1)
  IN  [k \in 1 .. last - first + 1 |-> BitOf(path[end - first - k + 1])]

-----------------------------------------------------------------------------
(***************************************************************************)
(* The transmitter.                                                        *)
(***************************************************************************)
\* Which of the X and Y of a period are sent.
Kept ==
  [r \in Rates |->
     CASE r = "1/2" -> <<"xy">>
       [] r = "2/3" -> <<"xy", "y">>
       [] r = "3/4" -> <<"xy", "y", "x">>
       [] r = "5/6" -> <<"xy", "y", "x", "y", "x">>
       [] r = "7/8" -> <<"xy", "y", "y", "y", "x", "y", "x">>]

Shift(register, bit) == (bit * 2^Memory + register) \div 2

\* The registers while `bits' go in, the last one being what is left behind.
Registers(register, bits) ==
  LET f[k \in 0 .. Len(bits)] ==
        IF k = 0 THEN register ELSE Shift(f[k - 1], bits[k])
  IN  f

CodedBits(r, register, bits) ==
  LET f == Registers(register, bits)
      Sent(k) == LET e == Expected[bits[k] * 2^Memory + f[k - 1]]
                     kept == Kept[r][1 + ((k - 1) % Len(Kept[r]))]
                 IN  CASE kept = "xy" -> <<e.x, e.y>>
                       [] kept = "x" -> <<e.x>>
                       [] kept = "y" -> <<e.y>>
  IN  FlattenSeq([k \in 1 .. Len(bits) |-> Sent(k)])

\* Two bits to a cell, the second ones turned by half a block, then the cells
\* moved as the symbol's number asks for.
Transmitted(r, i, register, bits) ==
  LET coded == CodedBits(r, register, bits)
      Turned(c) == (c \div Block) * Block + ((c + Block \div 2) % Block)
      cell == [c \in 0 .. Cells - 1 |->
                 <<coded[2 * c + 1], coded[2 * Turned(c) + 2]>>]
  IN  [c \in 0 .. Cells - 1 |->
         IF i % 2 = 0 THEN cell[PermBack[c]]
                      ELSE cell[Perm[c]]]

\* The first bit of a cell is received wrong.
Disturbed(cells, bad) ==
  [c \in 0 .. Cells - 1 |->
     IF c = bad THEN <<1 - cells[c][1], cells[c][2]>> ELSE cells[c]]

-----------------------------------------------------------------------------
VARIABLES
  rate,     \* the rate the transmitter and the receiver are set to
  index,    \* number of the next symbol in its frame, modulo four
  encoder,  \* the transmitter's register
  left,     \* symbols of the slice still to come; None between slices
  pairs,    \* pairs of the current symbol still to be decoded
  streamValid,    \* live_viterbi_stream.valid
  steps,    \* pairs decoded since the start of the stream or of the slice
  metrics, rows,
  due,      \* what was sent since the last bit delivered
  place,    \* where `due' begins in a byte of the transmitter
  resetting, \* the frontend's reset has cleared `valid' and not yet the count
  cut,      \* what the last reset did to the bytes, and whether it lasts
  fifo2     \* the bytes of the last delivery, and what was sent there

rx == <<streamValid, steps, metrics, rows>>
innerVars == <<rate, index, encoder, left, pairs, streamValid, steps, metrics, rows, due,
          place, resetting, cut, fifo2>>

Cold == [n \in States |-> 0]
NoBytes == [got |-> <<>>, sent |-> <<>>, place |-> 0]
Uncut == [bytes |-> "right", lasts |-> FALSE]
Undefined == [k \in 1 .. ByteBits |-> None]
PlaceOf(i) == (i * PairCount(rate)) % ByteBits
\* Mutant: a ring as long as the traceback, without the rows of the byte.
RowsKeptShort(r) == IF r \in Streamed THEN TracebackBits(r)
                                      ELSE SliceSymbols * PairCount(r)
RowsKept(r) == IF r \in Streamed THEN HistoryLen(r)
                                 ELSE SliceSymbols * PairCount(r)

InnerInit ==
  /\ rate \in Rates
  /\ index \in 0 .. 3
  /\ encoder \in States
  /\ left = None /\ pairs = <<>>
  /\ streamValid = FALSE /\ steps = 0 /\ metrics = Cold /\ rows = <<>>
  /\ due = <<>> /\ place = PlaceOf(index)
  /\ resetting = FALSE /\ cut = Uncut
  /\ fifo2 = NoBytes

\* live_viterbi_stream_prepare, or the fresh buffers of decode_viterbi_bytes.
\* Rows of before are never read again and left out.
Prepare ==
  /\ streamValid' = (rate \in Streamed)
  /\ steps' = 0 /\ metrics' = Cold /\ rows' = <<>>

\* The worker takes the next slice; after a gap the symbols go on anywhere.
BeginSlice(continuous, n) ==
  /\ left = None
  /\ left' = n
  /\ fifo2' = NoBytes
  /\ IF continuous
     THEN UNCHANGED <<index, encoder>>
     ELSE index' \in 0 .. 3 /\ encoder' \in States
  /\ IF continuous /\ streamValid
     THEN UNCHANGED <<rx, due, place>> /\ cut' = (IF cut.lasts THEN cut ELSE Uncut)
     ELSE Prepare /\ due' = <<>> /\ place' = PlaceOf(index') /\ cut' = Uncut
  /\ UNCHANGED <<rate, pairs, resetting>>

\* dvbt_qpsk_inner_deinterleave_symbols_into and the depuncturing, for the
\* next symbol of the slice
ReceiveSymbol(payload, bad) ==
  /\ left \notin {None, 0} /\ pairs = <<>>
  /\ bad # None => rate \in Streamed
  /\ LET bits == SubSeq(payload, 1, PairCount(rate))
         cells == Disturbed(Transmitted(rate, index, encoder, bits), bad)
     IN  /\ pairs' = Depuncture(rate,
                                BitDeinterleave(SymbolDeinterleave(index, cells)))
         /\ encoder' = Registers(encoder, bits)[Len(bits)]
         /\ due' = due \o bits
  /\ left' = left - 1
  /\ index' = (index + 1) % 4
  /\ UNCHANGED <<rate, rx, place, resetting, cut, fifo2>>

EmitsAt(r, n) ==
  /\ r \in Streamed
  /\ n >= HistoryLen(r)
  /\ (n - TracebackBits(r)) % ByteBits = 0

\* One turn of the decoders' loop; the stream delivers a byte every eight.
\* The count of steps never wraps in the code.  Here the length of the ring is
\* taken off it once all rows are in use: neither the row a step falls on nor
\* its place in a byte changes, for the ring is a number of bytes long.
DecodePair ==
  /\ pairs # <<>>
  /\ pairs' = Tail(pairs)
  /\ LET acs == Acs(metrics, Head(pairs))
         n == steps + 1
         last == n - TracebackBits(rate) - 1
         ring == RowsKept(rate)
     IN  /\ metrics' = acs.metrics
         /\ rows' = (steps % ring :> acs.row) @@ rows
         /\ steps' = IF rate \in Streamed /\ n = HistoryLen(rate) + ring
                     THEN n - ring ELSE n
         /\ IF EmitsAt(rate, n)
            THEN /\ fifo2' = [got   |-> IF cut.bytes = "torn" THEN Undefined
                                       ELSE Traceback(rows', ring, steps, acs.best,
                                                      last - ByteBits + 1, last),
                              sent  |-> SubSeq(due, 1, ByteBits),
                              place |-> place]
                 /\ due' = SubSeq(due, ByteBits + 1, Len(due))
            ELSE fifo2' = NoBytes /\ UNCHANGED due
  /\ UNCHANGED <<rate, index, encoder, left, streamValid, place, resetting, cut>>

\* The slice is through.  decode_viterbi_bytes traces it back as a whole and
\* drops what does not fill a byte.
EndSlice ==
  /\ left = 0 /\ pairs = <<>>
  /\ left' = None
  /\ IF rate \in Streamed
     THEN fifo2' = NoBytes /\ UNCHANGED <<due, place>>
     ELSE LET best == Min({n \in States : metrics[n] = 0})
              bits == (steps \div ByteBits) * ByteBits
          IN  /\ fifo2' = [got   |-> Traceback(rows, RowsKept(rate), steps - 1,
                                               best, 0, bits - 1),
                           sent  |-> SubSeq(due, 1, bits),
                           place |-> place]
              /\ due' = <<>> /\ place' = PlaceOf(index)
  /\ UNCHANGED <<rate, index, encoder, pairs, rx, resetting, cut>>

\* live_viterbi_stream_reset
ViterbiReset == streamValid' = FALSE /\ steps' = 0 /\ UNCHANGED <<metrics, rows>>

\* Writing the slice fails: the job ends and the symbols left in it are lost.
SliceFails ==
  /\ left = 0 /\ pairs = <<>>
  /\ left' = None
  /\ ViterbiReset
  /\ index' \in 0 .. 3 /\ encoder' \in States
  /\ fifo2' = NoBytes
  /\ UNCHANGED <<rate, pairs, due, place, resetting, cut>>

\* live_soft_dibit_fifo_process resets the stream from the frontend's thread,
\* whatever the worker is at.  (Left out are a reset of what is reset already,
\* and a second one before the stream has been prepared anew: the count would
\* start again once more.)  First the stream is no longer valid nor its rate known,
\* and a stream prepared in between would be prepared once more,
StreamCut ==
  /\ rate \in Streamed /\ ~resetting /\ cut = Uncut
  /\ left # None \/ streamValid
  /\ streamValid' = FALSE /\ resetting' = TRUE
  /\ UNCHANGED <<rate, index, encoder, left, pairs, steps, metrics, rows, due, place,
                 cut, fifo2>>

\* then the count of steps starts again and the byte under construction is
\* empty.  The worker notices neither in its loop: it goes on with the metrics
\* it has, and counts bytes from where it is; rows of before are not read.  If
\* it has prepared the stream between the two, the stream stays that way.
CountFromHere(bytes) ==
  /\ steps' = 0 /\ rows' = <<>>
  /\ due' = SubSeq(due, Len(due) - Len(pairs) + 1, Len(due))
  /\ place' = (PlaceOf(index) - Len(pairs)) % ByteBits
  /\ cut' = [bytes |-> bytes, lasts |-> streamValid]

CutBetween ==
  /\ CountFromHere(IF cut.bytes = "torn" THEN "torn" ELSE "shifted")
  /\ UNCHANGED fifo2

\* The worker may be counting its step, and undo what it did not see;
CutUndone == pairs # <<>> /\ UNCHANGED <<steps, rows, due, place, cut, fifo2>>

\* or tracing back a byte, and find no row where it looks, nor the bits it has.
CutTorn ==
  /\ fifo2.got # <<>>
  /\ CountFromHere("torn")
  /\ fifo2' = [fifo2 EXCEPT !.got = Undefined]

StreamCutEnds ==
  /\ resetting /\ resetting' = FALSE
  /\ CutBetween \/ CutUndone \/ CutTorn
  /\ UNCHANGED <<rate, index, encoder, left, pairs, streamValid, metrics>>

InnerNext ==
  \/ \E continuous \in BOOLEAN, n \in 1 .. SliceSymbols : BeginSlice(continuous, n)
  \/ \E payload \in Payloads, bad \in BadCells : ReceiveSymbol(payload, bad)
  \/ DecodePair
  \/ EndSlice
  \/ SliceFails
  \/ StreamCut
  \/ StreamCutEnds

InnerSpec == InnerInit /\ [][InnerNext]_innerVars
-----------------------------------------------------------------------------
(* Each byte in FIFO2 is a byte of the transmitter, as the byte-wise search *)
(* for packets needs, unless a reset fell into the slice it is from, or into *)
(* the preparation of the stream it is from.                                 *)
BytesOnGrid == fifo2.got # <<>> /\ cut.bytes = "right" => fifo2.place = 0

(* BytesAreSent: whatever the slices and whenever the frontend resets the    *)
(* stream, the bytes put into FIFO2 are the bits sent at their place, one    *)
(* after the other across slices, even with a bit received wrong.  After a   *)
(* reset in mid-slice that goes for the bits only, for the bytes of the rest *)
(* of the slice are cut from them at another place, and not for a reset in   *)
(* the middle of a trace-back; but with the next slice both are right again. *)
(* And nothing is held back longer than the traceback.                       *)
BytesAreSent ==
  /\ cut.bytes # "torn" => fifo2.got = fifo2.sent
  /\ BytesOnGrid
  /\ streamValid /\ pairs = <<>> => Len(due) < HistoryLen(rate)
=============================================================================
