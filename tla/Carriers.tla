------------------------------- MODULE Carriers -------------------------------
(***************************************************************************)
(* The carriers of a DVB-T symbol in 2K mode and its symbol interleaver,   *)
(* src/src/dvbt_2k_model.c, at full size: the tables are small and there   *)
(* is but one of each, so there is nothing to choose.  InnerStream takes   *)
(* any permutation for the interleaver; that this one is a permutation,    *)
(* and that every symbol has as many data carriers as it has places, is    *)
(* evaluated in MCFec.                                                     *)
(***************************************************************************)
EXTENDS Integers, Sequences, SequencesExt, FiniteSets, Functions

FftSize == 2048
ActiveCarriers == 0 .. 1704
DataCells == 1512
FftStartBin == 172

\* continual_pilots_2k
ContinualPilots ==
  {0, 48, 54, 87, 141, 156, 192, 201, 255, 279, 282, 333, 432, 450, 483, 525, 531, 618,
   636, 714, 759, 765, 780, 804, 873, 888, 918, 939, 942, 969, 984, 1050, 1101, 1107, 1110,
   1137, 1140, 1146, 1206, 1269, 1323, 1377, 1491, 1683, 1704}

\* tps_carriers_2k
TpsCarriers ==
  {34, 50, 209, 346, 413, 569, 595, 688, 790, 901, 1073, 1219, 1262, 1286, 1469, 1594, 1687}

\* Every twelfth carrier but the last, three further in each symbol of four
ScatteredPilots(symbol) ==
  {k \in ActiveCarriers \ {1704} : k >= 3 * (symbol % 4) /\ (k - 3 * (symbol % 4)) % 12 = 0}

\* What rbdvbt_dvbt_2k_carrier_role leaves for data
DataCarriers(symbol) ==
  ActiveCarriers \ (TpsCarriers \cup ScatteredPilots(symbol) \cup ContinualPilots)

LogicalToFftBin(k) == IF k \in ActiveCarriers THEN FftStartBin + k ELSE FftSize

-----------------------------------------------------------------------------
(* Shift registers.                                                        *)

BitNr(n, i) == (n \div 2^i) % 2

\* A register of `width' bits moves right; what comes in on the left is the
\* sum of its last bit and bit `tap'.
Shifted(reg, width, tap) ==
  reg \div 2 + IF BitNr(reg, 0) # BitNr(reg, tap) THEN 2^(width - 1) ELSE 0

\* The states of the register from the first on, in rows of 32
Run(first, width, tap, rows) ==
  LET After(seq, i) == Append(seq, Shifted(Last(seq), width, tap))
      RowAfter(reg) == Tail(FoldLeft(After, <<reg>>, [i \in 1 .. 32 |-> i]))
  IN  FoldLeft(LAMBDA seq, r : seq \o RowAfter(Last(seq)), <<first>>,
               [r \in 1 .. rows |-> r])

\* prbs_2k: a pilot has its sign from the last bit
PilotSigns ==
  LET reg == Run(2047, 11, 2, 54)
  IN  [k \in ActiveCarriers |-> IF BitNr(reg[k + 1], 0) = 1 THEN -1 ELSE 1]

\* permutate_bits_2k: where each bit goes
BitPlace == <<4, 3, 9, 6, 2, 8, 1, 5, 7, 0>>
PermutedBits(n) ==
  FoldLeft(LAMBDA sum, b : sum + BitNr(n, b - 1) * 2^BitPlace[b], 0, [b \in 1 .. 10 |-> b])

\* build_symbol_interleaver: two zeros, then the register from 1 on, its bits
\* permuted and the highest taken from the place in the row; what names a data
\* cell is kept.
Addresses ==
  LET reg == <<0, 0>> \o Run(1, 10, 3, FftSize \div 32)
  IN  [i \in 1 .. FftSize |-> ((i - 1) % 2) * 1024 + PermutedBits(reg[i])]

SymbolInterleaver ==
  LET kept == SelectSeq(Addresses, LAMBDA a : a < DataCells)
  IN  [q \in 0 .. DataCells - 1 |-> kept[q + 1]]
=============================================================================
