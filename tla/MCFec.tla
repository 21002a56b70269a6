-------------------------------- MODULE MCFec --------------------------------
(* The stages of the inner and outer FEC on small instances.  They share no *)
(* state here, so a behaviour looks at one of them: the inner decoder       *)
(* (InnerStream), the outer decoder byte by byte (OuterStream), its         *)
(* Reed-Solomon decoder (ReedSolomon) or the cadence it keeps from job to   *)
(* job (OuterFec).                                                          *)
EXTENDS OuterFec, InnerStream, OuterStream, ReedSolomon, Carriers

\* A code of the same make with a register of two bits.
MCTapsX == {0, 2}
MCTapsY == {0, 1, 2}
\* A permutation that is not its own inverse.
MCPerm == [i \in 0 .. Cells - 1 |-> (5 * i + 1) % Cells]
MCTraceback == [r \in Rates |-> IF r = "1/2" THEN 2 ELSE 3]
MCPayloads ==
  {[i \in 1 .. 2 * Cells |-> ((i * i * p + i \div 3 + p) \div 2) % 2] : p \in {1, 2}}
MCBadCells == {None, 7}
MCMessages == {<<0, 0>>, <<3, 6>>}

(* The tables of the 2K mode (Carriers) at full size: each of the four kinds *)
(* of symbol has as many data carriers as cells; no carrier has two roles    *)
(* but the continual pilots that are scattered pilots at times, so the order *)
(* in which the code asks does not matter; every cell is read from one place *)
(* and every place read; no carrier lies outside the FFT; and no eleven      *)
(* carriers in a row have the signs of eleven others, so a scan that is off  *)
(* by some bins cannot take one stretch of pilots for another.               *)
ASSUME CarrierTables ==
  /\ \A symbol \in 0 .. 3 : Cardinality(DataCarriers(symbol)) = DataCells
  /\ \A symbol \in 0 .. 3 : TpsCarriers \cap (ScatteredPilots(symbol) \cup ContinualPilots) = {}
  /\ LET interleaver == SymbolInterleaver
     IN  {interleaver[q] : q \in 0 .. DataCells - 1} = 0 .. DataCells - 1
  /\ \A k \in ActiveCarriers : LogicalToFftBin(k) \in 0 .. FftSize - 1
  /\ LET signs == PilotSigns
     IN  Cardinality({[i \in 0 .. 10 |-> signs[k + i]] : k \in 0 .. 1694}) = 1695

VARIABLE stage
fecVars == <<vars, innerVars, streamVars, rsVars, stage>>

FecInit ==
  /\ stage \in {"inner", "outer", "block", "cadence"}
  /\ Init
  /\ InnerInit
  /\ stage # "inner" => rate = (CHOOSE r \in Rates : TRUE) /\ index = 0 /\ encoder = 0
  /\ StreamInit
  /\ stage # "outer" => sent = Min(Starts)
  /\ RsInit
  /\ stage # "block" => sentBlock = Encoded(<<0, 0>>)

FecNext ==
  \/ stage = "inner" /\ InnerNext /\ UNCHANGED <<vars, streamVars, rsVars, stage>>
  \/ stage = "outer" /\ StreamNext /\ UNCHANGED <<vars, innerVars, rsVars, stage>>
  \/ stage = "block" /\ Disturb /\ UNCHANGED <<vars, innerVars, streamVars, stage>>
  \/ stage = "cadence" /\ Next /\ UNCHANGED <<innerVars, streamVars, rsVars, stage>>

FecSpec == FecInit /\ [][FecNext]_fecVars
=============================================================================
