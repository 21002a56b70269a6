------------------------------ MODULE MCOutput ------------------------------
(* What a job of the decode worker leaves behind, on small instances: the   *)
(* packets that pass the output gate (TsGate), and the reports in the       *)
(* status file (Status).  They share no state here, so a behaviour looks at *)
(* one of them.                                                             *)
EXTENDS TsGate, Status

VARIABLE part
outputVars == <<vars, statusVars, part>>

OutputInit ==
  /\ part \in {"gate", "status"}
  /\ Init
  /\ part # "gate" => mode = CHOOSE m \in Modes : TRUE
  /\ StatusInit

OutputNext ==
  \/ part = "gate" /\ Next /\ UNCHANGED <<statusVars, part>>
  \/ part = "status" /\ StatusNext /\ UNCHANGED <<vars, part>>

OutputSpec == OutputInit /\ [][OutputNext]_outputVars
=============================================================================
