----------------------------- MODULE MCFrontend -----------------------------
(* The receiver's front on small instances.  The parts share no state here, *)
(* so a behaviour looks at one of them: arguments and the samples of chunks *)
(* (ReceiverLoop), the ring and the sample clock (IqRing), or the frontend  *)
(* chunk by chunk (OfdmFrontend).                                           *)
EXTENDS ReceiverLoop, IqRing, OfdmFrontend

VARIABLE part
frontendVars == <<receiverVars, vars, ofdmVars, part>>

FrontendInit ==
  /\ part \in {"loop", "ring", "ofdm"}
  /\ ReceiverInit
  /\ Init
  /\ OfdmInit
  /\ part # "ofdm" => here = 0 /\ afc = FALSE

RingStep(A) == part = "ring" /\ A /\ UNCHANGED <<receiverVars, ofdmVars, part>>

FrontendNext ==
  \/ part = "loop" /\ ReceiverNext /\ UNCHANGED <<vars, ofdmVars, part>>
  \/ RingStep(Next)
  \/ part = "ofdm" /\ OfdmNext /\ UNCHANGED <<receiverVars, vars, part>>

FrontendSpec ==
  /\ FrontendInit /\ [][FrontendNext]_frontendVars
  /\ WF_frontendVars(RingStep(FrontendStep))
=============================================================================
