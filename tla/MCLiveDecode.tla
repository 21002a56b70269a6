---------------------------- MODULE MCLiveDecode ----------------------------
(* LiveDecode on a small instance.                                          *)
EXTENDS LiveDecode
=============================================================================
