-------------------------- MODULE MCLowPassFilter --------------------------
(***************************************************************************)
(* Model-checking instance of LowPassFilter; callers are model values.     *)
(***************************************************************************)
EXTENDS LowPassFilter

CONSTANTS c1, c2, c3, c4, c5

MCClients3 == {c1, c2, c3}
MCClients5 == {c1, c2, c3, c4, c5}
=============================================================================
