-------------------------- MODULE MCConsoleTruncate --------------------------
(* Commands near the truncation threshold (217 bytes) with at most one      *)
(* multi-byte character.                                                    *)
EXTENDS ConsoleTruncate

\* n characters, all ASCII but the p-th, which is w bytes wide.
Str(n, p, w) == [i \in 1..n |-> IF i = p THEN w ELSE 1]

\* The wide character placed across the cut at byte 100.
MCCutInputs ==
  {Str(n, p, w) : n \in 218..220, p \in 99..101, w \in 2..4}
=============================================================================
