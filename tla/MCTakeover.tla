----------------------------- MODULE MCTakeover -----------------------------
(* Constants of Takeover for TLC.  Workers of role B are interchangeable: the *)
(* choices of Takeover pick checkpoints by their ids, never workers.          *)
EXTENDS Takeover, TLC

CONSTANTS a, b, c

TakersOver == Permutations({b, c})
=============================================================================
