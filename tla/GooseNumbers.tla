----------------------------- MODULE GooseNumbers -----------------------------
(* The numbers stNum and sqNum of GOOSE frames: u32, with wrapping addition.*)
EXTENDS Naturals

CONSTANT Counters  \* how many numbers there are: 2^32

ASSUME CountersAssumption == Counters \in Nat \ {0, 1}

Wrapping(n) == (n + 1) % Counters
=============================================================================
