--------------------------- MODULE MCEffectOutbox ---------------------------
(* Instances of EffectOutbox for TLC. *)
EXTENDS EffectOutbox, TLC

CONSTANTS w1, w2, t1

\* Workers are interchangeable.
WorkerSymmetry == Permutations(Workers)

=============================================================================
