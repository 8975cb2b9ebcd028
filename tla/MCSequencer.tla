----------------------------- MODULE MCSequencer -----------------------------
(* Instances of Sequencer for TLC.                                         *)
EXTENDS SequencerInv

CONSTANT MaxStaged    \* staging objects: most are the remains of failed rounds

StagedBound == Cardinality(DOMAIN staging) <= MaxStaged

Symmetry == Permutations(Cert) \cup Permutations(Instances)
=============================================================================
