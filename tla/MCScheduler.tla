---------------------------- MODULE MCScheduler ----------------------------
EXTENDS Scheduler, TLC
CONSTANTS a1, a2, b1, b2, d1
MCAccounts == {a1, a2}
MCBodies == {b1, b2}
MCTexts == {d1}
MCDescription == b1 :> d1
Symmetry == Permutations(MCAccounts)
=============================================================================
