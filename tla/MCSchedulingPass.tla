-------------------------- MODULE MCSchedulingPass --------------------------
EXTENDS SchedulingPass, TLC
CONSTANTS a1, a2, b1, b2, d1
MCAccounts == {a1, a2}
MCSortKey == a1 :> 1 @@ a2 :> 2
MCBodies == {b1, b2}
MCTexts == {d1}
MCDescription == b1 :> d1
=============================================================================
