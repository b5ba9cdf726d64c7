------------------------------ MODULE MCUpdate ------------------------------
EXTENDS Ec2Update
CONSTANTS old, c, hb, hu, hr, a1, a2
MCCandidates == {c}
MCHelpers == {hb, hu, hr}
MCCidrs == {a1, a2}
MCBase == <<hb>>
MCBootstrap == <<hu>>
MCRecovery == <<hr>>
=============================================================================
