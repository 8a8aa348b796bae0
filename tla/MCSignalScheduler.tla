-------------------------- MODULE MCSignalScheduler --------------------------
(***************************************************************************)
(* Model checking of SignalScheduler: four signals of two users, whose     *)
(* weights reach each of the three verdicts.                               *)
(***************************************************************************)
EXTENDS SignalScheduler, TLC

CONSTANTS s1, s2, s3, s4, u1, u2

SomeWeights == s1 :> 60 @@ s2 :> 60 @@ s3 :> 100 @@ s4 :> 150

SomeSessions == s1 :> u1 @@ s2 :> u2 @@ s3 :> u1 @@ s4 :> u2
=============================================================================
