-------------------------- MODULE MCBatchProcessor --------------------------
(***************************************************************************)
(* Model checking of BatchProcessor: the messages of one session, with a   *)
(* text that comes twice, or the messages of two sessions.                 *)
(***************************************************************************)
EXTENDS BatchProcessor, TLC

CONSTANTS s1, s2, m1, m2, m3, t1, t2

OneSession == [m \in Msg |-> s1]

Sessions == [m \in Msg |-> IF m = m3 THEN s2 ELSE s1]

RepeatedText == [m \in Msg |-> IF m = m1 THEN t1 ELSE t2]

\* m2 and m3 have the same text and session in OneSession with RepeatedText.
Symmetry ==
  {h @@ p : h \in Permutations(Handler), p \in Permutations({m2, m3})}
=============================================================================
