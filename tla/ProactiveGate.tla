---------------------------- MODULE ProactiveGate ----------------------------
(***************************************************************************)
(* What the reply coordinator amounts to for its callers, with the queue   *)
(* of waiters, the cancellations and the asyncio futures hidden: a permit  *)
(* per lock that nobody owns.  A send takes the permit of a group that is  *)
(* open to proactive replies and puts it back when it ends; a refusal in a *)
(* group that is shut may put back a permit that is not its own.           *)
(***************************************************************************)
CONSTANTS Group, Reply, Lock

VARIABLES
  shut,    \* groups with a normal reply pending or just sent
  free,    \* locks whose permit is available
  sends    \* pairs <<task, lock>>: the sends in progress

gateVars == <<shut, free, sends>>

GateInit == shut = {} /\ free = Lock /\ sends = {}

ShutOrOpen == shut' \in SUBSET Group /\ UNCHANGED <<free, sends>>

Begin(p, l) ==
  /\ l \in free
  /\ l[1] \notin shut
  /\ \A k \in Lock : <<p, k>> \notin sends
  /\ free' = free \ {l}
  /\ sends' = sends \cup {<<p, l>>}
  /\ UNCHANGED shut

End(p, l) ==
  /\ <<p, l>> \in sends
  /\ free' = free \cup {l}
  /\ sends' = sends \ {<<p, l>>}
  /\ UNCHANGED shut

StrayRelease(l) ==
  /\ l[1] \in shut
  /\ free' = free \cup {l}
  /\ UNCHANGED <<shut, sends>>

GateNext ==
  \/ ShutOrOpen
  \/ \E l \in Lock : StrayRelease(l)
  \/ \E l \in Lock, p \in Reply : Begin(p, l) \/ End(p, l)

GateSpec == GateInit /\ [][GateNext]_gateVars
=============================================================================
