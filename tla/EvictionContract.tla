-------------------------- MODULE EvictionContract --------------------------
(***************************************************************************)
(* What an eviction policy (EvictionVtable) promises the buffer manager.   *)
(* The policy owns a set of buffers it may evict.  get_buffer claims one   *)
(* that nobody pins, notify_insert gives a claimed buffer back, and with   *)
(* every claimed buffer given back none is ever lost to the policy.        *)
(***************************************************************************)
CONSTANTS
  Buffers,       \* the buffers of the pool
  Backends,      \* the processes using it
  Unlinks,       \* whether a claimed buffer leaves the policy's queue
  LosesVictims,  \* whether backends drop victims without giving them back
  DropsInvalid   \* whether notify_invalidate takes buffers out of the queue

VARIABLES
  linked,   \* the buffers the policy may evict
  pins,     \* the buffers each backend has pinned
  victims   \* those it claimed and has not given back

vars == <<linked, pins, victims>>

Unpinned(b) == \A q \in Backends : b \notin pins[q]

Init ==
  /\ linked = Buffers
  /\ pins = [p \in Backends |-> {}]
  /\ victims = [p \in Backends |-> {}]

Take(p, b) ==
  /\ Unpinned(b)
  /\ pins' = [pins EXCEPT ![p] = @ \cup {b}]
  /\ victims' = [victims EXCEPT ![p] = @ \cup {b}]

Claim(p, b) ==
  /\ b \in linked
  /\ Take(p, b)
  /\ linked' = IF Unlinks THEN linked \ {b} ELSE linked

ClaimFromRing(p, b) == Take(p, b) /\ UNCHANGED linked

GiveBack(p, b) ==
  /\ b \in victims[p]
  /\ victims' = [victims EXCEPT ![p] = @ \ {b}]
  /\ linked' = linked \cup {b}
  /\ UNCHANGED pins

Lose(p, b) ==
  /\ LosesVictims
  /\ b \in victims[p]
  /\ victims' = [victims EXCEPT ![p] = @ \ {b}]
  /\ UNCHANGED <<linked, pins>>

Pin(p, b) ==
  /\ b \notin pins[p]
  /\ pins' = [pins EXCEPT ![p] = @ \cup {b}]
  /\ UNCHANGED <<linked, victims>>

Unpin(p, b) ==
  /\ b \in pins[p] \ victims[p]
  /\ pins' = [pins EXCEPT ![p] = @ \ {b}]
  /\ UNCHANGED <<linked, victims>>

Drop(b) ==
  /\ DropsInvalid
  /\ Unpinned(b)
  /\ linked' = linked \ {b}
  /\ UNCHANGED <<pins, victims>>

Next ==
  \E b \in Buffers :
    \/ Drop(b)
    \/ \E p \in Backends :
         \/ Claim(p, b) \/ ClaimFromRing(p, b) \/ GiveBack(p, b)
         \/ Lose(p, b) \/ Pin(p, b) \/ Unpin(p, b)

Spec == Init /\ [][Next]_vars
=============================================================================
