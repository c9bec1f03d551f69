--------------------------- MODULE MCListPolicies ---------------------------
(***************************************************************************)
(* LRU and LFU, one of which StrategyInitialize makes the active policy,   *)
(* over the same buffer manager.  With LRU either relations are dropped,   *)
(* or backends may have LRUPins pins, enough to pin the whole pool.        *)
(***************************************************************************)
EXTENDS LFU, TLC

CONSTANT LRUPins   \* MaxPins with LRU when nothing is dropped

VARIABLES
  ActiveEviction,
  dropping,        \* whether relations are dropped
  queue,           \* see LRU
  try              \* see LRU

LRU == INSTANCE LRU
LRUPinning == INSTANCE LRU WITH MaxPins <- LRUPins, Invalidates <- FALSE

chosen == <<ActiveEviction, dropping>>
onlyLRU == <<queue, try>>
onlyLFU == <<nodes, freq, min_freq, at, from>>

StrategyInitialize ==
  /\ ActiveEviction \in {"LRUEviction", "LFUEviction"}
  /\ dropping \in (IF ActiveEviction = "LRUEviction" THEN BOOLEAN ELSE {TRUE})
  /\ Init /\ LRU!Init

(***************************************************************************)
(* The one state in which nobody can go on: two backends wait for each     *)
(* other's lock (see NoLockCycle of LRU).                                  *)
(***************************************************************************)
LockCycle ==
  /\ ActiveEviction = "LRUEviction" /\ ~LRU!NoLockCycle
  /\ UNCHANGED <<vars, onlyLRU, chosen>>

LRUNext ==
  /\ ActiveEviction = "LRUEviction"
  /\ \/ dropping /\ LRU!Next
     \/ ~dropping /\ LRUPinning!Next
  /\ UNCHANGED <<onlyLFU, chosen>>

LFUNext ==
  /\ ActiveEviction = "LFUEviction"
  /\ Next
  /\ UNCHANGED <<onlyLRU, chosen>>

PolicyNext == LRUNext \/ LFUNext \/ LockCycle

PolicySpec ==
  StrategyInitialize /\ [][PolicyNext]_<<vars, onlyLRU, chosen>>

BackendSymmetry == Permutations(Backends)

-----------------------------------------------------------------------------
\* The state of the active policy keeps its type.
TypesOK == IF ActiveEviction = "LRUEviction" THEN LRU!TypeOK ELSE TypeOK

\* LRU's arrays stay one list in order of last use (see LRU!QueueWellFormed).
QueueWellFormed == ActiveEviction = "LRUEviction" => LRU!QueueWellFormed

\* LRUGetBuffer takes the least recently used buffer it may (see LRU).
OldestFirst == ActiveEviction = "LRUEviction" => LRU!OldestFirst

\* LRUGetBuffer gives up only after it found its whole list pinned (see LRU).
FullPassBeforeError ==
  ActiveEviction = "LRUEviction" => LRU!FullPassBeforeError

\* LFU's arrays stay one list per frequency (see LFU!BucketsWellFormed).
BucketsKept == ActiveEviction = "LFUEviction" => BucketsWellFormed

=============================================================================
