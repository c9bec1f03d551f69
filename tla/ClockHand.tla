----------------------------- MODULE ClockHand -----------------------------
(***************************************************************************)
(* The clock hand (freelist.c, ClockSweepTick): a 32-bit counter that      *)
(* every backend increments atomically, and the count of completed passes  *)
(* that the backend causing a wraparound increments some time later.       *)
(***************************************************************************)
EXTENDS BufferQueue

CONSTANT UInt32      \* 2^32: the counters are unsigned and wrap

\* shared_buffers is at most INT_MAX / 2.
ASSUME UInt32Assumption == UInt32 \in Nat /\ UInt32 > NBuffers /\ UInt32 > 2

VARIABLES
  nextVictimBuffer,  \* ClockSweepCtl->nextVictimBuffer
  completePasses,    \* StrategyControl->completePasses
  expected           \* of each backend that has to bring the hand back

handVars == <<nextVictimBuffer, completePasses, expected>>

UInts == 0 .. UInt32 - 1

\* No wraparound to record.
Nothing == UInt32

\* P is the set of the processes that move the hand.
ClockSweepInitialize(P) ==
  /\ nextVictimBuffer = 0
  /\ completePasses = 0
  /\ expected = [p \in P |-> Nothing]

\* The buffer id ClockSweepTick returns.
Victim == nextVictimBuffer % NBuffers

(***************************************************************************)
(* The fetch-and-add.  The backend that moves the hand past the last       *)
(* buffer owes a pass.                                                     *)
(***************************************************************************)
FetchAdd(p) ==
  /\ nextVictimBuffer' = (nextVictimBuffer + 1) % UInt32
  /\ expected' = [expected EXCEPT ![p] =
       IF nextVictimBuffer >= NBuffers /\ Victim = 0
       THEN (nextVictimBuffer + 1) % UInt32 ELSE Nothing]
  /\ UNCHANGED completePasses

Owes(p) == expected[p] # Nothing

\* Mutant: every try counts as a pass.
WrapAlwaysCounts(p) ==
  /\ Owes(p)
  /\ completePasses' = (completePasses + 1) % UInt32
  /\ \/ /\ nextVictimBuffer = expected[p]
        /\ nextVictimBuffer' = expected[p] % NBuffers
        /\ expected' = [expected EXCEPT ![p] = Nothing]
     \/ /\ nextVictimBuffer # expected[p]
        /\ expected' = [expected EXCEPT ![p] = nextVictimBuffer]
        /\ UNCHANGED nextVictimBuffer

(***************************************************************************)
(* One round of the loop that brings the hand back below NBuffers, in a    *)
(* critical section of buffer_strategy_lock.  A failed CAS leaves the      *)
(* current value in expected.                                              *)
(***************************************************************************)
WrapHand(p) ==
  /\ Owes(p)
  /\ \/ /\ nextVictimBuffer = expected[p]
        /\ nextVictimBuffer' = expected[p] % NBuffers
        /\ completePasses' = (completePasses + 1) % UInt32
        /\ expected' = [expected EXCEPT ![p] = Nothing]
     \/ /\ nextVictimBuffer # expected[p]
        /\ expected' = [expected EXCEPT ![p] = nextVictimBuffer]
        /\ UNCHANGED <<nextVictimBuffer, completePasses>>

HandTypeOK(P) ==
  /\ nextVictimBuffer \in UInts
  /\ completePasses \in UInts
  /\ expected \in [P -> UInts \cup {Nothing}]
=============================================================================
