------------------------------ MODULE BgWriter ------------------------------
(***************************************************************************)
(* The main loop of the background writer (bgwriter.c) and how allocating  *)
(* backends wake it from hibernation (freelist.c, StrategyNotifyBgWriter   *)
(* and the first half of StrategyGetBuffer).  What BgBufferSync cleans is  *)
(* modelled in BgSync and BufferPool; here only its result matters.        *)
(***************************************************************************)
EXTENDS Naturals

CONSTANTS
  Backends,   \* the processes that allocate buffers
  MaxAllocs   \* bound on the allocations counted between two cycles

ASSUME BgWriterAssumption == MaxAllocs \in Nat \ {0}

VARIABLES
  requested,        \* StrategyControl->bgwprocno is the background writer's
  latch,            \* its process latch is set
  numBufferAllocs,  \* StrategyControl->numBufferAllocs
  bpc,              \* where each backend is in StrategyGetBuffer
  pc,               \* where the background writer is
  can_hibernate,    \* the result of the last BgBufferSync
  prev_hibernate,   \* and of the one before
  missed            \* history: allocations begun during this hibernation

vars == <<requested, latch, numBufferAllocs, bpc, pc, can_hibernate,
          prev_hibernate, missed>>

Init ==
  /\ requested = FALSE
  /\ latch = FALSE
  /\ numBufferAllocs = 0
  /\ bpc = [p \in Backends |-> "out"]
  /\ pc = "reset"
  /\ can_hibernate = FALSE
  /\ prev_hibernate = FALSE
  /\ missed = {}

-----------------------------------------------------------------------------
(***************************************************************************)
(* StrategyGetBuffer reads bgwprocno once; if a process asked to be woken, *)
(* it clears the request first and sets the latch second.                  *)
(***************************************************************************)
ReadRequest(p) ==
  /\ bpc[p] = "out"
  /\ bpc' = [bpc EXCEPT ![p] = IF requested THEN "clear" ELSE "count"]
  /\ missed' = IF pc = "hibernate" THEN missed \cup {p} ELSE missed
  /\ UNCHANGED <<requested, latch, numBufferAllocs, pc, can_hibernate,
                 prev_hibernate>>

\* Mutant: the request is cleared and the latch is left alone.
ClearForgets(p) ==
  /\ bpc[p] = "clear"
  /\ requested' = FALSE
  /\ bpc' = [bpc EXCEPT ![p] = "count"]
  /\ UNCHANGED <<latch, numBufferAllocs, pc, can_hibernate, prev_hibernate,
                 missed>>

ClearRequest(p) ==
  /\ bpc[p] = "clear"
  /\ requested' = FALSE
  /\ bpc' = [bpc EXCEPT ![p] = "wake"]
  /\ UNCHANGED <<latch, numBufferAllocs, pc, can_hibernate, prev_hibernate,
                 missed>>

\* Mutant: the latch is set only if the request is still there.
SetLatchIfRequested(p) ==
  /\ bpc[p] = "wake"
  /\ latch' = (latch \/ requested)
  /\ bpc' = [bpc EXCEPT ![p] = "count"]
  /\ UNCHANGED <<requested, numBufferAllocs, pc, can_hibernate, prev_hibernate,
                 missed>>

SetLatch(p) ==
  /\ bpc[p] = "wake"
  /\ latch' = TRUE
  /\ bpc' = [bpc EXCEPT ![p] = "count"]
  /\ UNCHANGED <<requested, numBufferAllocs, pc, can_hibernate, prev_hibernate,
                 missed>>

\* Mutant: an allocation is counted twice.
CountTwice(p) ==
  /\ bpc[p] = "count"
  /\ numBufferAllocs' = IF numBufferAllocs < MaxAllocs THEN numBufferAllocs + 2
                        ELSE numBufferAllocs + 1
  /\ bpc' = [bpc EXCEPT ![p] = "out"]
  /\ UNCHANGED <<requested, latch, pc, can_hibernate, prev_hibernate, missed>>

CountAlloc(p) ==
  /\ bpc[p] = "count"
  /\ numBufferAllocs' = IF numBufferAllocs < MaxAllocs THEN numBufferAllocs + 1
                        ELSE numBufferAllocs
  /\ bpc' = [bpc EXCEPT ![p] = "out"]
  /\ UNCHANGED <<requested, latch, pc, can_hibernate, prev_hibernate, missed>>

-----------------------------------------------------------------------------
(***************************************************************************)
(* BackgroundWriterMain.                                                   *)
(***************************************************************************)
ResetLatch ==
  /\ pc = "reset"
  /\ latch' = FALSE
  /\ pc' = "sync"
  /\ UNCHANGED <<requested, numBufferAllocs, bpc, can_hibernate, prev_hibernate,
                 missed>>

\* BgBufferSync takes the allocation count and may allow hibernation if it is 0.
BgBufferSync ==
  /\ pc = "sync"
  /\ numBufferAllocs' = 0
  /\ can_hibernate' \in {FALSE, numBufferAllocs = 0}
  /\ pc' = "wait"
  /\ UNCHANGED <<requested, latch, bpc, prev_hibernate, missed>>

\* BgBufferSync fails; the handler starts the loop again.
SyncError ==
  /\ pc = "sync"
  /\ prev_hibernate' = FALSE
  /\ pc' = "reset"
  /\ numBufferAllocs' \in {numBufferAllocs, 0}
  /\ UNCHANGED <<requested, latch, bpc, can_hibernate, missed>>

\* WaitLatch returns because of the latch, or after BgWriterDelay.
WaitLatch ==
  /\ pc = "wait"
  /\ \/ /\ ~latch /\ can_hibernate /\ prev_hibernate
        /\ pc' = "request"
        /\ UNCHANGED prev_hibernate
     \/ /\ latch \/ ~can_hibernate \/ ~prev_hibernate
        /\ pc' = "reset"
        /\ prev_hibernate' = can_hibernate
  /\ UNCHANGED <<requested, latch, numBufferAllocs, bpc, can_hibernate, missed>>

\* StrategyNotifyBgWriter(MyProcNumber), then the long WaitLatch.
NotifyBgWriter ==
  /\ pc = "request"
  /\ requested' = TRUE
  /\ pc' = "hibernate"
  /\ missed' = {}
  /\ UNCHANGED <<latch, numBufferAllocs, bpc, can_hibernate, prev_hibernate>>

WakeUp ==
  /\ pc = "hibernate" /\ latch
  /\ pc' = "withdraw"
  /\ UNCHANGED <<requested, latch, numBufferAllocs, bpc, can_hibernate,
                 prev_hibernate, missed>>

\* The long WaitLatch times out.
TimeOut ==
  /\ pc = "hibernate"
  /\ pc' = "withdraw"
  /\ UNCHANGED <<requested, latch, numBufferAllocs, bpc, can_hibernate,
                 prev_hibernate, missed>>

\* StrategyNotifyBgWriter(-1).
WithdrawRequest ==
  /\ pc = "withdraw"
  /\ requested' = FALSE
  /\ prev_hibernate' = can_hibernate
  /\ pc' = "reset"
  /\ missed' = {}
  /\ UNCHANGED <<latch, numBufferAllocs, bpc, can_hibernate>>

Backend(p) == ReadRequest(p) \/ ClearRequest(p) \/ SetLatch(p) \/ CountAlloc(p)
Loop ==
  \/ ResetLatch \/ BgBufferSync \/ SyncError \/ WaitLatch \/ NotifyBgWriter
  \/ WakeUp \/ WithdrawRequest

Next == Loop \/ TimeOut \/ \E p \in Backends : Backend(p)

Spec == Init /\ [][Next]_vars

-----------------------------------------------------------------------------
TypeOK ==
  /\ requested \in BOOLEAN /\ latch \in BOOLEAN
  /\ numBufferAllocs \in 0 .. MaxAllocs
  /\ bpc \in [Backends -> {"out", "clear", "wake", "count"}]
  /\ pc \in {"reset", "sync", "wait", "request", "hibernate", "withdraw"}
  /\ can_hibernate \in BOOLEAN /\ prev_hibernate \in BOOLEAN
  /\ missed \in SUBSET Backends

(***************************************************************************)
(* No lost wakeup: once an allocation has begun while the background       *)
(* writer hibernates, its latch is set or a backend is about to set it,    *)
(* although StrategyGetBuffer reads and clears bgwprocno without a lock    *)
(* and may do so with a value from an earlier hibernation.                 *)
(***************************************************************************)
AllocationSeen ==
  pc = "hibernate" /\ missed # {}
    => latch \/ \E p \in Backends : bpc[p] \in {"clear", "wake"}

(***************************************************************************)
(* The background writer's loop goes on, and a backend that has begun to   *)
(* allocate finishes; no time-out is relied upon.                          *)
(***************************************************************************)
FairSpec ==
  /\ Spec
  /\ WF_vars(Loop)
  /\ \A p \in Backends : WF_vars(ClearRequest(p) \/ SetLatch(p) \/ CountAlloc(p))

(***************************************************************************)
(* An allocation that begins during hibernation ends it, with no time-out  *)
(* (comment in BackgroundWriterMain: "it will wake us up by setting our    *)
(* latch").                                                                *)
(***************************************************************************)
AllocationWakes == (pc = "hibernate" /\ missed # {}) ~> pc # "hibernate"
=============================================================================
