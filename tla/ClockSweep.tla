----------------------------- MODULE ClockSweep -----------------------------
(***************************************************************************)
(* The clock-sweep eviction policy (freelist.c, ClockSweepEviction), the   *)
(* one the server is built with.  Backends scan concurrently: each takes   *)
(* the next buffer under the shared hand, and no lock is held meanwhile.   *)
(***************************************************************************)
EXTENDS PolicyClient, ClockHand

VARIABLES
  try,        \* trycounter of each backend in ClockSweepGetBuffer
  old,        \* old_buf_state of each backend in ClockSweepGetBuffer
  passed,     \* history: buffers found pinned since trycounter was reset
  overtaken   \* history: ticks of other backends since (at most NBuffers)

scanVars == <<try, old, passed, overtaken>>
vars == <<clientVars, handVars, scanVars>>

Init ==
  /\ ClientInit
  /\ ClockSweepInitialize(Backends)
  /\ try = [p \in Backends |-> 0]
  /\ old = [p \in Backends |-> NoWord]
  /\ passed = [p \in Backends |-> {}]
  /\ overtaken = [p \in Backends |-> 0]

Scanning(p) == pc[p] \in {"scan", "act"}

-----------------------------------------------------------------------------
\* Mutant: one try too few.
StartScanShort(p) ==
  /\ pc[p] = "get"
  /\ Goto(p, "scan")
  /\ try' = [try EXCEPT ![p] = NBuffers - 1]
  /\ UNCHANGED <<headerVars, strategyLock, buf, pins, victims, handVars,
                 old, passed, overtaken>>

StartScan(p) ==
  /\ pc[p] = "get"
  /\ Goto(p, "scan")
  /\ try' = [try EXCEPT ![p] = NBuffers]
  /\ UNCHANGED <<headerVars, strategyLock, buf, pins, victims, handVars,
                 old, passed, overtaken>>

\* ClockSweepTick: the atomic increment.  buf[p] is the buffer it yields.
Tick(p) ==
  /\ pc[p] = "scan" /\ buf[p] = NBuffers
  /\ FetchAdd(p)
  /\ buf' = [buf EXCEPT ![p] = Victim]
  /\ overtaken' = [q \in Backends |->
       IF q # p /\ Scanning(q) /\ overtaken[q] < NBuffers
       THEN overtaken[q] + 1 ELSE overtaken[q]]
  /\ UNCHANGED <<headerVars, strategyLock, pc, pins, victims, try, old, passed>>

\* ClockSweepTick: the backend that caused a wraparound records it first.
Wrap(p) ==
  /\ pc[p] = "scan" /\ buf[p] # NBuffers
  /\ WrapHand(p)
  /\ UNCHANGED <<clientVars, scanVars>>

ReadCandidate(p) ==
  /\ pc[p] = "scan" /\ buf[p] # NBuffers /\ ~Owes(p)
  /\ old' = [old EXCEPT ![p] = Word(buf[p])]
  /\ Goto(p, "act")
  /\ UNCHANGED <<headerVars, strategyLock, buf, pins, victims, handVars,
                 try, passed, overtaken>>

\* The locals of ClockSweepGetBuffer go out of scope.
EndScan(p) ==
  /\ Return(p)
  /\ try' = [try EXCEPT ![p] = 0]
  /\ old' = [old EXCEPT ![p] = NoWord]
  /\ passed' = [passed EXCEPT ![p] = {}]
  /\ overtaken' = [overtaken EXCEPT ![p] = 0]
  /\ UNCHANGED strategyLock

\* On to the next buffer, with the given trycounter.
NextBuffer(p, n) ==
  /\ pc' = [pc EXCEPT ![p] = "scan"]
  /\ buf' = [buf EXCEPT ![p] = NBuffers]
  /\ old' = [old EXCEPT ![p] = NoWord]
  /\ try' = [try EXCEPT ![p] = n]
  /\ UNCHANGED strategyLock

\* A pinned buffer is passed over, even if its header is locked.
SkipPinned(p) ==
  /\ pc[p] = "act" /\ old[p].refcount # 0
  /\ \/ /\ try[p] > 1
        /\ passed' = [passed EXCEPT ![p] = @ \cup {buf[p]}]
        /\ UNCHANGED overtaken
        /\ NextBuffer(p, try[p] - 1)
     \/ /\ try[p] = 1       \* ERROR: no unpinned buffers available
        /\ EndScan(p)
  /\ UNCHANGED <<headerVars, pins, victims, handVars>>

CASSucceeds(p) == Word(buf[p]) = old[p]
Free(p) == pc[p] = "act" /\ old[p].refcount = 0 /\ old[p].locked = None

\* WaitBufHdrUnlocked returns the word it found unlocked.
WaitBufHdrUnlocked(p) ==
  /\ pc[p] = "act" /\ old[p].refcount = 0 /\ old[p].locked # None
  /\ locked[buf[p]] = None
  /\ old' = [old EXCEPT ![p] = Word(buf[p])]
  /\ UNCHANGED <<clientVars, handVars, try, passed, overtaken>>

LowerUsage(p) ==
  /\ Free(p) /\ old[p].usage # 0 /\ CASSucceeds(p)
  /\ usage' = [usage EXCEPT ![buf[p]] = @ - 1]
  /\ passed' = [passed EXCEPT ![p] = {}]
  /\ overtaken' = [overtaken EXCEPT ![p] = 0]
  /\ NextBuffer(p, NBuffers)
  /\ UNCHANGED <<refcount, locked, tagged, pins, victims, handVars>>

\* Mutant: the buffer is claimed whatever happened to its state word.
ClaimUnchecked(p) ==
  /\ Free(p) /\ old[p].usage = 0
  /\ Claim(p, buf[p])
  /\ EndScan(p)
  /\ UNCHANGED <<usage, locked, tagged, handVars>>

\* Mutant: the state word is stored, not compared and exchanged.
ClaimByStore(p) ==
  /\ Free(p) /\ old[p].usage = 0
  /\ refcount' = [refcount EXCEPT ![buf[p]] = old[p].refcount + 1]
  /\ pins' = [pins EXCEPT ![p] = @ \cup {buf[p]}]
  /\ victims' = [victims EXCEPT ![p] = @ \cup {buf[p]}]
  /\ EndScan(p)
  /\ UNCHANGED <<usage, locked, tagged, handVars>>

ClaimCandidate(p) ==
  /\ Free(p) /\ old[p].usage = 0 /\ CASSucceeds(p)
  /\ Claim(p, buf[p])
  /\ EndScan(p)
  /\ UNCHANGED <<usage, locked, tagged, handVars>>

\* A failed CAS leaves the current word in old_buf_state; look at it again.
CASFails(p) ==
  /\ Free(p) /\ ~CASSucceeds(p)
  /\ old' = [old EXCEPT ![p] = Word(buf[p])]
  /\ UNCHANGED <<clientVars, handVars, try, passed, overtaken>>

ClockSweepGetBuffer(p) ==
  \/ StartScan(p) \/ Tick(p) \/ Wrap(p) \/ ReadCandidate(p) \/ SkipPinned(p)
  \/ WaitBufHdrUnlocked(p) \/ LowerUsage(p) \/ ClaimCandidate(p) \/ CASFails(p)

-----------------------------------------------------------------------------
(***************************************************************************)
(* The clock sweep has no notifications: StrategyNotifyInsert and          *)
(* StrategyNotifyInvalidate do nothing, and hits are not even told apart.  *)
(***************************************************************************)
StrategyNotifyInsert(p) ==
  /\ pc[p] = "insert"
  /\ HandBack(p)
  /\ UNCHANGED <<headerVars, strategyLock, pins, handVars, scanVars>>

StrategyNotifyInvalidate(p) ==
  /\ pc[p] = "inval" /\ refcount[buf[p]] = 0
  /\ Goto(p, "clear")
  /\ UNCHANGED <<headerVars, strategyLock, buf, pins, victims,
                 handVars, scanVars>>

Pin(p, b) ==
  /\ PinBuffer(p, b, "idle") \/ PinBuffer_Locked(p, b)
  /\ UNCHANGED <<handVars, scanVars>>

LockHeader(p, b) == LockBufHdr(p, b) /\ UNCHANGED <<handVars, scanVars>>

Next ==
  \E p \in Backends :
    \/ ClockSweepGetBuffer(p)
    \/ StrategyNotifyInsert(p)
    \/ StrategyNotifyInvalidate(p)
    \/ ManagerStep(p) /\ UNCHANGED <<handVars, scanVars>>
    \/ \E b \in Buf : Pin(p, b) \/ LockHeader(p, b)

Spec == Init /\ [][Next]_vars

-----------------------------------------------------------------------------
TypeOK ==
  /\ ClientTypeOK
  /\ HandTypeOK(Backends)
  /\ try \in [Backends -> 0 .. NBuffers]
  /\ old \in [Backends -> Words]
  /\ passed \in [Backends -> SUBSET Buf]
  /\ overtaken \in [Backends -> 0 .. NBuffers]

(***************************************************************************)
(* When ClockSweepGetBuffer is about to report "no unpinned buffers        *)
(* available", it has found every buffer pinned, except that each tick of  *)
(* another backend since trycounter was reset may have hidden one buffer.  *)
(***************************************************************************)
FullPassUnlessOvertaken ==
  \A p \in Backends :
    pc[p] = "act" /\ old[p].refcount # 0 /\ try[p] = 1
      => Cardinality(Buf \ (passed[p] \cup {buf[p]})) <= overtaken[p]

(***************************************************************************)
(* ClockSweepGetBuffer claims only buffers that nobody pins at that        *)
(* moment, although any number of backends scan at once without a lock.    *)
(***************************************************************************)
Contract == INSTANCE EvictionContract
  WITH Buffers <- Buf, linked <- Buf, Unlinks <- FALSE, DropsInvalid <- FALSE

ImplementsContract == Contract!Spec

=============================================================================
