-------------------------------- MODULE LRU --------------------------------
(***************************************************************************)
(* The LRU eviction policy (freelist.c, LRUEviction): one linked list of   *)
(* buffers, the most recently used at the head.  A scan starts at the tail *)
(* and, unlike SIEVE, waits for a locked buffer header while it holds      *)
(* buffer_strategy_lock.                                                   *)
(***************************************************************************)
EXTENDS PolicyClient

VARIABLES
  queue,     \* LRUNext and LRUPrev
  try,       \* trycounter of each backend in LRUGetBuffer
  old,       \* old_buf_state of each backend in LRUGetBuffer
  linked,    \* history: the buffers the list is meant to hold
  order,     \* history: and their order, least recently used first
  passed     \* history: the buffers a scan has found pinned

listVars == <<queue, linked, order>>
scanVars == <<try, old, passed>>
vars == <<clientVars, listVars, scanVars>>

LRUInitialize == queue = InitList

Init ==
  /\ ClientInit
  /\ LRUInitialize
  /\ linked = Buf
  /\ order = InitOrder
  /\ try = [p \in Backends |-> 0]
  /\ old = [p \in Backends |-> NoWord]
  /\ passed = [p \in Backends |-> {}]

LRUUnlink(b) ==
  /\ queue' = Unlink(queue, b)
  /\ linked' = linked \ {b}
  /\ order' = Without(order, b)

\* LRUUnlink(b), if b is in the list, and LRUInsertMRU(b).
MoveToMRU(b) ==
  /\ queue' = InsertHead(IF InList(queue, b) THEN Unlink(queue, b) ELSE queue, b)
  /\ linked' = linked \cup {b}
  /\ order' = WithNewest(Without(order, b), linked \ {b}, b)

-----------------------------------------------------------------------------
(***************************************************************************)
(* The notifications, each one critical section of buffer_strategy_lock.   *)
(***************************************************************************)
\* Mutant: a buffer that a backend has claimed is linked by a late hit.
HitUnchecked(p) ==
  /\ pc[p] = "hit" /\ strategyLock = None
  /\ MoveToMRU(buf[p])
  /\ Return(p)
  /\ UNCHANGED <<headerVars, strategyLock, pins, victims, scanVars>>

LRUNotifyHit(p) ==
  /\ pc[p] = "hit" /\ strategyLock = None
  /\ IF InList(queue, buf[p]) THEN MoveToMRU(buf[p]) ELSE UNCHANGED listVars
  /\ Return(p)
  /\ UNCHANGED <<headerVars, strategyLock, pins, victims, scanVars>>

\* Mutant: a buffer that is still linked is linked a second time.
InsertUnchecked(p) ==
  /\ pc[p] = "insert" /\ strategyLock = None
  /\ queue' = InsertHead(queue, buf[p])
  /\ linked' = linked \cup {buf[p]}
  /\ order' = WithNewest(Without(order, buf[p]), linked \ {buf[p]}, buf[p])
  /\ HandBack(p)
  /\ UNCHANGED <<headerVars, strategyLock, pins, scanVars>>

LRUNotifyInsert(p) ==
  /\ pc[p] = "insert" /\ strategyLock = None
  /\ MoveToMRU(buf[p])
  /\ HandBack(p)
  /\ UNCHANGED <<headerVars, strategyLock, pins, scanVars>>

\* Called with the header lock held: this step waits for the strategy lock.
LRUNotifyInvalidate(p) ==
  /\ pc[p] = "inval" /\ refcount[buf[p]] = 0 /\ strategyLock = None
  /\ IF InList(queue, buf[p]) THEN LRUUnlink(buf[p]) ELSE UNCHANGED listVars
  /\ Goto(p, "clear")
  /\ UNCHANGED <<headerVars, strategyLock, buf, pins, victims, scanVars>>

-----------------------------------------------------------------------------
(***************************************************************************)
(* LRUGetBuffer.  buf[p] is candidate_id.                                  *)
(***************************************************************************)
\* Mutant: one try too few.
StartScanShort(p) ==
  /\ AcquireStrategyLock(p)
  /\ buf' = [buf EXCEPT ![p] = ListTail(queue)]
  /\ try' = [try EXCEPT ![p] = NBuffers - 1]
  /\ UNCHANGED <<headerVars, pins, victims, listVars, old, passed>>

\* Mutant: the scan starts at the wrong end.
StartScanAtHead(p) ==
  /\ AcquireStrategyLock(p)
  /\ buf' = [buf EXCEPT ![p] = ListHead(queue)]
  /\ try' = [try EXCEPT ![p] = NBuffers]
  /\ UNCHANGED <<headerVars, pins, victims, listVars, old, passed>>

StartScan(p) ==
  /\ AcquireStrategyLock(p)
  /\ buf' = [buf EXCEPT ![p] = ListTail(queue)]
  /\ try' = [try EXCEPT ![p] = NBuffers]
  /\ UNCHANGED <<headerVars, pins, victims, listVars, old, passed>>

\* The locals of LRUGetBuffer go out of scope.
EndScan(p) ==
  /\ strategyLock' = None
  /\ Return(p)
  /\ try' = [try EXCEPT ![p] = 0]
  /\ old' = [old EXCEPT ![p] = NoWord]
  /\ passed' = [passed EXCEPT ![p] = {}]

\* Back to the top of the loop, with the given candidate and trycounter.
Continue(p, candidate, n) ==
  /\ pc' = [pc EXCEPT ![p] = "scan"]
  /\ buf' = [buf EXCEPT ![p] = candidate]
  /\ old' = [old EXCEPT ![p] = NoWord]
  /\ try' = [try EXCEPT ![p] = n]
  /\ UNCHANGED strategyLock

QueueEmpty(p) ==
  /\ pc[p] = "scan" /\ buf[p] = NBuffers
  /\ EndScan(p)
  /\ UNCHANGED <<headerVars, pins, victims, listVars>>

\* WaitBufHdrUnlocked spins, and the loop reads again, until it is unlocked.
ReadCandidate(p) ==
  /\ pc[p] = "scan" /\ buf[p] # NBuffers
  /\ locked[buf[p]] = None
  /\ old' = [old EXCEPT ![p] = Word(buf[p])]
  /\ Goto(p, "act")
  /\ UNCHANGED <<headerVars, strategyLock, buf, pins, victims,
                 listVars, try, passed>>

\* The candidate after buf[p]: the next newer buffer, after the head the tail.
NextCandidate(p) ==
  IF queue.next[buf[p]] = NBuffers THEN ListTail(queue) ELSE queue.next[buf[p]]

SkipPinned(p) ==
  /\ pc[p] = "act" /\ old[p].refcount # 0
  /\ \/ /\ try[p] > 1
        /\ passed' = [passed EXCEPT ![p] = @ \cup {buf[p]}]
        /\ Continue(p, NextCandidate(p), try[p] - 1)
     \/ /\ try[p] = 1       \* ERROR: no unpinned buffers
        /\ EndScan(p)
  /\ UNCHANGED <<headerVars, pins, victims, listVars>>

CASSucceeds(p) == Word(buf[p]) = old[p]

ClaimCandidate(p) ==
  /\ pc[p] = "act" /\ old[p].refcount = 0 /\ CASSucceeds(p)
  /\ Claim(p, buf[p])
  /\ LRUUnlink(buf[p])
  /\ EndScan(p)
  /\ UNCHANGED <<usage, locked, tagged>>

ClaimFails(p) ==
  /\ pc[p] = "act" /\ old[p].refcount = 0 /\ ~CASSucceeds(p)
  /\ Continue(p, buf[p], NBuffers)
  /\ UNCHANGED <<headerVars, pins, victims, listVars, passed>>

LRUGetBuffer(p) ==
  \/ StartScan(p) \/ QueueEmpty(p) \/ ReadCandidate(p) \/ SkipPinned(p)
  \/ ClaimCandidate(p) \/ ClaimFails(p)

-----------------------------------------------------------------------------
(***************************************************************************)
(* BufferAlloc calls StrategyNotifyHit after PinBuffer if the page is      *)
(* valid; all other callers of PinBuffer do not.                           *)
(***************************************************************************)
Pin(p, b) ==
  /\ \/ \E then \in {"idle", "hit"} : PinBuffer(p, b, then)
     \/ PinBuffer_Locked(p, b)
  /\ UNCHANGED <<listVars, scanVars>>

LockHeader(p, b) == LockBufHdr(p, b) /\ UNCHANGED <<listVars, scanVars>>

Next ==
  \E p \in Backends :
    \/ LRUGetBuffer(p)
    \/ LRUNotifyHit(p)
    \/ LRUNotifyInsert(p)
    \/ LRUNotifyInvalidate(p)
    \/ ManagerStep(p) /\ UNCHANGED <<listVars, scanVars>>
    \/ \E b \in Buf : Pin(p, b) \/ LockHeader(p, b)

Spec == Init /\ [][Next]_vars

-----------------------------------------------------------------------------
TypeOK ==
  /\ ClientTypeOK
  /\ queue \in Lists
  /\ try \in [Backends -> 0 .. NBuffers]
  /\ old \in [Backends -> Words]
  /\ linked \in SUBSET Buf
  /\ order \in Order
  /\ passed \in [Backends -> SUBSET Buf]

(***************************************************************************)
(* The two arrays always form one list of the linked buffers in order of   *)
(* their last use, whatever order hits, insertions, claims and             *)
(* invalidations of one buffer arrive in.                                  *)
(***************************************************************************)
QueueWellFormed == Represents(queue, linked, order)

Scanning(p) == pc[p] \in {"scan", "act"}

(***************************************************************************)
(* LRUGetBuffer evicts the least recently used buffer that it may: when it *)
(* looks at a candidate, it has found every buffer used less recently      *)
(* pinned during this same scan.                                           *)
(***************************************************************************)
OldestFirst ==
  \A p \in Backends :
    Scanning(p) /\ buf[p] # NBuffers
      => buf[p] \in linked /\ order[buf[p]] \subseteq passed[p]

(***************************************************************************)
(* When LRUGetBuffer is about to report "no unpinned buffers", it has      *)
(* found every buffer of the list pinned during this scan.                 *)
(***************************************************************************)
FullPassBeforeError ==
  \A p \in Backends :
    pc[p] = "act" /\ old[p].refcount # 0 /\ try[p] = 1
      => linked \subseteq passed[p] \cup {buf[p]}

(***************************************************************************)
(* Lock order: a backend that waits for a header lock in LRUGetBuffer,     *)
(* with buffer_strategy_lock held, never waits for a backend that wants    *)
(* buffer_strategy_lock for LRUNotifyInvalidate.                           *)
(***************************************************************************)
NoLockCycle ==
  \A p, q \in Backends :
    ~ /\ strategyLock = p /\ pc[p] = "scan" /\ buf[p] # NBuffers
      /\ locked[buf[p]] = q
      /\ pc[q] = "inval" /\ refcount[buf[q]] = 0

(***************************************************************************)
(* LRUGetBuffer claims only buffers that are linked and that nobody pins   *)
(* at that moment, a hit changes no membership, LRUNotifyInsert gives each *)
(* claimed buffer back and LRUNotifyInvalidate drops only unpinned ones.   *)
(***************************************************************************)
Contract == INSTANCE EvictionContract
  WITH Buffers <- Buf, Unlinks <- TRUE, DropsInvalid <- Invalidates

ImplementsContract == Contract!Spec

=============================================================================
