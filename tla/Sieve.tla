------------------------------- MODULE Sieve -------------------------------
(***************************************************************************)
(* The SIEVE eviction policy (freelist.c, SieveEviction): one linked list  *)
(* of buffers and a hand that moves from the tail (oldest) to the head     *)
(* (newest).  The usage count of a buffer serves as its visited bit.       *)
(***************************************************************************)
EXTENDS PolicyClient

VARIABLES
  queue,       \* SieveNext and SievePrev
  hand,        \* sieve_hand
  try,         \* trycounter of each backend in SieveGetBuffer
  old,         \* old_buf_state of each backend in SieveGetBuffer
  linked,      \* history: the buffers the list is meant to hold
  order,       \* history: and their order, oldest first
  seen         \* history: busy buffers passed since trycounter was last reset

listVars == <<queue, hand, linked, order>>
scanVars == <<try, old, seen>>
vars == <<clientVars, listVars, scanVars>>

SieveInitialize ==
  /\ queue = InitList
  /\ hand = 0

Init ==
  /\ ClientInit
  /\ SieveInitialize
  /\ linked = Buf
  /\ order = InitOrder
  /\ try = [p \in Backends |-> 0]
  /\ old = [p \in Backends |-> NoWord]
  /\ seen = [p \in Backends |-> {}]

SieveAdvanceHand ==
  hand' = IF queue.next[hand] = NBuffers THEN ListTail(queue) ELSE queue.next[hand]

\* Mutant: the hand always moves towards the head.
HandStepsOffHead(b) == IF hand # b THEN hand ELSE queue.next[b]

(***************************************************************************)
(* Where SieveUnlinkAndAdvance(b) leaves the hand: if it is at b, it moves *)
(* to the next newer buffer, and from the head to the next older one.      *)
(***************************************************************************)
HandAfterUnlink(b) ==
  IF hand # b THEN hand
  ELSE IF queue.next[b] = NBuffers THEN queue.prev[b] ELSE queue.next[b]

SieveUnlinkAndAdvance(b) ==
  /\ queue' = Unlink(queue, b)
  /\ hand' = HandAfterUnlink(b)
  /\ linked' = linked \ {b}
  /\ order' = Without(order, b)

\* Mutant: a buffer that is still linked is linked a second time.
InsertUnchecked(p) ==
  /\ pc[p] = "insert" /\ strategyLock = None
  /\ queue' = InsertHead(queue, buf[p])
  /\ hand' = IF hand = NBuffers THEN buf[p] ELSE hand
  /\ linked' = linked \cup {buf[p]}
  /\ order' = WithNewest(Without(order, buf[p]), linked \ {buf[p]}, buf[p])
  /\ HandBack(p)
  /\ UNCHANGED <<headerVars, strategyLock, pins, scanVars>>

(***************************************************************************)
(* SieveNotifyInsert, in one critical section of buffer_strategy_lock.     *)
(***************************************************************************)
SieveNotifyInsert(p) ==
  LET b == buf[p]
      present == InList(queue, b)
      cleared == IF present THEN Unlink(queue, b) ELSE queue
      h == IF present THEN HandAfterUnlink(b) ELSE hand
  IN /\ pc[p] = "insert" /\ strategyLock = None
     /\ queue' = InsertHead(cleared, b)
     /\ hand' = IF h = NBuffers THEN b ELSE h
     /\ linked' = linked \cup {b}
     /\ order' = WithNewest(Without(order, b), linked \ {b}, b)
     /\ HandBack(p)
     /\ UNCHANGED <<headerVars, strategyLock, pins, scanVars>>

\* Mutant: the version of SieveNotifyInvalidate that is commented out.
InvalidateUnlinks(p) ==
  /\ pc[p] = "inval" /\ refcount[buf[p]] = 0 /\ strategyLock = None
  /\ SieveUnlinkAndAdvance(buf[p])
  /\ Goto(p, "clear")
  /\ UNCHANGED <<headerVars, strategyLock, buf, pins, victims, scanVars>>

\* SieveNotifyInvalidate does nothing: the buffer stays in the list.
SieveNotifyInvalidate(p) ==
  /\ pc[p] = "inval" /\ refcount[buf[p]] = 0
  /\ Goto(p, "clear")
  /\ UNCHANGED <<headerVars, strategyLock, buf, pins, victims,
                 listVars, scanVars>>

-----------------------------------------------------------------------------
(***************************************************************************)
(* SieveGetBuffer: the whole loop runs under buffer_strategy_lock, while   *)
(* other backends keep changing the state words of the buffers.            *)
(***************************************************************************)
\* Mutant: one try too few.
StartScanShort(p) ==
  /\ AcquireStrategyLock(p)
  /\ try' = [try EXCEPT ![p] = NBuffers - 1]
  /\ UNCHANGED <<headerVars, buf, pins, victims, listVars, old, seen>>

StartScan(p) ==
  /\ AcquireStrategyLock(p)
  /\ try' = [try EXCEPT ![p] = NBuffers]
  /\ UNCHANGED <<headerVars, buf, pins, victims, listVars, old, seen>>

\* The locals of SieveGetBuffer go out of scope.
EndScan(p) ==
  /\ strategyLock' = None
  /\ Return(p)
  /\ try' = [try EXCEPT ![p] = 0]
  /\ old' = [old EXCEPT ![p] = NoWord]
  /\ seen' = [seen EXCEPT ![p] = {}]

\* Back to the top of the loop, with the given trycounter.
Continue(p, n) ==
  /\ pc' = [pc EXCEPT ![p] = "scan"]
  /\ buf' = [buf EXCEPT ![p] = NBuffers]
  /\ old' = [old EXCEPT ![p] = NoWord]
  /\ try' = [try EXCEPT ![p] = n]
  /\ UNCHANGED strategyLock

QueueEmpty(p) ==
  /\ pc[p] = "scan" /\ hand = NBuffers
  /\ EndScan(p)
  /\ UNCHANGED <<headerVars, pins, victims, listVars>>

ReadCandidate(p) ==
  /\ pc[p] = "scan" /\ hand # NBuffers
  /\ buf' = [buf EXCEPT ![p] = hand]
  /\ old' = [old EXCEPT ![p] = Word(hand)]
  /\ Goto(p, "act")
  /\ UNCHANGED <<headerVars, strategyLock, pins, victims, listVars, try, seen>>

OldRefcount(p) == old[p].refcount
OldUsage(p) == old[p].usage
OldLocked(p) == old[p].locked # None
CASSucceeds(p) == Word(buf[p]) = old[p]

PassBusy(p) ==
  /\ SieveAdvanceHand
  /\ UNCHANGED <<headerVars, pins, victims, queue, linked, order>>

\* A locked header is passed over without counting.
SkipLocked(p) ==
  /\ pc[p] = "act" /\ OldLocked(p)
  /\ PassBusy(p)
  /\ seen' = [seen EXCEPT ![p] = @ \cup {buf[p]}]
  /\ Continue(p, try[p])

SkipPinned(p) ==
  /\ pc[p] = "act" /\ ~OldLocked(p) /\ OldRefcount(p) # 0
  /\ PassBusy(p)
  /\ \/ /\ try[p] > 1
        /\ seen' = [seen EXCEPT ![p] = @ \cup {buf[p]}]
        /\ Continue(p, try[p] - 1)
     \/ /\ try[p] = 1       \* ERROR: no unpinned buffers available
        /\ EndScan(p)

\* Mutant: the visited bit is never cleared.
ResetNothing(p) ==
  /\ pc[p] = "act" /\ ~OldLocked(p) /\ OldRefcount(p) = 0 /\ OldUsage(p) # 0
  /\ SieveAdvanceHand
  /\ seen' = [seen EXCEPT ![p] = {}]
  /\ Continue(p, NBuffers)
  /\ UNCHANGED <<headerVars, pins, victims, queue, linked, order>>

\* The visited bit is cleared by a CAS whose result the code ignores.
ResetVisit(p) ==
  /\ pc[p] = "act" /\ ~OldLocked(p) /\ OldRefcount(p) = 0 /\ OldUsage(p) # 0
  /\ usage' = IF CASSucceeds(p) THEN [usage EXCEPT ![buf[p]] = 0] ELSE usage
  /\ SieveAdvanceHand
  /\ seen' = [seen EXCEPT ![p] = {}]
  /\ Continue(p, NBuffers)
  /\ UNCHANGED <<refcount, locked, tagged, pins, victims,
                 queue, linked, order>>

Claimable(p) ==
  /\ pc[p] = "act"
  /\ ~OldLocked(p) /\ OldRefcount(p) = 0 /\ OldUsage(p) = 0

\* Mutant: the buffer is claimed whatever happened to its state word.
ClaimUnchecked(p) ==
  /\ Claimable(p)
  /\ Claim(p, buf[p])
  /\ SieveUnlinkAndAdvance(buf[p])
  /\ EndScan(p)
  /\ UNCHANGED <<usage, locked, tagged>>

\* Mutant: the state word is stored, not compared and exchanged.
ClaimByStore(p) ==
  /\ Claimable(p)
  /\ refcount' = [refcount EXCEPT ![buf[p]] = OldRefcount(p) + 1]
  /\ pins' = [pins EXCEPT ![p] = @ \cup {buf[p]}]
  /\ victims' = [victims EXCEPT ![p] = @ \cup {buf[p]}]
  /\ SieveUnlinkAndAdvance(buf[p])
  /\ EndScan(p)
  /\ UNCHANGED <<usage, locked, tagged>>

ClaimCandidate(p) ==
  /\ Claimable(p) /\ CASSucceeds(p)
  /\ Claim(p, buf[p])
  /\ SieveUnlinkAndAdvance(buf[p])
  /\ EndScan(p)
  /\ UNCHANGED <<usage, locked, tagged>>

ClaimFails(p) ==
  /\ Claimable(p) /\ ~CASSucceeds(p)
  /\ seen' = [seen EXCEPT ![p] = {}]
  /\ Continue(p, NBuffers)
  /\ UNCHANGED <<headerVars, pins, victims, listVars>>

SieveGetBuffer(p) ==
  \/ StartScan(p) \/ QueueEmpty(p) \/ ReadCandidate(p) \/ SkipLocked(p)
  \/ SkipPinned(p) \/ ResetVisit(p) \/ ClaimCandidate(p) \/ ClaimFails(p)

-----------------------------------------------------------------------------
(***************************************************************************)
(* The buffer manager's own steps; SIEVE has no notify_hit.                *)
(***************************************************************************)
Pin(p, b) ==
  /\ PinBuffer(p, b, "idle") \/ PinBuffer_Locked(p, b)
  /\ UNCHANGED <<listVars, scanVars>>

LockHeader(p, b) == LockBufHdr(p, b) /\ UNCHANGED <<listVars, scanVars>>

Next ==
  \E p \in Backends :
    \/ SieveGetBuffer(p)
    \/ SieveNotifyInsert(p)
    \/ SieveNotifyInvalidate(p)
    \/ ManagerStep(p) /\ UNCHANGED <<listVars, scanVars>>
    \/ \E b \in Buf : Pin(p, b) \/ LockHeader(p, b)

Spec == Init /\ [][Next]_vars

-----------------------------------------------------------------------------
TypeOK ==
  /\ ClientTypeOK
  /\ queue \in Lists
  /\ hand \in Slots
  /\ try \in [Backends -> 0 .. NBuffers]
  /\ old \in [Backends -> Words]
  /\ linked \in SUBSET Buf
  /\ order \in Order
  /\ seen \in [Backends -> SUBSET Buf]

(***************************************************************************)
(* The two arrays always form one list of the linked buffers in insertion  *)
(* order, whatever mix of claims, ring reuse and reinsertion of buffers    *)
(* that are still linked SieveUnlinkAndAdvance and SieveNotifyInsert see.  *)
(***************************************************************************)
QueueWellFormed == Represents(queue, linked, order)

(***************************************************************************)
(* The hand never dangles: it is at a linked buffer, or at the sentinel    *)
(* exactly when the list is empty.  SieveGetBuffer follows SieveNext from  *)
(* it and unlinks what it finds there without a membership test.           *)
(***************************************************************************)
HandOnQueue == IF linked = {} THEN hand = NBuffers ELSE hand \in linked

(***************************************************************************)
(* No drain: every buffer is in the eviction list, or is the victim of a   *)
(* backend that still has to hand it back with StrategyNotifyInsert.       *)
(***************************************************************************)
NoBufferLost == Buf = linked \cup UNION {victims[p] : p \in Backends}

(***************************************************************************)
(* When SieveGetBuffer is about to report "no unpinned buffers available", *)
(* it has found every buffer of the list pinned, or its header locked,     *)
(* since it last changed a state word or failed to.                        *)
(***************************************************************************)
FullPassBeforeError ==
  \A p \in Backends :
    pc[p] = "act" /\ ~OldLocked(p) /\ OldRefcount(p) # 0 /\ try[p] = 1
      => linked \subseteq seen[p] \cup {buf[p]}

(***************************************************************************)
(* SieveGetBuffer claims only buffers that are linked and that nobody pins *)
(* at that moment, and SieveNotifyInsert gives each of them back.          *)
(***************************************************************************)
Contract == INSTANCE EvictionContract
  WITH Buffers <- Buf, Unlinks <- TRUE, DropsInvalid <- FALSE

ImplementsContract == Contract!Spec

(***************************************************************************)
(* Progress.  A backend inside the buffer manager keeps taking steps.      *)
(***************************************************************************)
Inside(p) ==
  \/ SieveGetBuffer(p)
  \/ SieveNotifyInsert(p)
  \/ SieveNotifyInvalidate(p)
  \/ (UnlockPinned(p) \/ ClearBufferTag(p)) /\ UNCHANGED <<listVars, scanVars>>

FairSpec == Spec /\ \A p \in Backends : WF_vars(Inside(p))

Scanning(p) == pc[p] \in {"scan", "act"}

(***************************************************************************)
(* A scan ends, and with it the time buffer_strategy_lock is held, unless  *)
(* other backends pin buffers or lock headers again and again meanwhile.   *)
(***************************************************************************)
ScanTerminates ==
  \A p \in Backends :
    \/ []<><<\E q \in Backends, b \in Buf : Pin(q, b) \/ LockHeader(q, b)>>_vars
    \/ Scanning(p) ~> ~Scanning(p)
=============================================================================
