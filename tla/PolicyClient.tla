---------------------------- MODULE PolicyClient ----------------------------
(***************************************************************************)
(* What the buffer manager does to the buffer headers while an eviction    *)
(* policy runs: the state every policy module shares and the steps of      *)
(* bufmgr.c that a policy can observe.                                     *)
(*                                                                         *)
(* A backend holds pins (one shared refcount per backend and buffer,       *)
(* however often it pins the buffer itself) and, among them, victims:      *)
(* buffers it got from StrategyGetBuffer and has not yet handed back with  *)
(* StrategyNotifyInsert.  Tags, the mapping table, dirtiness and I/O are   *)
(* the business of module BufferPool; here a buffer only is or is not      *)
(* tagged, and why GetVictimBuffer or BufferAlloc gives a victim up is     *)
(* left open.                                                              *)
(***************************************************************************)
EXTENDS BufferQueue, FiniteSets

CONSTANTS
  Backends,       \* the processes using the buffer pool
  MaxUsage,       \* BM_MAX_USAGE_COUNT
  MaxPins,        \* bound on the buffers one backend keeps pinned
  LosesVictims,   \* whether victims are unpinned without StrategyNotifyInsert
  Invalidates,    \* whether relations are dropped or truncated
  None            \* no backend

ASSUME ClientAssumption ==
  /\ IsFiniteSet(Backends)
  /\ MaxUsage \in Nat \ {0}
  /\ MaxPins \in Nat \ {0}
  /\ LosesVictims \in BOOLEAN
  /\ Invalidates \in BOOLEAN
  /\ None \notin Backends

VARIABLES
  refcount,      \* BufferDesc.state: shared reference count
  usage,         \* BufferDesc.state: usage count
  locked,        \* BufferDesc.state: BM_LOCKED, as the backend that set it
  tagged,        \* BufferDesc.state: BM_TAG_VALID
  strategyLock,  \* holder of buffer_strategy_lock, or None
  pc,            \* where each backend is
  buf,           \* the buffer that step works on
  pins,          \* the buffers each backend has pinned
  victims        \* those it got as victims and has not handed back

headerVars == <<refcount, usage, locked, tagged>>
clientVars == <<headerVars, strategyLock, pc, buf, pins, victims>>

(***************************************************************************)
(* idle    outside the buffer manager                                      *)
(* get     in StrategyGetBuffer, before the policy takes its lock          *)
(* scan    in the policy's loop, about to look at a candidate              *)
(* act     holding a copy of the candidate's state word                    *)
(* hit     pinned a buffer, before StrategyNotifyHit                       *)
(* insert  before StrategyNotifyInsert of a victim                         *)
(* inval   in InvalidateBuffer, holding the header lock                    *)
(* clear   the same, after StrategyNotifyInvalidate                        *)
(***************************************************************************)
PCs == {"idle", "get", "scan", "act", "hit", "insert", "inval", "clear"}

Word(b) ==
  [refcount |-> refcount[b], usage |-> usage[b],
   locked |-> locked[b], tagged |-> tagged[b]]
Words ==
  [refcount : Nat, usage : 0 .. MaxUsage,
   locked : Backends \cup {None}, tagged : BOOLEAN]
NoWord == [refcount |-> 0, usage |-> 0, locked |-> None, tagged |-> FALSE]

ClientInit ==
  /\ refcount = [b \in Buf |-> 0]
  /\ usage = [b \in Buf |-> 0]
  /\ locked = [b \in Buf |-> None]
  /\ tagged = [b \in Buf |-> FALSE]
  /\ strategyLock = None
  /\ pc = [p \in Backends |-> "idle"]
  /\ buf = [p \in Backends |-> NBuffers]
  /\ pins = [p \in Backends |-> {}]
  /\ victims = [p \in Backends |-> {}]

Goto(p, l) == pc' = [pc EXCEPT ![p] = l]
Return(p) ==
  /\ pc' = [pc EXCEPT ![p] = "idle"]
  /\ buf' = [buf EXCEPT ![p] = NBuffers]

Pinners(b) == {p \in Backends : b \in pins[p]}

HasRoom(p) == Cardinality(pins[p]) < MaxPins

-----------------------------------------------------------------------------
(***************************************************************************)
(* PinBuffer of a buffer found in the mapping table: one successful CAS,   *)
(* impossible while the header is locked.  The default strategy counts     *)
(* usage up to the maximum, a ring strategy only makes it nonzero.         *)
(***************************************************************************)
PinBuffer(p, b, then) ==
  /\ pc[p] = "idle" /\ HasRoom(p)
  /\ tagged[b] /\ b \notin pins[p]
  /\ locked[b] = None
  /\ refcount' = [refcount EXCEPT ![b] = @ + 1]
  /\ \/ usage' = [usage EXCEPT ![b] = IF @ < MaxUsage THEN @ + 1 ELSE @]
     \/ usage' = [usage EXCEPT ![b] = IF @ = 0 THEN 1 ELSE @]
  /\ pins' = [pins EXCEPT ![p] = @ \cup {b}]
  /\ pc' = [pc EXCEPT ![p] = then]
  /\ buf' = [buf EXCEPT ![p] = IF then = "idle" THEN NBuffers ELSE b]
  /\ UNCHANGED <<locked, tagged, strategyLock, victims>>

(***************************************************************************)
(* LockBufHdr and PinBuffer_Locked: a writer (checkpointer, bgwriter) pins *)
(* the buffer without touching its usage count or telling the policy.      *)
(***************************************************************************)
PinBuffer_Locked(p, b) ==
  /\ pc[p] = "idle" /\ HasRoom(p)
  /\ tagged[b] /\ b \notin pins[p]
  /\ locked[b] = None
  /\ refcount' = [refcount EXCEPT ![b] = @ + 1]
  /\ pins' = [pins EXCEPT ![p] = @ \cup {b}]
  /\ UNCHANGED <<usage, locked, tagged, strategyLock, pc, buf, victims>>

(***************************************************************************)
(* UnpinBuffer: an atomic subtraction, which ignores the header lock.      *)
(***************************************************************************)
UnpinBuffer(p, b) ==
  /\ pc[p] = "idle"
  /\ b \in pins[p] \ victims[p]
  /\ refcount' = [refcount EXCEPT ![b] = @ - 1]
  /\ pins' = [pins EXCEPT ![p] = @ \ {b}]
  /\ UNCHANGED <<usage, locked, tagged, strategyLock, pc, buf, victims>>

(***************************************************************************)
(* GetVictimBuffer calls StrategyGetBuffer.                                *)
(***************************************************************************)
StrategyGetBuffer(p) ==
  /\ pc[p] = "idle" /\ HasRoom(p)
  /\ Goto(p, "get")
  /\ UNCHANGED <<headerVars, strategyLock, buf, pins, victims>>

(***************************************************************************)
(* StrategyGetBuffer takes the buffer from the caller's ring: the policy   *)
(* is not asked, so the buffer keeps its place in the eviction queue.      *)
(***************************************************************************)
GetBufferFromRing(p, b) ==
  /\ pc[p] = "idle" /\ HasRoom(p)
  /\ locked[b] = None /\ refcount[b] = 0 /\ usage[b] <= 1
  /\ refcount' = [refcount EXCEPT ![b] = 1]
  /\ pins' = [pins EXCEPT ![p] = @ \cup {b}]
  /\ victims' = [victims EXCEPT ![p] = @ \cup {b}]
  /\ UNCHANGED <<usage, locked, tagged, strategyLock, pc, buf>>

\* Mutant: the check for other pins is left out.
InvalidateShared(p, b) ==
  /\ pc[p] = "idle" /\ b \in victims[p]
  /\ tagged[b] /\ locked[b] = None
  /\ tagged' = [tagged EXCEPT ![b] = FALSE]
  /\ usage' = [usage EXCEPT ![b] = 0]
  /\ UNCHANGED <<refcount, locked, strategyLock, pc, buf, pins, victims>>

(***************************************************************************)
(* InvalidateVictimBuffer finds the victim still pinned by this backend    *)
(* alone and takes its old page away.                                      *)
(***************************************************************************)
InvalidateVictimBuffer(p, b) ==
  /\ pc[p] = "idle" /\ b \in victims[p]
  /\ tagged[b] /\ locked[b] = None /\ refcount[b] = 1
  /\ tagged' = [tagged EXCEPT ![b] = FALSE]
  /\ usage' = [usage EXCEPT ![b] = 0]
  /\ UNCHANGED <<refcount, locked, strategyLock, pc, buf, pins, victims>>

(***************************************************************************)
(* The victim gets a new page: BufferAlloc or ExtendBufferedRelShared sets *)
(* its tag and usage count under the header lock.  Other backends can pin  *)
(* it from here on; StrategyNotifyInsert comes next.                       *)
(***************************************************************************)
ReuseVictim(p, b) ==
  /\ pc[p] = "idle" /\ b \in victims[p]
  /\ ~tagged[b] /\ locked[b] = None
  /\ tagged' = [tagged EXCEPT ![b] = TRUE]
  /\ usage' = [usage EXCEPT ![b] = 1]
  /\ pc' = [pc EXCEPT ![p] = "insert"]
  /\ buf' = [buf EXCEPT ![p] = b]
  /\ UNCHANGED <<refcount, locked, strategyLock, pins, victims>>

(***************************************************************************)
(* The victim is given up: its content lock is taken, the ring rejects it, *)
(* somebody pinned or dirtied it, another backend entered the tag first,   *)
(* or the relation was extended meanwhile.  StrategyNotifyInsert comes     *)
(* next, then the unpin.                                                   *)
(***************************************************************************)
GiveUpVictim(p, b) ==
  /\ pc[p] = "idle" /\ b \in victims[p]
  /\ pc' = [pc EXCEPT ![p] = "insert"]
  /\ buf' = [buf EXCEPT ![p] = b]
  /\ UNCHANGED <<headerVars, strategyLock, pins, victims>>

(***************************************************************************)
(* The victim is dropped without StrategyNotifyInsert: an error while      *)
(* FlushBuffer writes it, or in ExtendBufferedRelShared before it is       *)
(* entered; and the branch of the latter that finds a buffer for the new   *)
(* block.  The unpin follows.                                              *)
(***************************************************************************)
LoseVictim(p, b) ==
  /\ LosesVictims
  /\ pc[p] = "idle" /\ b \in victims[p]
  /\ victims' = [victims EXCEPT ![p] = @ \ {b}]
  /\ UNCHANGED <<headerVars, strategyLock, pc, buf, pins>>

(***************************************************************************)
(* InvalidateBuffer, once the caller holds the mapping partition lock:     *)
(* lock the header; if the buffer is pinned, unlock and try again later;   *)
(* otherwise notify the policy, clear the tag and unlock.                  *)
(***************************************************************************)
LockBufHdr(p, b) ==
  /\ Invalidates
  /\ pc[p] = "idle"
  /\ tagged[b] /\ b \notin pins[p] /\ locked[b] = None
  /\ locked' = [locked EXCEPT ![b] = p]
  /\ pc' = [pc EXCEPT ![p] = "inval"]
  /\ buf' = [buf EXCEPT ![p] = b]
  /\ UNCHANGED <<refcount, usage, tagged, strategyLock, pins, victims>>

UnlockPinned(p) ==
  /\ pc[p] = "inval" /\ refcount[buf[p]] # 0
  /\ locked' = [locked EXCEPT ![buf[p]] = None]
  /\ Return(p)
  /\ UNCHANGED <<refcount, usage, tagged, strategyLock, pins, victims>>

ClearBufferTag(p) ==
  /\ pc[p] = "clear"
  /\ tagged' = [tagged EXCEPT ![buf[p]] = FALSE]
  /\ usage' = [usage EXCEPT ![buf[p]] = 0]
  /\ locked' = [locked EXCEPT ![buf[p]] = None]
  /\ Return(p)
  /\ UNCHANGED <<refcount, strategyLock, pins, victims>>

\* The steps that concern no policy.
ManagerStep(p) ==
  \/ StrategyGetBuffer(p)
  \/ UnlockPinned(p)
  \/ ClearBufferTag(p)
  \/ \E b \in Buf : \/ UnpinBuffer(p, b)
                    \/ GetBufferFromRing(p, b)
                    \/ InvalidateVictimBuffer(p, b)
                    \/ ReuseVictim(p, b)
                    \/ GiveUpVictim(p, b)
                    \/ LoseVictim(p, b)

-----------------------------------------------------------------------------
(***************************************************************************)
(* Steps every policy takes.                                               *)
(***************************************************************************)
AcquireStrategyLock(p) ==
  /\ pc[p] = "get" /\ strategyLock = None
  /\ strategyLock' = p
  /\ Goto(p, "scan")

\* Mutant: the reference is forgotten.
ClaimUncounted(p, b) ==
  /\ refcount' = refcount
  /\ pins' = [pins EXCEPT ![p] = @ \cup {b}]
  /\ victims' = [victims EXCEPT ![p] = @ \cup {b}]

\* The CAS on the state word of b that claims it for p succeeds.
Claim(p, b) ==
  /\ refcount' = [refcount EXCEPT ![b] = @ + 1]
  /\ pins' = [pins EXCEPT ![p] = @ \cup {b}]
  /\ victims' = [victims EXCEPT ![p] = @ \cup {b}]

\* A victim has been handed back with StrategyNotifyInsert.
HandBack(p) ==
  /\ victims' = [victims EXCEPT ![p] = @ \ {buf[p]}]
  /\ Return(p)

ClientTypeOK ==
  /\ refcount \in [Buf -> Nat]
  /\ usage \in [Buf -> 0 .. MaxUsage]
  /\ locked \in [Buf -> Backends \cup {None}]
  /\ tagged \in [Buf -> BOOLEAN]
  /\ strategyLock \in Backends \cup {None}
  /\ pc \in [Backends -> PCs]
  /\ buf \in [Backends -> Slots]
  /\ pins \in [Backends -> SUBSET Buf]
  /\ victims \in [Backends -> SUBSET Buf]

(***************************************************************************)
(* The shared refcount of a buffer is the number of backends that pin it,  *)
(* and victims are pinned: PinBuffer, the policies' claims, the ring and   *)
(* UnpinBuffer each change the count in one atomic operation.              *)
(***************************************************************************)
RefcountCountsPins ==
  /\ \A b \in Buf : refcount[b] = Cardinality(Pinners(b))
  /\ \A p \in Backends : victims[p] \subseteq pins[p]

(***************************************************************************)
(* StrategyGetBuffer never hands a buffer to two backends, and what        *)
(* BufferAlloc asserts when it gives a victim its new tag: a buffer        *)
(* without a tag is pinned by its victim's owner only and has no usage.    *)
(***************************************************************************)
VictimsExclusive ==
  /\ \A p, q \in Backends : p # q => victims[p] \cap victims[q] = {}
  /\ \A b \in Buf : ~tagged[b] => usage[b] = 0
  /\ \A p \in Backends : \A b \in victims[p] : ~tagged[b] => refcount[b] = 1
=============================================================================
