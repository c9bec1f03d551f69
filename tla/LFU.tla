-------------------------------- MODULE LFU --------------------------------
(***************************************************************************)
(* The LFU eviction policy (freelist.c, LFUEviction): one linked list of   *)
(* buffers per access frequency, all in the same two arrays.  Frequencies  *)
(* saturate at LFU_MAX_FREQ; min_freq says where a scan starts.            *)
(***************************************************************************)
EXTENDS PolicyClient

CONSTANT LFU_MAX_FREQ

ASSUME MaxFreqAssumption == LFU_MAX_FREQ \in Nat \ {0}

VARIABLES
  nodes,     \* LFUNext and LFUPrev
  freq,      \* LFUFreq
  min_freq,  \* LFUCtl->min_freq
  at,        \* f of each backend in LFUGetBuffer
  old,       \* old_state of each backend in LFUGetBuffer
  linked,    \* history: the buffers the lists are meant to hold
  order,     \* history: and the order they were last inserted in
  from,      \* history: where the for loop of a scan began
  passed     \* history: the buffers it has found busy since

listVars == <<nodes, freq, min_freq, linked, order>>
scanVars == <<at, old, from, passed>>
vars == <<clientVars, listVars, scanVars>>

Freqs == 1 .. LFU_MAX_FREQ
LFU_SENTINEL(f) == NBuffers + f - 1
Nodes == 0 .. NBuffers + LFU_MAX_FREQ - 1
LFU_BUCKET_EMPTY(q, f) == q.next[LFU_SENTINEL(f)] = LFU_SENTINEL(f)

\* Every buffer in the list of frequency 1, in the order of its id.
LFUInitialize ==
  LET s == LFU_SENTINEL(1)
  IN /\ nodes =
          [next |-> [i \in Nodes |-> IF i > s THEN i
                                     ELSE IF i = s THEN NBuffers - 1
                                     ELSE IF i < NBuffers - 1 THEN i + 1 ELSE s],
           prev |-> [i \in Nodes |-> IF i > s THEN i
                                     ELSE IF i = s THEN 0
                                     ELSE IF i > 0 THEN i - 1 ELSE s]]
     /\ freq = [b \in Buf |-> 1]
     /\ min_freq = 1

Init ==
  /\ ClientInit
  /\ LFUInitialize
  /\ linked = Buf
  /\ order = InitOrder
  /\ at = [p \in Backends |-> 0]
  /\ old = [p \in Backends |-> NoWord]
  /\ from = [p \in Backends |-> 0]
  /\ passed = [p \in Backends |-> {}]

LFUBucketUnlink(q, b) ==
  LET s == LFU_SENTINEL(freq[b])
      next == q.next[b]
      prev == q.prev[b]
  IN [next |-> [i \in Nodes |->
                  IF i = b THEN NBuffers
                  ELSE IF i = s THEN IF next = s THEN prev ELSE q.next[i]
                  ELSE IF i = prev THEN next ELSE q.next[i]],
      prev |-> [i \in Nodes |->
                  IF i = b THEN NBuffers
                  ELSE IF i = s THEN IF prev = s THEN next ELSE q.prev[i]
                  ELSE IF i = next THEN prev ELSE q.prev[i]]]

LFUBucketInsertMRU(q, b, f) ==
  LET s == LFU_SENTINEL(f)
      old_head == q.next[s]
  IN [next |-> [i \in Nodes |-> IF i = b THEN s
                                ELSE IF i = s \/ i = old_head THEN b
                                ELSE q.next[i]],
      prev |-> [i \in Nodes |-> IF i = b THEN old_head
                                ELSE IF i = s /\ old_head = s THEN b
                                ELSE q.prev[i]]]

\* What leaving the lists, and joining a list as its newest, is meant to do.
Leave(b) == linked' = linked \ {b} /\ order' = Without(order, b)
Join(b) ==
  /\ linked' = linked \cup {b}
  /\ order' = WithNewest(Without(order, b), linked \ {b}, b)

-----------------------------------------------------------------------------
(***************************************************************************)
(* The notifications, each one critical section of buffer_strategy_lock.   *)
(***************************************************************************)
LFUNotifyInsert(p) ==
  LET b == buf[p]
      q == IF freq[b] # 0 THEN LFUBucketUnlink(nodes, b) ELSE nodes
  IN /\ pc[p] = "insert" /\ strategyLock = None
     /\ nodes' = LFUBucketInsertMRU(q, b, 1)
     /\ freq' = [freq EXCEPT ![b] = 1]
     /\ min_freq' = 1
     /\ Join(b)
     /\ HandBack(p)
     /\ UNCHANGED <<headerVars, strategyLock, pins, scanVars>>

\* Mutant: a buffer that a backend has claimed is linked by a late hit.
HitUnchecked(p) ==
  LET b == buf[p]
      f == freq[b] + 1
  IN /\ pc[p] = "hit" /\ strategyLock = None /\ f <= LFU_MAX_FREQ
     /\ nodes' = LFUBucketInsertMRU(
          IF f = 1 THEN nodes ELSE LFUBucketUnlink(nodes, b), b, f)
     /\ freq' = [freq EXCEPT ![b] = f]
     /\ Join(b)
     /\ Return(p)
     /\ UNCHANGED <<headerVars, strategyLock, pins, victims, min_freq, scanVars>>

\* A hit on a buffer that has been evicted meanwhile changes nothing.
LFUNotifyHit(p) ==
  LET b == buf[p]
      f == freq[b]
      new_f == IF f < LFU_MAX_FREQ THEN f + 1 ELSE LFU_MAX_FREQ
      q == LFUBucketUnlink(nodes, b)
  IN /\ pc[p] = "hit" /\ strategyLock = None
     /\ \/ f = 0 /\ UNCHANGED listVars
        \/ /\ f # 0
           /\ min_freq' = IF f = min_freq /\ LFU_BUCKET_EMPTY(q, f)
                          THEN new_f ELSE min_freq
           /\ freq' = [freq EXCEPT ![b] = new_f]
           /\ nodes' = LFUBucketInsertMRU(q, b, new_f)
           /\ Join(b)
     /\ Return(p)
     /\ UNCHANGED <<headerVars, strategyLock, pins, victims, scanVars>>

\* Mutant: the frequency of the invalidated buffer is not reset.
InvalidateKeepsFreq(p) ==
  LET b == buf[p]
  IN /\ pc[p] = "inval" /\ refcount[b] = 0 /\ strategyLock = None
     /\ IF freq[b] # 0
        THEN /\ nodes' = LFUBucketUnlink(nodes, b)
             /\ Leave(b)
             /\ UNCHANGED <<freq, min_freq>>
        ELSE UNCHANGED listVars
     /\ Goto(p, "clear")
     /\ UNCHANGED <<headerVars, strategyLock, buf, pins, victims, scanVars>>

LFUNotifyInvalidate(p) ==
  LET b == buf[p]
  IN /\ pc[p] = "inval" /\ refcount[b] = 0 /\ strategyLock = None
     /\ IF freq[b] # 0
        THEN /\ nodes' = LFUBucketUnlink(nodes, b)
             /\ freq' = [freq EXCEPT ![b] = 0]
             /\ Leave(b)
             /\ UNCHANGED min_freq
        ELSE UNCHANGED listVars
     /\ Goto(p, "clear")
     /\ UNCHANGED <<headerVars, strategyLock, buf, pins, victims, scanVars>>

-----------------------------------------------------------------------------
(***************************************************************************)
(* LFUGetBuffer, under buffer_strategy_lock throughout.  buf[p] is the     *)
(* candidate; NBuffers stands for the sentinel of the list the scan is in. *)
(***************************************************************************)
CandidateOf(x) == IF x \in Buf THEN x ELSE NBuffers
OldestOf(f) ==
  IF f > LFU_MAX_FREQ THEN NBuffers ELSE CandidateOf(nodes.prev[LFU_SENTINEL(f)])

\* The for loop begins, or begins again after a failed CAS, at min_freq.
BeginAtMinFreq(p) ==
  /\ at' = [at EXCEPT ![p] = min_freq]
  /\ buf' = [buf EXCEPT ![p] = OldestOf(min_freq)]
  /\ from' = [from EXCEPT ![p] = min_freq]
  /\ passed' = [passed EXCEPT ![p] = {}]

StartScan(p) ==
  /\ AcquireStrategyLock(p)
  /\ BeginAtMinFreq(p)
  /\ UNCHANGED <<headerVars, pins, victims, listVars, old>>

\* The locals of LFUGetBuffer go out of scope.
EndScan(p) ==
  /\ strategyLock' = None
  /\ Return(p)
  /\ at' = [at EXCEPT ![p] = 0]
  /\ old' = [old EXCEPT ![p] = NoWord]
  /\ from' = [from EXCEPT ![p] = 0]
  /\ passed' = [passed EXCEPT ![p] = {}]

\* Past the last list: ERROR, no unpinned buffers available.
OutOfBuckets(p) ==
  /\ pc[p] = "scan" /\ at[p] > LFU_MAX_FREQ
  /\ EndScan(p)
  /\ UNCHANGED <<headerVars, pins, victims, listVars>>

\* The list of frequency at[p] is empty, or every buffer of it was busy.
NextBucket(p) ==
  /\ pc[p] = "scan" /\ at[p] <= LFU_MAX_FREQ /\ buf[p] = NBuffers
  /\ min_freq' = IF LFU_BUCKET_EMPTY(nodes, at[p]) THEN at[p] + 1 ELSE min_freq
  /\ at' = [at EXCEPT ![p] = @ + 1]
  /\ buf' = [buf EXCEPT ![p] = OldestOf(at[p] + 1)]
  /\ UNCHANGED <<headerVars, strategyLock, pc, pins, victims,
                 nodes, freq, linked, order, old, from, passed>>

ReadCandidate(p) ==
  /\ pc[p] = "scan" /\ buf[p] # NBuffers
  /\ old' = [old EXCEPT ![p] = Word(buf[p])]
  /\ Goto(p, "act")
  /\ UNCHANGED <<headerVars, strategyLock, buf, pins, victims,
                 listVars, at, from, passed>>

Busy(p) == old[p].locked # None \/ old[p].refcount # 0


SkipBusy(p) ==
  /\ pc[p] = "act" /\ Busy(p)
  /\ Goto(p, "scan")
  /\ buf' = [buf EXCEPT ![p] = CandidateOf(nodes.next[buf[p]])]
  /\ old' = [old EXCEPT ![p] = NoWord]
  /\ passed' = [passed EXCEPT ![p] = @ \cup {buf[p]}]
  /\ UNCHANGED <<headerVars, strategyLock, pins, victims, listVars, at, from>>

CASSucceeds(p) == Word(buf[p]) = old[p]

ClaimCandidate(p) ==
  LET b == buf[p]
      q == LFUBucketUnlink(nodes, b)
  IN /\ pc[p] = "act" /\ ~Busy(p) /\ CASSucceeds(p)
     /\ Claim(p, b)
     /\ nodes' = q
     /\ freq' = [freq EXCEPT ![b] = 0]
     /\ min_freq' = IF LFU_BUCKET_EMPTY(q, at[p]) THEN at[p] ELSE min_freq
     /\ Leave(b)
     /\ EndScan(p)
     /\ UNCHANGED <<usage, locked, tagged>>

ClaimFails(p) ==
  /\ pc[p] = "act" /\ ~Busy(p) /\ ~CASSucceeds(p)
  /\ Goto(p, "scan")
  /\ BeginAtMinFreq(p)
  /\ old' = [old EXCEPT ![p] = NoWord]
  /\ UNCHANGED <<headerVars, strategyLock, pins, victims, listVars>>

LFUGetBuffer(p) ==
  \/ StartScan(p) \/ OutOfBuckets(p) \/ NextBucket(p) \/ ReadCandidate(p)
  \/ SkipBusy(p) \/ ClaimCandidate(p) \/ ClaimFails(p)

-----------------------------------------------------------------------------
(***************************************************************************)
(* BufferAlloc calls StrategyNotifyHit after PinBuffer if the page is      *)
(* valid; all other callers of PinBuffer do not.                           *)
(***************************************************************************)
Pin(p, b) ==
  /\ \/ \E then \in {"idle", "hit"} : PinBuffer(p, b, then)
     \/ PinBuffer_Locked(p, b)
  /\ UNCHANGED <<listVars, scanVars>>

LockHeader(p, b) == LockBufHdr(p, b) /\ UNCHANGED <<listVars, scanVars>>

Next ==
  \E p \in Backends :
    \/ LFUGetBuffer(p)
    \/ LFUNotifyHit(p)
    \/ LFUNotifyInsert(p)
    \/ LFUNotifyInvalidate(p)
    \/ ManagerStep(p) /\ UNCHANGED <<listVars, scanVars>>
    \/ \E b \in Buf : Pin(p, b) \/ LockHeader(p, b)

Spec == Init /\ [][Next]_vars

-----------------------------------------------------------------------------
TypeOK ==
  /\ ClientTypeOK
  /\ nodes \in [next : [Nodes -> Nodes], prev : [Nodes -> Nodes]]
  /\ freq \in [Buf -> 0 .. LFU_MAX_FREQ]
  /\ min_freq \in 1 .. LFU_MAX_FREQ + 1
  /\ at \in [Backends -> 0 .. LFU_MAX_FREQ + 1]
  /\ old \in [Backends -> Words]
  /\ linked \in SUBSET Buf
  /\ order \in Order
  /\ from \in [Backends -> 0 .. LFU_MAX_FREQ + 1]
  /\ passed \in [Backends -> SUBSET Buf]

Bucket(f) == {b \in Buf : freq[b] = f}

\* The list of frequency f on its own, with NBuffers as its sentinel.
Slot(f, x) == IF x = LFU_SENTINEL(f) THEN NBuffers ELSE x
ListOf(f) ==
  [next |-> [i \in Slots |->
               IF i = NBuffers THEN Slot(f, nodes.next[LFU_SENTINEL(f)])
               ELSE IF freq[i] = f THEN Slot(f, nodes.next[i]) ELSE NBuffers],
   prev |-> [i \in Slots |->
               IF i = NBuffers THEN Slot(f, nodes.prev[LFU_SENTINEL(f)])
               ELSE IF freq[i] = f THEN Slot(f, nodes.prev[i]) ELSE NBuffers]]
OrderIn(f) == [b \in Buf |-> order[b] \cap Bucket(f)]

(***************************************************************************)
(* The arrays always hold one list per frequency, made of exactly the      *)
(* buffers of that frequency, least recently inserted first; the buffers   *)
(* of frequency 0 are those that are in no list.  A link that leads from   *)
(* one list into another, or LFUFreq out of step with the lists, would     *)
(* send LFUBucketUnlink to the wrong sentinel.                             *)
(***************************************************************************)
BucketsWellFormed ==
  /\ linked = {b \in Buf : freq[b] # 0}
  /\ \A f \in Freqs : Represents(ListOf(f), Bucket(f), OrderIn(f))

Scanning(p) == pc[p] \in {"scan", "act"}

(***************************************************************************)
(* LFUGetBuffer evicts in order of frequency, and within one frequency the *)
(* least recently inserted first, among the frequencies it searches: when  *)
(* it looks at a candidate or gives up, every buffer it should have        *)
(* preferred, down to the min_freq it began with, was found busy.          *)
(***************************************************************************)
LeastFrequentFirst ==
  \A p \in Backends : Scanning(p) =>
    \A b \in linked :
      \/ from[p] <= freq[b] /\ freq[b] < at[p]
      \/ freq[b] = at[p] /\ buf[p] # NBuffers /\ b \in order[buf[p]]
      \/ freq[b] = at[p] /\ buf[p] = NBuffers
      => b \in passed[p]

(***************************************************************************)
(* LFUGetBuffer says "no unpinned buffers available" only if so: while no  *)
(* backend is in the buffer manager and none has a buffer pinned, the next *)
(* scan, which begins at min_freq, has a buffer to find.                   *)
(***************************************************************************)
IdlePoolHasVictim ==
  (\A p \in Backends : pc[p] = "idle" /\ pins[p] = {})
    => \E b \in linked : min_freq <= freq[b]

(***************************************************************************)
(* LFUGetBuffer claims only buffers that are in a list and that nobody     *)
(* pins at that moment, a hit changes no membership, LFUNotifyInsert gives *)
(* each claimed buffer back, LFUNotifyInvalidate drops only unpinned ones. *)
(***************************************************************************)
Contract == INSTANCE EvictionContract
  WITH Buffers <- Buf, Unlinks <- TRUE, DropsInvalid <- Invalidates

ImplementsContract == Contract!Spec
=============================================================================
