---------------------------- MODULE SieveProofs ----------------------------
(***************************************************************************)
(* SIEVE keeps its list and its hand in order, loses no buffer and         *)
(* implements the eviction contract, for every number of buffers and every *)
(* finite set of backends.                                                 *)
(***************************************************************************)
EXTENDS Sieve, PolicyClientProofs

USE NBuffersAssumption, ClientAssumption

(***************************************************************************)
(* The inductive invariant.  Only the holder of buffer_strategy_lock is in *)
(* the loop of SieveGetBuffer, and its candidate is still under the hand.  *)
(***************************************************************************)
ScanInv ==
  \A p \in Backends :
    /\ Scanning(p) <=> strategyLock = p
    /\ Scanning(p) => try[p] \in 1 .. NBuffers
    /\ pc[p] = "act" => buf[p] = hand /\ hand \in linked

SieveInv ==
  /\ TypeOK
  /\ ClientInv
  /\ QueueWellFormed
  /\ HandOnQueue
  /\ ScanInv
  /\ ~LosesVictims => NoBufferLost

-----------------------------------------------------------------------------
(***************************************************************************)
(* The neighbours that the arrays give for a linked buffer are linked or   *)
(* the sentinel, and the tail of a list that is not empty is linked.       *)
(***************************************************************************)
LEMMA NextOnQueue ==
  ASSUME TypeOK, QueueWellFormed, NEW b \in linked
  PROVE  /\ queue.next[b] = NBuffers \/ queue.next[b] \in linked
         /\ queue.prev[b] = NBuffers \/ queue.prev[b] \in linked
         /\ ListTail(queue) \in linked
<1>1. /\ IsNext(linked, order, b, queue.next[b])
      /\ IsPrev(linked, order, b, queue.prev[b])
      /\ IsTail(linked, order, ListTail(queue))
  BY DEF QueueWellFormed, Represents
<1>2. order[b] \subseteq linked
  BY DEF QueueWellFormed, Represents, StrictTotalOrder
<1> QED
  BY <1>1, <1>2 DEF IsNext, IsPrev, IsTail

(***************************************************************************)
(* What SieveNotifyInsert tests, neighbours or head, decides membership.   *)
(***************************************************************************)
LEMMA LinkedIsInList ==
  ASSUME TypeOK, QueueWellFormed, NEW b \in Buf
  PROVE  InList(queue, b) <=> b \in linked
<1>1. /\ queue \in Lists /\ linked \in SUBSET Buf /\ order \in Order
      /\ Represents(queue, linked, order)
  BY Zenon DEF TypeOK, QueueWellFormed
<1> QED
  BY <1>1, InListIsMember, Zenon

\* SieveAdvanceHand keeps a hand that is on the list on the list.
LEMMA AdvanceOnQueue ==
  ASSUME TypeOK, QueueWellFormed, hand \in linked, SieveAdvanceHand,
         UNCHANGED linked
  PROVE  hand' \in linked' /\ hand' \in Slots
<1>1. hand' \in linked
  BY NextOnQueue DEF SieveAdvanceHand
<1> QED
  BY <1>1, SentinelIsNoBuffer DEF TypeOK

(***************************************************************************)
(* SieveUnlinkAndAdvance leaves the hand on what is left of the list, and  *)
(* on the sentinel only if nothing is left.                                *)
(***************************************************************************)
LEMMA UnlinkOnQueue ==
  ASSUME TypeOK, QueueWellFormed, HandOnQueue, NEW b \in linked
  PROVE  /\ HandAfterUnlink(b) \in Slots
         /\ IF linked \ {b} = {} THEN HandAfterUnlink(b) = NBuffers
                                 ELSE HandAfterUnlink(b) \in linked \ {b}
<1> DEFINE n == queue.next[b]
           o == queue.prev[b]
<1>1. /\ IsNext(linked, order, b, n) /\ IsPrev(linked, order, b, o)
      /\ StrictTotalOrder(linked, order) /\ b \in Buf /\ linked \subseteq Buf
      /\ hand \in linked
  BY DEF TypeOK, QueueWellFormed, Represents, HandOnQueue
<1>2. n = NBuffers \/ (n \in linked /\ n # b)
  BY <1>1 DEF IsNext, StrictTotalOrder
<1>3. o = NBuffers \/ (o \in linked /\ o # b)
  BY <1>1 DEF IsPrev, StrictTotalOrder
<1>4. n = NBuffers /\ o = NBuffers => linked = {b}
  BY <1>1 DEF IsNext, IsPrev, StrictTotalOrder
<1>5. linked = {b} => n = NBuffers /\ o = NBuffers
  BY <1>2, <1>3
<1>6. HandAfterUnlink(b) \in linked \ {b} \/ HandAfterUnlink(b) = NBuffers
  BY <1>1, <1>2, <1>3, Zenon DEF HandAfterUnlink
<1>7. HandAfterUnlink(b) = NBuffers <=> linked = {b}
  BY <1>1, <1>4, <1>5, SentinelIsNoBuffer, Zenon DEF HandAfterUnlink
<1>8. linked \ {b} = {} <=> linked = {b}
  OBVIOUS
<1> QED
  BY <1>1, <1>6, <1>7, <1>8, SentinelIsNoBuffer, Zenon

-----------------------------------------------------------------------------
(***************************************************************************)
(* Every buffer stays accounted for when none is lost.                     *)
(***************************************************************************)
LEMMA NothingLost ==
  ASSUME NoBufferLost, linked' \in SUBSET Buf,
         \A q \in Backends : victims'[q] \subseteq Buf,
         \A b \in Buf : b \in linked => b \in linked' \/ \E q \in Backends : b \in victims'[q],
         \A q \in Backends : \A b \in victims[q] :
           b \in linked' \/ \E r \in Backends : b \in victims'[r]
  PROVE  NoBufferLost'
  BY DEF NoBufferLost

(***************************************************************************)
(* SieveInitialize and the headers of an empty pool establish the          *)
(* invariant.                                                              *)
(***************************************************************************)
LEMMA InitSieve == Init => SieveInv
<1> SUFFICES ASSUME Init PROVE SieveInv
  OBVIOUS
<1>1. ClientTypeOK
  BY SentinelIsNoBuffer DEF Init, ClientInit, ClientTypeOK, PCs
<1>2. RefcountCountsPins
  <2>1. \A b \in Buf : Pinners(b) = {}
    BY DEF Init, ClientInit, Pinners
  <2> QED
    BY <2>1, FS_EmptySet, Zenon DEF Init, ClientInit, RefcountCountsPins
<1>3. VictimsExclusive /\ CallInv
  BY DEF Init, ClientInit, VictimsExclusive, CallInv
<1>4. TypeOK
  <2>1. NoWord \in Words
    BY DEF NoWord, Words
  <2>2. 0 \in Slots /\ 0 \in 0 .. NBuffers
    BY DEF Slots
  <2> QED
    BY <1>1, <2>1, <2>2, InitListRepresents DEF Init, SieveInitialize, TypeOK
<1>5. QueueWellFormed /\ HandOnQueue
  BY InitListRepresents
  DEF Init, SieveInitialize, QueueWellFormed, HandOnQueue, Buf
<1>6. ScanInv
  BY DEF Init, ClientInit, ScanInv, Scanning
<1>7. NoBufferLost
  BY DEF Init, ClientInit, NoBufferLost
<1> QED
  BY <1>1, <1>2, <1>3, <1>4, <1>5, <1>6, <1>7, Zenon DEF SieveInv, ClientInv

-----------------------------------------------------------------------------
(***************************************************************************)
(* Steps of the buffer manager.                                            *)
(***************************************************************************)
LEMMA ClientPreserves ==
  ASSUME SieveInv, NEW p \in Backends, ClientStep(p),
         UNCHANGED <<listVars, scanVars>>
  PROVE  SieveInv'
<1> USE DEF SieveInv
<1>1. ClientInv'
  BY ClientStepInv
<1>2. TypeOK' /\ QueueWellFormed' /\ HandOnQueue'
  BY <1>1 DEF ClientInv, TypeOK, QueueWellFormed, HandOnQueue,
              listVars, scanVars
<1>3. /\ pc[p] \notin {"scan", "act"} /\ pc'[p] \notin {"scan", "act"}
      /\ \A q \in Backends \ {p} : pc'[q] = pc[q] /\ buf'[q] = buf[q]
      /\ strategyLock' = strategyLock
      /\ LosesVictims \/ \A q \in Backends : victims[q] \subseteq victims'[q]
  BY ClientStepFrame, Zenon DEF ClientInv
<1>4. ScanInv'
  BY <1>3, Zenon DEF ScanInv, Scanning, listVars, scanVars
<1>5. ~LosesVictims => NoBufferLost'
  <2>1. SUFFICES ASSUME ~LosesVictims PROVE NoBufferLost'
    OBVIOUS
  <2>2. victims' \in [Backends -> SUBSET Buf]
    BY <1>1 DEF ClientInv, ClientTypeOK
  <2>3. linked' = linked /\ linked \in SUBSET Buf
    BY DEF listVars, TypeOK
  <2> QED
    BY <1>3, <2>1, <2>2, <2>3, NothingLost, Zenon
<1> QED
  BY <1>1, <1>2, <1>4, <1>5, Zenon

(***************************************************************************)
(* Steps of the loop in SieveGetBuffer that go round once more.            *)
(***************************************************************************)
LEMMA ContinueInv ==
  ASSUME SieveInv, NEW p \in Backends, pc[p] = "act",
         NEW n \in 1 .. NBuffers, Continue(p, n),
         hand' \in linked,
         seen' \in [Backends -> SUBSET Buf],
         usage' \in [Buf -> 0 .. MaxUsage],
         \A b \in Buf : usage[b] = 0 => usage'[b] = 0,
         UNCHANGED <<refcount, locked, tagged, pins, victims,
                     queue, linked, order>>
  PROVE  SieveInv'
<1> USE DEF SieveInv
<1>1. /\ pc' = [pc EXCEPT ![p] = "scan"] /\ buf' = [buf EXCEPT ![p] = NBuffers]
      /\ old' = [old EXCEPT ![p] = NoWord] /\ try' = [try EXCEPT ![p] = n]
      /\ strategyLock' = strategyLock
  BY DEF Continue
<1>2. ClientInv'
  <2>1. pc' \in [Backends -> PCs] /\ buf' \in [Backends -> Slots]
    BY <1>1, SentinelIsNoBuffer, Zenon DEF TypeOK, ClientTypeOK, PCs
  <2>2. /\ \A q \in Backends \ {p} : pc'[q] = pc[q] /\ buf'[q] = buf[q]
        /\ pc'[p] = "scan" /\ strategyLock' \in Backends \cup {None}
    BY <1>1, Zenon DEF TypeOK, ClientTypeOK
  <2> QED
    BY <2>1, <2>2, ScanStepInv, Zenon
<1>3. TypeOK'
  <2>1. old' \in [Backends -> Words]
    BY <1>1 DEF TypeOK, NoWord, Words
  <2>2. try' \in [Backends -> 0 .. NBuffers] /\ hand' \in Slots
    BY <1>1, SentinelIsNoBuffer DEF TypeOK
  <2> QED
    BY <1>2, <2>1, <2>2, Zenon DEF TypeOK, ClientInv
<1>4. QueueWellFormed' /\ HandOnQueue'
  BY Zenon DEF QueueWellFormed, HandOnQueue
<1>5. ScanInv'
  <2>1. Scanning(p) /\ Scanning(p)' /\ pc'[p] # "act"
    BY <1>1, Zenon DEF Scanning, TypeOK, ClientTypeOK
  <2>2. \A q \in Backends \ {p} : ~Scanning(q) /\ pc'[q] = pc[q] /\ ~Scanning(q)'
    BY <1>1, <2>1, Zenon DEF ScanInv, Scanning, TypeOK, ClientTypeOK
  <2>3. strategyLock' = p /\ try'[p] = n
    BY <1>1, <2>1, Zenon DEF ScanInv, TypeOK
  <2> QED
    BY <2>1, <2>2, <2>3, Zenon DEF ScanInv, Scanning
<1>6. NoBufferLost => NoBufferLost'
  BY DEF NoBufferLost
<1> QED
  BY <1>2, <1>3, <1>4, <1>5, <1>6, Zenon

(***************************************************************************)
(* Steps that leave SieveGetBuffer with an error.                          *)
(***************************************************************************)
LEMMA EndScanInv ==
  ASSUME SieveInv, NEW p \in Backends, Scanning(p), EndScan(p),
         HandOnQueue', hand' \in Slots,
         UNCHANGED <<headerVars, pins, victims, queue, linked, order>>
  PROVE  SieveInv'
<1> USE DEF SieveInv
<1>1. /\ pc' = [pc EXCEPT ![p] = "idle"] /\ buf' = [buf EXCEPT ![p] = NBuffers]
      /\ old' = [old EXCEPT ![p] = NoWord] /\ try' = [try EXCEPT ![p] = 0]
      /\ seen' = [seen EXCEPT ![p] = {}] /\ strategyLock' = None
  BY DEF EndScan, Return
<1>2. ClientInv'
  <2>1. pc' \in [Backends -> PCs] /\ buf' \in [Backends -> Slots]
    BY <1>1, SentinelIsNoBuffer, Zenon DEF TypeOK, ClientTypeOK, PCs
  <2>2. /\ \A q \in Backends \ {p} : pc'[q] = pc[q] /\ buf'[q] = buf[q]
        /\ pc'[p] = "idle" /\ strategyLock' \in Backends \cup {None}
    BY <1>1, Zenon DEF TypeOK, ClientTypeOK
  <2>3. /\ usage' \in [Buf -> 0 .. MaxUsage] /\ usage' = usage
        /\ UNCHANGED <<refcount, locked, tagged>>
    BY DEF TypeOK, ClientTypeOK, headerVars
  <2> QED
    BY <2>1, <2>2, <2>3, ScanStepInv, Zenon
<1>3. TypeOK'
  <2>1. old' \in [Backends -> Words]
    BY <1>1 DEF TypeOK, NoWord, Words
  <2>2. try' \in [Backends -> 0 .. NBuffers]
    BY <1>1 DEF TypeOK
  <2> QED
    BY <1>1, <1>2, <2>1, <2>2, Zenon DEF TypeOK, ClientInv
<1>4. QueueWellFormed'
  BY Zenon DEF QueueWellFormed
<1>5. ScanInv'
  BY <1>1, Zenon DEF ScanInv, Scanning, TypeOK, ClientTypeOK
<1>6. NoBufferLost => NoBufferLost'
  BY DEF NoBufferLost
<1> QED
  BY <1>2, <1>3, <1>4, <1>5, <1>6, Zenon

(***************************************************************************)
(* SieveGetBuffer takes the lock, and looks at a candidate.                *)
(***************************************************************************)
LEMMA StartScanInv ==
  ASSUME SieveInv, NEW p \in Backends, StartScan(p)
  PROVE  SieveInv'
<1> USE DEF SieveInv
<1>1. /\ pc[p] = "get" /\ pc' = [pc EXCEPT ![p] = "scan"] /\ strategyLock = None
      /\ strategyLock' = p /\ try' = [try EXCEPT ![p] = NBuffers]
      /\ UNCHANGED <<headerVars, buf, pins, victims, listVars, old, seen>>
  BY DEF StartScan, AcquireStrategyLock, Goto
<1>2. ClientInv'
  <2>1. /\ pc' \in [Backends -> PCs] /\ buf' \in [Backends -> Slots]
        /\ \A q \in Backends \ {p} : pc'[q] = pc[q] /\ buf'[q] = buf[q]
        /\ pc'[p] = "scan" /\ strategyLock' \in Backends \cup {None}
        /\ usage' \in [Buf -> 0 .. MaxUsage]
    BY <1>1, Zenon DEF TypeOK, ClientTypeOK, PCs, headerVars
  <2> QED
    BY <1>1, <2>1, ScanStepInv, Zenon DEF headerVars
<1>3. TypeOK' /\ QueueWellFormed' /\ HandOnQueue'
  <2>1. try' \in [Backends -> 0 .. NBuffers]
    BY <1>1 DEF TypeOK
  <2> QED
    BY <1>1, <1>2, <2>1, Zenon
    DEF TypeOK, ClientInv, QueueWellFormed, HandOnQueue, listVars
<1>4. ScanInv'
  <2>1. NBuffers \in 1 .. NBuffers
    BY TrialCounts, Zenon
  <2> QED
    BY <1>1, <2>1, Zenon DEF ScanInv, Scanning, TypeOK, ClientTypeOK, listVars
<1>5. NoBufferLost => NoBufferLost'
  BY <1>1, Zenon DEF NoBufferLost, listVars
<1> QED
  BY <1>2, <1>3, <1>4, <1>5, Zenon

(***************************************************************************)
(* SieveGetBuffer reads the state word of the buffer under the hand.       *)
(***************************************************************************)
LEMMA ReadCandidateInv ==
  ASSUME SieveInv, NEW p \in Backends, ReadCandidate(p)
  PROVE  SieveInv'
<1> USE DEF SieveInv
<1>1. /\ pc[p] = "scan" /\ pc' = [pc EXCEPT ![p] = "act"] /\ hand # NBuffers
      /\ buf' = [buf EXCEPT ![p] = hand] /\ old' = [old EXCEPT ![p] = Word(hand)]
      /\ UNCHANGED <<headerVars, strategyLock, pins, victims, listVars, try, seen>>
  BY DEF ReadCandidate, Goto
<1>2. hand \in linked /\ hand \in Buf
  BY <1>1, Zenon DEF HandOnQueue, TypeOK
<1>3. ClientInv'
  <2>1. /\ pc' \in [Backends -> PCs] /\ buf' \in [Backends -> Slots]
        /\ \A q \in Backends \ {p} : pc'[q] = pc[q] /\ buf'[q] = buf[q]
        /\ pc'[p] = "act" /\ strategyLock' \in Backends \cup {None}
        /\ usage' \in [Buf -> 0 .. MaxUsage]
    BY <1>1, <1>2, SentinelIsNoBuffer, Zenon DEF TypeOK, ClientTypeOK, PCs, headerVars
  <2> QED
    BY <1>1, <2>1, ScanStepInv, Zenon DEF headerVars
<1>4. TypeOK' /\ QueueWellFormed' /\ HandOnQueue'
  <2>1. Word(hand) \in Words
    BY <1>2, Zenon DEF Word, Words, TypeOK, ClientTypeOK
  <2>2. old' \in [Backends -> Words]
    BY <1>1, <2>1, Zenon DEF TypeOK
  <2> QED
    BY <1>1, <1>3, <2>2, Zenon
    DEF TypeOK, ClientInv, QueueWellFormed, HandOnQueue, listVars
<1>5. ScanInv'
  BY <1>1, <1>2, Zenon DEF ScanInv, Scanning, TypeOK, ClientTypeOK, listVars
<1>6. NoBufferLost => NoBufferLost'
  BY <1>1, Zenon DEF NoBufferLost, listVars
<1> QED
  BY <1>3, <1>4, <1>5, <1>6

(***************************************************************************)
(* SieveGetBuffer claims the buffer under the hand.                        *)
(***************************************************************************)
LEMMA ClaimCandidateInv ==
  ASSUME SieveInv, NEW p \in Backends, ClaimCandidate(p)
  PROVE  /\ SieveInv'
         /\ buf[p] \in linked /\ \A q \in Backends : buf[p] \notin pins[q]
<1> USE DEF SieveInv
<1> DEFINE b == buf[p]
<1>1. /\ pc[p] = "act" /\ pc' = [pc EXCEPT ![p] = "idle"]
      /\ buf' = [buf EXCEPT ![p] = NBuffers]
      /\ old' = [old EXCEPT ![p] = NoWord] /\ try' = [try EXCEPT ![p] = 0]
      /\ seen' = [seen EXCEPT ![p] = {}] /\ strategyLock' = None
      /\ queue' = Unlink(queue, b) /\ hand' = HandAfterUnlink(b)
      /\ linked' = linked \ {b} /\ order' = Without(order, b)
      /\ victims' = [victims EXCEPT ![p] = @ \cup {b}]
  BY Zenon DEF ClaimCandidate, Claimable, EndScan, Return, Claim,
         SieveUnlinkAndAdvance
<1>2. b = hand /\ b \in linked /\ b \in Buf
  BY <1>1, Zenon DEF ScanInv, TypeOK
<1>3. refcount[b] = 0 /\ locked[b] = None
  <2>1. Word(b) = old[p] /\ old[p].refcount = 0 /\ old[p].locked = None
    BY Zenon DEF ClaimCandidate, Claimable, CASSucceeds, OldRefcount, OldLocked
  <2> QED
    BY <2>1, WordFields, Zenon
<1>4. ClientInv' /\ \A q \in Backends : b \notin pins[q]
  BY <1>1, <1>2, <1>3, ClaimInv, Zenon DEF ClaimCandidate, EndScan
<1>5. /\ queue' \in Lists /\ order' \in Order
      /\ Represents(queue', linked', order')
  BY <1>1, <1>2, UnlinkRepresents, Zenon DEF TypeOK, QueueWellFormed
<1>6. TypeOK'
  <2>1. old' \in [Backends -> Words]
    BY <1>1 DEF TypeOK, NoWord, Words
  <2>2. try' \in [Backends -> 0 .. NBuffers]
    BY <1>1 DEF TypeOK
  <2>3. hand' \in Slots
    BY <1>1, <1>2, UnlinkOnQueue, Zenon
  <2> QED
    BY <1>1, <1>4, <1>5, <2>1, <2>2, <2>3 DEF TypeOK, ClientInv
<1>7. QueueWellFormed' /\ HandOnQueue'
  BY <1>1, <1>2, <1>5, UnlinkOnQueue, Zenon DEF QueueWellFormed, HandOnQueue
<1>8. ScanInv'
  BY <1>1, Zenon DEF ScanInv, Scanning, TypeOK, ClientTypeOK
<1>9. NoBufferLost => NoBufferLost'
  <2>1. victims' \in [Backends -> SUBSET Buf] /\ linked' \in SUBSET Buf
    BY <1>4, <1>6, Zenon DEF ClientInv, ClientTypeOK, TypeOK
  <2>2. b \in victims'[p] /\ \A q \in Backends : victims[q] \subseteq victims'[q]
    BY <1>1 DEF TypeOK, ClientTypeOK
  <2> QED
    BY <1>1, <2>1, <2>2, NothingLost, Zenon
<1> QED
  BY <1>2, <1>4, <1>6, <1>7, <1>8, <1>9, Zenon

(***************************************************************************)
(* SieveNotifyInsert moves a victim to the head of the list, whether it    *)
(* was still linked (a buffer reused from a ring) or not.                  *)
(***************************************************************************)
LEMMA NotifyInsertInv ==
  ASSUME SieveInv, NEW p \in Backends, SieveNotifyInsert(p)
  PROVE  SieveInv'
<1> USE DEF SieveInv
<1> DEFINE b == buf[p]
           cleared == IF InList(queue, b) THEN Unlink(queue, b) ELSE queue
           h == IF InList(queue, b) THEN HandAfterUnlink(b) ELSE hand
<1>1. /\ pc[p] = "insert" /\ queue' = InsertHead(cleared, b)
      /\ hand' = IF h = NBuffers THEN b ELSE h
      /\ linked' = linked \cup {b}
      /\ order' = WithNewest(Without(order, b), linked \ {b}, b)
      /\ HandBack(p) /\ UNCHANGED <<headerVars, strategyLock, pins, scanVars>>
  BY Zenon DEF SieveNotifyInsert
<1>2. b \in victims[p] /\ b \in Buf /\ b \in Slots
  BY <1>1, SentinelIsNoBuffer, Zenon DEF ClientInv, CallInv, ClientTypeOK
<1>3. InList(queue, b) <=> b \in linked
  BY <1>2, LinkedIsInList, Zenon
<1>4. /\ cleared \in Lists /\ Without(order, b) \in Order
      /\ Represents(cleared, linked \ {b}, Without(order, b))
  <2>1. CASE b \in linked
    BY <1>3, <2>1, UnlinkRepresents, Zenon DEF TypeOK, QueueWellFormed
  <2>2. CASE b \notin linked
    <3>1. linked \ {b} = linked
      BY <2>2
    <3> QED
      BY <1>2, <1>3, <2>2, <3>1, AbsentRepresents, Zenon DEF TypeOK, QueueWellFormed
  <2> QED
    BY <2>1, <2>2, Zenon
<1>5. /\ queue' \in Lists /\ order' \in Order
      /\ Represents(queue', linked', order')
  <2>1. b \in Buf \ (linked \ {b}) /\ linked \ {b} \in SUBSET Buf
    BY <1>2, Zenon DEF TypeOK
  <2>2. linked' = (linked \ {b}) \cup {b}
    BY <1>1, Zenon
  <2> HIDE DEF cleared
  <2>3. /\ InsertHead(cleared, b) \in Lists
        /\ WithNewest(Without(order, b), linked \ {b}, b) \in Order
        /\ Represents(InsertHead(cleared, b), (linked \ {b}) \cup {b},
                      WithNewest(Without(order, b), linked \ {b}, b))
    BY <1>4, <2>1, InsertRepresents, Zenon
  <2> QED
    BY <1>1, <2>2, <2>3, Zenon
<1>6. hand' \in linked' /\ hand' \in Slots
  <2>1. h = NBuffers \/ h \in linked
    BY <1>3, UnlinkOnQueue DEF HandOnQueue
  <2> QED
    BY <1>1, <1>2, <2>1, SentinelIsNoBuffer, Zenon DEF TypeOK
<1>7. ClientInv'
  BY <1>1, HandBackInv, Zenon
<1>8. TypeOK'
  BY <1>1, <1>2, <1>5, <1>6, <1>7, Zenon DEF TypeOK, ClientInv, scanVars
<1>9. QueueWellFormed' /\ HandOnQueue'
  BY <1>5, <1>6, Zenon DEF QueueWellFormed, HandOnQueue
<1>10. ScanInv'
  <2>1. /\ pc' = [pc EXCEPT ![p] = "idle"] /\ buf' = [buf EXCEPT ![p] = NBuffers]
        /\ strategyLock = None /\ strategyLock' = None /\ try' = try
    BY <1>1, Zenon DEF HandBack, Return, SieveNotifyInsert, scanVars
  <2>2. \A q \in Backends : ~Scanning(q)
    BY <2>1, Zenon DEF ScanInv
  <2>3. \A q \in Backends : pc'[q] \notin {"scan", "act"}
    BY <2>1, <2>2, Zenon DEF Scanning, TypeOK, ClientTypeOK
  <2> QED
    BY <2>1, <2>3, Zenon DEF ScanInv, Scanning
<1>11. NoBufferLost => NoBufferLost'
  <2>1. victims' \in [Backends -> SUBSET Buf] /\ linked' \in SUBSET Buf
    BY <1>7, <1>8, Zenon DEF ClientInv, ClientTypeOK, TypeOK
  <2>2. \A q \in Backends : victims[q] \subseteq victims'[q] \cup {b}
    BY <1>1, Zenon DEF HandBack, TypeOK, ClientTypeOK
  <2> QED
    BY <1>1, <2>1, <2>2, NothingLost, Zenon
<1> QED
  BY <1>7, <1>8, <1>9, <1>10, <1>11, Zenon

(***************************************************************************)
(* Every step of SIEVE and of the buffer manager keeps the invariant.      *)
(***************************************************************************)
LEMMA NextSieve == SieveInv /\ [Next]_vars => SieveInv'
<1> SUFFICES ASSUME SieveInv, [Next]_vars PROVE SieveInv'
  BY Zenon
<1>1. CASE UNCHANGED vars
  BY <1>1 DEF SieveInv, TypeOK, ClientInv, ClientTypeOK, RefcountCountsPins,
              Pinners, VictimsExclusive, CallInv, QueueWellFormed, HandOnQueue,
              ScanInv, Scanning, NoBufferLost, vars, clientVars, headerVars,
              listVars, scanVars
<1>2. ASSUME NEW p \in Backends, StartScan(p) PROVE SieveInv'
  BY <1>2, StartScanInv, Zenon
<1>3. ASSUME NEW p \in Backends, QueueEmpty(p) PROVE SieveInv'
  <2>1. Scanning(p) /\ HandOnQueue' /\ hand' \in Slots
    BY <1>3, Zenon DEF QueueEmpty, Scanning, SieveInv, HandOnQueue, TypeOK, listVars
  <2> QED
    BY <1>3, <2>1, EndScanInv, Zenon DEF QueueEmpty, listVars
<1>4. ASSUME NEW p \in Backends, ReadCandidate(p) PROVE SieveInv'
  BY <1>4, ReadCandidateInv
<1>5. ASSUME NEW p \in Backends, pc[p] = "act", SieveAdvanceHand,
             UNCHANGED linked
      PROVE  hand' \in linked /\ hand' \in Slots /\ HandOnQueue'
  <2>1. hand \in linked
    BY <1>5, Zenon DEF SieveInv, ScanInv
  <2> QED
    BY <1>5, <2>1, AdvanceOnQueue, Zenon DEF SieveInv, HandOnQueue
<1>6. ASSUME NEW p \in Backends, SkipLocked(p) PROVE SieveInv'
  <2>1. /\ pc[p] = "act" /\ Continue(p, try[p]) /\ hand' \in linked
        /\ UNCHANGED <<headerVars, pins, victims, queue, linked, order>>
    BY <1>5, <1>6, Zenon DEF SkipLocked, PassBusy
  <2>2. try[p] \in 1 .. NBuffers /\ buf[p] \in Buf
    BY <2>1, Zenon DEF SieveInv, ScanInv, Scanning, TypeOK
  <2>3. /\ seen' \in [Backends -> SUBSET Buf]
        /\ usage' \in [Buf -> 0 .. MaxUsage] /\ usage' = usage
    BY <1>6, <2>1, <2>2, Zenon
    DEF SkipLocked, SieveInv, TypeOK, ClientTypeOK, headerVars
  <2> QED
    BY <2>1, <2>2, <2>3, ContinueInv, Zenon DEF headerVars
<1>7. ASSUME NEW p \in Backends, SkipPinned(p) PROVE SieveInv'
  <2>1. /\ pc[p] = "act" /\ hand' \in linked /\ hand' \in Slots /\ HandOnQueue'
        /\ UNCHANGED <<headerVars, pins, victims, queue, linked, order>>
    BY <1>5, <1>7, Zenon DEF SkipPinned, PassBusy
  <2>2. try[p] \in 1 .. NBuffers /\ buf[p] \in Buf /\ Scanning(p)
    BY <2>1, Zenon DEF SieveInv, ScanInv, Scanning, TypeOK
  <2>3. CASE try[p] > 1 /\ Continue(p, try[p] - 1)
               /\ seen' = [seen EXCEPT ![p] = @ \cup {buf[p]}]
    <3>1. try[p] - 1 \in 1 .. NBuffers
      BY <2>2, <2>3, TrialCounts, Zenon
    <3>2. /\ seen' \in [Backends -> SUBSET Buf]
          /\ usage' \in [Buf -> 0 .. MaxUsage] /\ usage' = usage
      BY <2>1, <2>2, <2>3, Zenon DEF SieveInv, TypeOK, ClientTypeOK, headerVars
    <3> QED
      BY <2>1, <2>3, <3>1, <3>2, ContinueInv, Zenon DEF headerVars
  <2>4. CASE EndScan(p)
    BY <2>1, <2>2, <2>4, EndScanInv, Zenon
  <2> QED
    BY <1>7, <2>3, <2>4, Zenon DEF SkipPinned
<1>8. ASSUME NEW p \in Backends, ResetVisit(p) PROVE SieveInv'
  <2>1. /\ pc[p] = "act" /\ Continue(p, NBuffers) /\ hand' \in linked
        /\ UNCHANGED <<refcount, locked, tagged, pins, victims,
                       queue, linked, order>>
    BY <1>5, <1>8, Zenon DEF ResetVisit
  <2>2. seen' \in [Backends -> SUBSET Buf]
    BY <1>8, Zenon DEF ResetVisit, SieveInv, TypeOK
  <2>3. /\ usage' \in [Buf -> 0 .. MaxUsage]
        /\ \A b \in Buf : usage[b] = 0 => usage'[b] = 0
    <3>1. buf[p] \in Buf
      BY <2>1, Zenon DEF SieveInv, ScanInv, TypeOK
    <3>2. 0 \in 0 .. MaxUsage
      OBVIOUS
    <3> QED
      BY <1>8, <3>1, <3>2, Zenon DEF ResetVisit, SieveInv, TypeOK, ClientTypeOK
  <2> QED
    BY <2>1, <2>2, <2>3, TrialCounts, ContinueInv, Zenon
<1>9. ASSUME NEW p \in Backends, ClaimCandidate(p) PROVE SieveInv'
  BY <1>9, ClaimCandidateInv, Zenon
<1>10. ASSUME NEW p \in Backends, ClaimFails(p) PROVE SieveInv'
  <2>1. /\ pc[p] = "act" /\ Continue(p, NBuffers)
        /\ UNCHANGED <<headerVars, pins, victims, listVars>>
    BY <1>10, Zenon DEF ClaimFails, Claimable
  <2>2. seen' \in [Backends -> SUBSET Buf]
    BY <1>10, Zenon DEF ClaimFails, SieveInv, TypeOK
  <2>3. /\ hand' \in linked
        /\ usage' \in [Buf -> 0 .. MaxUsage] /\ usage' = usage
    BY <2>1, Zenon DEF SieveInv, ScanInv, TypeOK, ClientTypeOK, headerVars, listVars
  <2> QED
    BY <2>1, <2>2, <2>3, ContinueInv DEF headerVars, listVars
<1>11. ASSUME NEW p \in Backends, SieveNotifyInsert(p) PROVE SieveInv'
  BY <1>11, NotifyInsertInv
<1>12. ASSUME NEW p \in Backends, SieveNotifyInvalidate(p) PROVE SieveInv'
  <2>1. ClientInv'
    BY <1>12, NotifyInvalidateInv, Zenon DEF SieveNotifyInvalidate, SieveInv
  <2>2. TypeOK' /\ QueueWellFormed' /\ HandOnQueue'
    BY <1>12, <2>1, Zenon
    DEF SieveNotifyInvalidate, SieveInv, ClientInv, TypeOK, QueueWellFormed,
        HandOnQueue, listVars, scanVars
  <2>3. ScanInv'
    BY <1>12, Zenon DEF SieveNotifyInvalidate, Goto, SieveInv, ScanInv, Scanning,
                 TypeOK, ClientTypeOK, listVars, scanVars
  <2>4. NoBufferLost => NoBufferLost'
    BY <1>12, Zenon DEF SieveNotifyInvalidate, NoBufferLost, listVars
  <2> QED
    BY <2>1, <2>2, <2>3, <2>4, Zenon DEF SieveInv
<1>13. ASSUME NEW p \in Backends, ManagerStep(p), UNCHANGED <<listVars, scanVars>>
       PROVE  SieveInv'
  BY <1>13, ClientPreserves, Zenon DEF ClientStep
<1>14. ASSUME NEW p \in Backends, NEW b \in Buf, Pin(p, b) \/ LockHeader(p, b)
       PROVE  SieveInv'
  <2>1. ClientStep(p) /\ UNCHANGED <<listVars, scanVars>>
    BY <1>14 DEF Pin, LockHeader, ClientStep
  <2> QED
    BY <2>1, ClientPreserves, Zenon
<1> QED
  BY <1>1, <1>2, <1>3, <1>4, <1>6, <1>7, <1>8, <1>9, <1>10, <1>11, <1>12,
     <1>13, <1>14, Zenon
  DEF Next, SieveGetBuffer

(***************************************************************************)
(* The invariant holds throughout.                                         *)
(***************************************************************************)
LEMMA SieveInvariant == Spec => []SieveInv
  BY InitSieve, NextSieve, PTL DEF Spec

(***************************************************************************)
(* The state of SIEVE and of the buffer headers is of its type.            *)
(***************************************************************************)
THEOREM SieveTypeCorrect == Spec => []TypeOK
<1>1. SieveInv => TypeOK
  BY Zenon DEF SieveInv
<1> QED
  BY <1>1, SieveInvariant, PTL

(***************************************************************************)
(* Whatever mix of claims, ring reuse and reinsertion it sees, SIEVE's     *)
(* arrays form one list of the linked buffers in insertion order.          *)
(***************************************************************************)
THEOREM SieveQueueCorrect == Spec => []QueueWellFormed
<1>1. SieveInv => QueueWellFormed
  BY DEF SieveInv
<1> QED
  BY <1>1, SieveInvariant, PTL

(***************************************************************************)
(* SieveUnlinkAndAdvance and SieveNotifyInsert leave the hand on a linked  *)
(* buffer, or nowhere when the list is empty: the next scan never starts   *)
(* from a buffer that has been taken out.                                  *)
(***************************************************************************)
THEOREM SieveHandStaysOn == Spec => []HandOnQueue
<1>1. SieveInv => HandOnQueue
  BY DEF SieveInv
<1> QED
  BY <1>1, SieveInvariant, PTL

(***************************************************************************)
(* If every victim is handed back with StrategyNotifyInsert, the eviction  *)
(* list never loses a buffer.                                              *)
(***************************************************************************)
THEOREM SieveLosesNothing == ~LosesVictims => (Spec => []NoBufferLost)
<1>1. ~LosesVictims /\ SieveInv => NoBufferLost
  BY DEF SieveInv
<1>2. CASE ~LosesVictims
  <2>1. SieveInv => NoBufferLost
    BY <1>1, <1>2
  <2> QED
    BY <2>1, SieveInvariant, PTL
<1> QED
  BY <1>2

(***************************************************************************)
(* The shared reference count that SieveGetBuffer tests and bumps is, for  *)
(* every buffer, the number of backends that have it pinned.               *)
(***************************************************************************)
THEOREM SieveCountsPins == Spec => []RefcountCountsPins
<1>1. SieveInv => RefcountCountsPins
  BY DEF SieveInv, ClientInv
<1> QED
  BY <1>1, SieveInvariant, PTL

(***************************************************************************)
(* No buffer is the victim of two backends of SieveGetBuffer, and a victim *)
(* whose tag is gone is pinned by its claimer alone.                       *)
(***************************************************************************)
THEOREM SieveVictimsExclusive == Spec => []VictimsExclusive
<1>1. SieveInv => VictimsExclusive
  BY DEF SieveInv, ClientInv
<1> QED
  BY <1>1, SieveInvariant, PTL

-----------------------------------------------------------------------------
(***************************************************************************)
(* The pass before the error.  Since trycounter was last set to NBuffers   *)
(* the hand has gone over an arc of the list that ends just before it, or  *)
(* has been all round.  Arc(s, h) is the arc from s to before h, over the  *)
(* newest buffer and on from the oldest if s is newer than h.              *)
(***************************************************************************)
Arc(s, h) ==
  IF s = h \/ s \in order[h] THEN order[h] \ order[s]
  ELSE order[h] \cup (linked \ order[s])

PassOK(p) ==
  \/ linked \subseteq seen[p]
  \/ \E s \in linked :
       /\ Arc(s, hand) \subseteq seen[p]
       /\ NBuffers <= try[p] + Cardinality(Arc(s, hand))

PassInv == \A p \in Backends : Scanning(p) /\ linked # {} => PassOK(p)

\* An arc is a finite set of linked buffers without the buffer it ends at.
LEMMA ArcTyped ==
  ASSUME TypeOK, QueueWellFormed, NEW s \in linked, NEW h \in linked
  PROVE  /\ Arc(s, h) \subseteq linked /\ h \notin Arc(s, h)
         /\ IsFiniteSet(Arc(s, h)) /\ Cardinality(Arc(s, h)) \in Nat
<1>1. StrictTotalOrder(linked, order) /\ linked \subseteq Buf
  BY Zenon DEF TypeOK, QueueWellFormed, Represents
<1>2. Arc(s, h) \subseteq linked /\ h \notin Arc(s, h)
  <2>1. order[h] \subseteq linked /\ h \notin order[h]
    BY <1>1, Zenon DEF StrictTotalOrder
  <2>2. s = h \/ s \in order[h] \/ h \in order[s]
    BY <1>1, Zenon DEF StrictTotalOrder
  <2> QED BY <2>1, <2>2, Zenon DEF Arc
<1>3. IsFiniteSet(Buf)
  <2>1. 0 \in Int /\ NBuffers - 1 \in Int
    OBVIOUS
  <2> QED BY <2>1, FS_Interval DEF Buf
<1>4. Arc(s, h) \in SUBSET Buf
  BY <1>1, <1>2, Zenon
<1>5. PICK A \in SUBSET Buf : A = Arc(s, h)
  BY <1>4, Zenon
<1>6. IsFiniteSet(A) /\ Cardinality(A) \in Nat
  BY <1>3, FS_Subset, FS_CardinalityType, Zenon
<1> QED BY <1>2, <1>5, <1>6, Zenon

(***************************************************************************)
(* SieveAdvanceHand adds the buffer it leaves to the arc, or has been all  *)
(* round.                                                                  *)
(***************************************************************************)
LEMMA ArcGrows ==
  ASSUME TypeOK, QueueWellFormed, NEW s \in linked, NEW h \in linked,
         NEW n, n = IF queue.next[h] = NBuffers THEN ListTail(queue) ELSE queue.next[h]
  PROVE  \/ linked \subseteq Arc(s, h) \cup {h}
         \/ Arc(s, n) = Arc(s, h) \cup {h}
<1>1. /\ queue \in Lists /\ linked \in SUBSET Buf /\ order \in Order
      /\ Represents(queue, linked, order) /\ StrictTotalOrder(linked, order)
  BY Zenon DEF TypeOK, QueueWellFormed, Represents
<1>2. /\ ListTail(queue) \in linked /\ order[ListTail(queue)] = {}
      /\ queue.next[h] = NBuffers => linked = order[h] \cup {h}
      /\ queue.next[h] # NBuffers =>
           queue.next[h] \in linked /\ order[queue.next[h]] = order[h] \cup {h}
  BY <1>1, WalkFromOldest
<1>3. /\ order[h] \subseteq linked /\ h \notin order[h] /\ s \notin order[s]
      /\ s # h => (s \in order[h] <=> h \notin order[s])
  <2>1. ~(s \in order[h] /\ h \in order[s])
    BY <1>1, Zenon DEF StrictTotalOrder
  <2> QED BY <1>1, <2>1, Zenon DEF StrictTotalOrder
<1>4. CASE s = h \/ s \in order[h]
  <2>1. Arc(s, h) = order[h] \ order[s] /\ h \notin order[s]
    BY <1>3, <1>4, Zenon DEF Arc
  <2>2. CASE queue.next[h] # NBuffers
    <3>1. order[n] = order[h] \cup {h} /\ s \in order[n]
      BY <1>2, <1>4, <2>2, Zenon
    <3>2. Arc(s, n) = order[n] \ order[s]
      BY <3>1, Zenon DEF Arc
    <3> QED BY <2>1, <3>1, <3>2, Zenon
  <2>3. CASE queue.next[h] = NBuffers
    <3>1. linked = order[h] \cup {h} /\ n = ListTail(queue) /\ order[n] = {}
      BY <1>2, <2>3, Zenon
    <3>2. CASE s = n
      BY <2>1, <3>1, <3>2, Zenon
    <3>3. CASE s # n
      <4>1. Arc(s, n) = order[n] \cup (linked \ order[s])
        BY <3>1, <3>3, Zenon DEF Arc
      <4> QED BY <2>1, <3>1, <4>1, Zenon
    <3> QED BY <3>2, <3>3, Zenon
  <2> QED BY <2>2, <2>3, Zenon
<1>5. CASE s # h /\ s \notin order[h]
  <2>1. Arc(s, h) = order[h] \cup (linked \ order[s]) /\ h \in order[s]
    BY <1>3, <1>5, Zenon DEF Arc
  <2>2. queue.next[h] # NBuffers
    BY <1>2, <1>5, Zenon
  <2>3. n \in linked /\ order[n] = order[h] \cup {h}
    BY <1>2, <2>2, Zenon
  <2>4. CASE s = n
    BY <2>1, <2>3, <2>4, Zenon
  <2>5. CASE s # n
    <3>1. s \notin order[n]
      BY <1>5, <2>3, Zenon
    <3>2. Arc(s, n) = order[n] \cup (linked \ order[s])
      BY <2>5, <3>1, Zenon DEF Arc
    <3> QED BY <2>1, <2>3, <3>2, Zenon
  <2> QED BY <2>4, <2>5, Zenon
<1> QED BY <1>4, <1>5, Zenon

\* A pass begins wherever the hand is.
LEMMA PassBegins ==
  ASSUME hand' \in linked', NEW p \in Backends, try'[p] = NBuffers
  PROVE  PassOK(p)'
<1>1. Arc(hand, hand)' = {}
  BY Zenon DEF Arc
<1>2. NBuffers <= NBuffers + Cardinality({})
  BY FS_EmptySet
<1>3. Arc(hand, hand)' \subseteq seen'[p] /\ NBuffers <= try'[p] + Cardinality(Arc(hand, hand)')
  BY <1>1, <1>2, Zenon
<1>4. PICK s \in linked' : s = hand'
  BY Zenon
<1> QED BY <1>3, <1>4, Zenon DEF PassOK, Arc

(***************************************************************************)
(* A busy buffer is passed: the arc grows by one when trycounter goes down *)
(* by one.                                                                 *)
(***************************************************************************)
LEMMA PassGoesOn ==
  ASSUME TypeOK, QueueWellFormed, hand \in linked, NEW p \in Backends, PassOK(p),
         SieveAdvanceHand, UNCHANGED <<queue, linked, order>>,
         seen'[p] = seen[p] \cup {hand}, try[p] \in 1 .. NBuffers,
         try'[p] = try[p] \/ try'[p] = try[p] - 1
  PROVE  PassOK(p)'
<1>1. CASE linked \subseteq seen[p]
  BY <1>1, Zenon DEF PassOK
<1>2. ASSUME NEW s \in linked, Arc(s, hand) \subseteq seen[p],
             NBuffers <= try[p] + Cardinality(Arc(s, hand))
      PROVE  PassOK(p)'
  <2>1. CASE linked \subseteq Arc(s, hand) \cup {hand}
    <3>1. linked' \subseteq seen'[p]
      BY <1>2, <2>1, Zenon
    <3> QED BY <3>1, Zenon DEF PassOK
  <2>2. CASE Arc(s, hand') = Arc(s, hand) \cup {hand}
    <3>1. PICK A : A = Arc(s, hand)
      BY Zenon
    <3>2. hand \notin A /\ IsFiniteSet(A) /\ Cardinality(A) \in Nat
      BY <3>1, ArcTyped, Zenon
    <3>3. Cardinality(A \cup {hand}) = Cardinality(A) + 1
      BY <3>2, OneMore, Zenon
    <3>4. Arc(s, hand)' = A \cup {hand}
      <4>1. Arc(s, hand)' = Arc(s, hand')
        BY Zenon DEF Arc
      <4> QED BY <2>2, <3>1, <4>1, Zenon
    <3>5. NBuffers <= try[p] + Cardinality(A)
      BY <1>2, <3>1, Zenon
    <3>6. NBuffers <= try'[p] + Cardinality(A \cup {hand})
      BY <3>2, <3>3, <3>5
    <3>7. A \cup {hand} \subseteq seen'[p]
      BY <1>2, <3>1, Zenon
    <3>8. /\ s \in linked' /\ Arc(s, hand)' \subseteq seen'[p]
          /\ NBuffers <= try'[p] + Cardinality(Arc(s, hand)')
      BY <3>4, <3>6, <3>7, Zenon
    <3> QED BY <3>8, Zenon DEF PassOK
  <2> QED BY <2>1, <2>2, ArcGrows, Zenon DEF SieveAdvanceHand
<1> QED BY <1>1, <1>2, Zenon DEF PassOK

\* Initially nobody scans.
LEMMA InitPass == Init => PassInv
BY DEF Init, ClientInit, PassInv, Scanning

\* Every step keeps the account of the pass.
LEMMA NextPass == SieveInv /\ SieveInv' /\ PassInv /\ [Next]_vars => PassInv'
<1> SUFFICES ASSUME SieveInv, SieveInv', PassInv, [Next]_vars PROVE PassInv'
  BY Zenon
<1>1. /\ TypeOK /\ ClientTypeOK /\ QueueWellFormed /\ HandOnQueue /\ ScanInv
      /\ ScanInv' /\ HandOnQueue'
  BY Zenon DEF SieveInv, TypeOK
<1>2. ASSUME UNCHANGED <<listVars, try, seen>>,
             \A q \in Backends : Scanning(q)' => Scanning(q)
      PROVE  PassInv'
  BY <1>2, Zenon DEF PassInv, PassOK, Arc, listVars
<1>3. ASSUME strategyLock' = None  PROVE PassInv'
  BY <1>1, <1>3, Zenon DEF PassInv, ScanInv
<1>4. ASSUME NEW p \in Backends, strategyLock' = p, linked' # {} => PassOK(p)'
      PROVE  PassInv'
  <2>1. \A q \in Backends : Scanning(q)' => q = p
    BY <1>1, <1>4, Zenon DEF ScanInv
  <2> QED BY <1>4, <2>1, Zenon DEF PassInv, PassOK, Arc
<1>5. ASSUME NEW p \in Backends, pc[p] = "act"
      PROVE  /\ hand \in linked /\ buf[p] = hand /\ PassOK(p) /\ strategyLock = p
             /\ try[p] \in 1 .. NBuffers /\ linked # {}
  <2>1. Scanning(p) /\ hand \in linked /\ buf[p] = hand
    BY <1>1, <1>5, Zenon DEF ScanInv, Scanning
  <2> QED BY <1>1, <2>1, Zenon DEF ScanInv, PassInv
<1>6. CASE UNCHANGED vars
  <2>1. UNCHANGED <<listVars, try, seen, pc>>
    BY <1>6, Zenon DEF vars, clientVars, scanVars
  <2> QED BY <1>2, <2>1, Zenon DEF Scanning
<1>7. ASSUME NEW p \in Backends, StartScan(p)  PROVE PassInv'
  <2>1. strategyLock' = p /\ try'[p] = NBuffers
    BY <1>1, <1>7, Zenon DEF StartScan, AcquireStrategyLock, TypeOK
  <2>2. linked' # {} => hand' \in linked'
    BY <1>1, Zenon DEF HandOnQueue
  <2> QED BY <1>4, <2>1, <2>2, PassBegins, Zenon
<1>8. ASSUME NEW p \in Backends, ReadCandidate(p)  PROVE PassInv'
  <2>1. /\ UNCHANGED <<listVars, try, seen>> /\ pc[p] = "scan"
        /\ \A q \in Backends : q # p => pc'[q] = pc[q]
    BY <1>1, <1>8, Zenon DEF ReadCandidate, Goto, ClientTypeOK
  <2> QED BY <1>2, <2>1, Zenon DEF Scanning
<1>9. ASSUME NEW p \in Backends, SkipLocked(p) \/ SkipPinned(p)  PROVE PassInv'
  <2>1. /\ pc[p] = "act" /\ SieveAdvanceHand /\ UNCHANGED <<queue, linked, order>>
    BY <1>9, Zenon DEF SkipLocked, SkipPinned, PassBusy
  <2>2. CASE EndScan(p)
    BY <1>3, <2>2, Zenon DEF EndScan
  <2>3. CASE ~EndScan(p)
    <3>1. /\ strategyLock' = strategyLock /\ seen' = [seen EXCEPT ![p] = @ \cup {buf[p]}]
          /\ \E k \in {try[p], try[p] - 1} : try' = [try EXCEPT ![p] = k]
      BY <1>9, <2>3, Zenon DEF SkipLocked, SkipPinned, Continue
    <3>2. seen'[p] = seen[p] \cup {hand} /\ (try'[p] = try[p] \/ try'[p] = try[p] - 1)
      BY <1>1, <1>5, <2>1, <3>1, Zenon DEF TypeOK
    <3>3. PassOK(p)'
      BY <1>1, <1>5, <2>1, <3>2, PassGoesOn, Zenon
    <3> QED BY <1>4, <1>5, <2>1, <3>1, <3>3, Zenon
  <2> QED BY <2>2, <2>3, Zenon
<1>10. ASSUME NEW p \in Backends, ResetVisit(p) \/ ClaimFails(p)  PROVE PassInv'
  <2>1. pc[p] = "act" /\ strategyLock' = strategyLock /\ try' = [try EXCEPT ![p] = NBuffers]
    BY <1>10, Zenon DEF ResetVisit, ClaimFails, Claimable, Continue
  <2>2. strategyLock' = p /\ try'[p] = NBuffers
    BY <1>1, <1>5, <2>1, Zenon DEF TypeOK
  <2>3. linked' # {} => hand' \in linked'
    BY <1>1, Zenon DEF HandOnQueue
  <2> QED BY <1>4, <2>2, <2>3, PassBegins, Zenon
<1>11. ASSUME NEW p \in Backends, QueueEmpty(p) \/ ClaimCandidate(p) \/ SieveNotifyInsert(p)
       PROVE  PassInv'
  BY <1>3, <1>11, Zenon DEF QueueEmpty, ClaimCandidate, SieveNotifyInsert, EndScan
<1>12. ASSUME NEW p \in Backends, SieveNotifyInvalidate(p)  PROVE PassInv'
  <2>1. /\ UNCHANGED <<listVars, try, seen>> /\ pc'[p] = "clear"
        /\ \A q \in Backends : q # p => pc'[q] = pc[q]
    BY <1>1, <1>12, Zenon DEF SieveNotifyInvalidate, Goto, ClientTypeOK, scanVars
  <2>2. ~Scanning(p)'
    BY <2>1 DEF Scanning
  <2> QED BY <1>2, <2>1, <2>2, Zenon DEF Scanning
<1>13. ASSUME NEW p \in Backends, ClientStep(p), UNCHANGED <<listVars, scanVars>>
       PROVE  PassInv'
  <2>1. /\ UNCHANGED <<listVars, try, seen>> /\ pc'[p] \notin {"scan", "act"}
        /\ \A q \in Backends \ {p} : pc'[q] = pc[q]
    BY <1>1, <1>13, ClientStepFrame, Zenon DEF scanVars
  <2> QED BY <1>2, <2>1, Zenon DEF Scanning
<1>14. ASSUME NEW p \in Backends, NEW b \in Buf, Pin(p, b) \/ LockHeader(p, b)
       PROVE  PassInv'
  BY <1>13, <1>14, Zenon DEF Pin, LockHeader, ClientStep
<1> QED BY <1>6, <1>7, <1>8, <1>9, <1>10, <1>11, <1>12, <1>13, <1>14, Zenon
        DEF Next, SieveGetBuffer, ClientStep

\* With trycounter at 1 the arc and the buffer under the hand are the pool.
LEMMA WholePass ==
  ASSUME SieveInv, PassInv, NEW p \in Backends, pc[p] = "act", try[p] = 1
  PROVE  linked \subseteq seen[p] \cup {buf[p]}
<1>1. /\ TypeOK /\ QueueWellFormed /\ PassOK(p) /\ linked \subseteq Buf
      /\ hand \in linked /\ buf[p] = hand
  <2>1. Scanning(p) /\ hand \in linked /\ buf[p] = hand
    BY Zenon DEF SieveInv, ScanInv, Scanning
  <2> QED BY <2>1, Zenon DEF SieveInv, TypeOK, PassInv
<1>2. ASSUME NEW s \in linked, Arc(s, hand) \subseteq seen[p],
             NBuffers <= 1 + Cardinality(Arc(s, hand))
      PROVE  linked \subseteq seen[p] \cup {hand}
  <2>1. PICK A : A = Arc(s, hand)
    BY Zenon
  <2>2. A \subseteq linked /\ hand \notin A /\ IsFiniteSet(A) /\ Cardinality(A) \in Nat
    BY <1>1, <2>1, ArcTyped, Zenon
  <2>3. Cardinality(A \cup {hand}) = Cardinality(A) + 1
    BY <2>2, OneMore, Zenon
  <2>4. NBuffers <= 1 + Cardinality(A)
    BY <1>2, <2>1, Zenon
  <2>5. NBuffers <= Cardinality(A \cup {hand})
    BY <2>2, <2>3, <2>4
  <2>6. A \cup {hand} \subseteq Buf
    BY <1>1, <2>2, Zenon
  <2>7. A \cup {hand} = Buf
    BY <2>5, <2>6, WholePool, Zenon
  <2> QED BY <1>1, <1>2, <2>1, <2>7, Zenon
<1> QED BY <1>1, <1>2, Zenon DEF PassOK

(***************************************************************************)
(* SieveGetBuffer reports "no unpinned buffers available" only after the   *)
(* hand has been at every buffer of the list and found it pinned, or its   *)
(* header locked, since trycounter was last reset: wherever on the list    *)
(* the hand began, also when the list is shorter than the pool, and        *)
(* although locked headers are passed without counting.                    *)
(***************************************************************************)
THEOREM SieveErrorAfterFullPass == Spec => []FullPassBeforeError
<1>1. SieveInv /\ PassInv => FullPassBeforeError
  BY WholePass, Zenon DEF FullPassBeforeError
<1> QED
  BY <1>1, InitPass, NextPass, SieveInvariant, PTL DEF Spec

-----------------------------------------------------------------------------
(***************************************************************************)
(* Every step is a step of the contract or changes nothing it speaks       *)
(* about.                                                                  *)
(***************************************************************************)
LEMMA ContractStep == SieveInv /\ [Next]_vars => [Contract!Next]_Contract!vars
<1> SUFFICES ASSUME SieveInv, [Next]_vars
             PROVE  Contract!Next \/ UNCHANGED Contract!vars
  OBVIOUS
<1>1. CASE UNCHANGED vars
  BY <1>1, Zenon DEF vars, listVars, clientVars, Contract!vars
<1>2. ASSUME NEW p \in Backends,
             \/ StartScan(p) \/ QueueEmpty(p) \/ ReadCandidate(p)
             \/ SkipLocked(p) \/ SkipPinned(p) \/ ResetVisit(p) \/ ClaimFails(p)
             \/ SieveNotifyInvalidate(p)
      PROVE  UNCHANGED Contract!vars
  BY <1>2, Zenon DEF StartScan, QueueEmpty, ReadCandidate, SkipLocked, SkipPinned,
              PassBusy, ResetVisit, ClaimFails, SieveNotifyInvalidate,
              listVars, Contract!vars
<1>3. ASSUME NEW p \in Backends, ClaimCandidate(p) PROVE Contract!Next
  <2>1. /\ buf[p] \in linked /\ \A q \in Backends : buf[p] \notin pins[q]
        /\ buf[p] \in Buf
    BY <1>3, ClaimCandidateInv, Zenon DEF SieveInv, TypeOK
  <2>2. Contract!Claim(p, buf[p])
    BY <1>3, <2>1, Zenon DEF ClaimCandidate, Claim, SieveUnlinkAndAdvance,
                      Contract!Claim, Contract!Take, Contract!Unpinned
  <2> QED
    BY <2>1, <2>2, Zenon DEF Contract!Next
<1>4. ASSUME NEW p \in Backends, SieveNotifyInsert(p) PROVE Contract!Next
  <2>1. buf[p] \in victims[p] /\ buf[p] \in Buf
    BY <1>4, Zenon DEF SieveNotifyInsert, SieveInv, ClientInv, CallInv, ClientTypeOK
  <2>2. Contract!GiveBack(p, buf[p])
    BY <1>4, <2>1, Zenon DEF SieveNotifyInsert, HandBack, Contract!GiveBack
  <2> QED
    BY <2>1, <2>2, Zenon DEF Contract!Next
<1>5. ASSUME NEW p \in Backends, ManagerStep(p), UNCHANGED <<listVars, scanVars>>
      PROVE  Contract!Next \/ UNCHANGED Contract!vars
  <2>1. CASE StrategyGetBuffer(p) \/ UnlockPinned(p) \/ ClearBufferTag(p)
    BY <1>5, <2>1, Zenon DEF StrategyGetBuffer, UnlockPinned, ClearBufferTag,
                      listVars, Contract!vars
  <2>2. ASSUME NEW b \in Buf, UnpinBuffer(p, b) PROVE Contract!Next
    <3>1. Contract!Unpin(p, b)
      BY <1>5, <2>2, Zenon DEF UnpinBuffer, Contract!Unpin, listVars
    <3> QED
      BY <3>1, Zenon DEF Contract!Next
  <2>3. ASSUME NEW b \in Buf, GetBufferFromRing(p, b) PROVE Contract!Next
    <3>1. \A q \in Backends : b \notin pins[q]
      BY <2>3, RefcountMeaning, Zenon DEF GetBufferFromRing, SieveInv, ClientInv
    <3>2. Contract!ClaimFromRing(p, b)
      BY <1>5, <2>3, <3>1, Zenon DEF GetBufferFromRing, listVars,
         Contract!ClaimFromRing, Contract!Take, Contract!Unpinned
    <3> QED
      BY <3>2, Zenon DEF Contract!Next
  <2>4. ASSUME NEW b \in Buf,
               InvalidateVictimBuffer(p, b) \/ ReuseVictim(p, b) \/ GiveUpVictim(p, b)
        PROVE  UNCHANGED Contract!vars
    BY <1>5, <2>4, Zenon DEF InvalidateVictimBuffer, ReuseVictim, GiveUpVictim,
                      listVars, Contract!vars
  <2>5. ASSUME NEW b \in Buf, LoseVictim(p, b) PROVE Contract!Next
    <3>1. Contract!Lose(p, b)
      BY <1>5, <2>5, Zenon DEF LoseVictim, Contract!Lose, listVars
    <3> QED
      BY <3>1, Zenon DEF Contract!Next
  <2> QED
    BY <1>5, <2>1, <2>2, <2>3, <2>4, <2>5, Zenon DEF ManagerStep
<1>6. ASSUME NEW p \in Backends, NEW b \in Buf, Pin(p, b) PROVE Contract!Next
  <2>1. Contract!Pin(p, b)
    BY <1>6, Zenon DEF Pin, PinBuffer, PinBuffer_Locked, Contract!Pin, listVars
  <2> QED
    BY <2>1, Zenon DEF Contract!Next
<1>7. ASSUME NEW p \in Backends, NEW b \in Buf, LockHeader(p, b)
      PROVE  UNCHANGED Contract!vars
  BY <1>7, Zenon DEF LockHeader, LockBufHdr, listVars, Contract!vars
<1> QED
  BY <1>1, <1>2, <1>3, <1>4, <1>5, <1>6, <1>7, Zenon DEF Next, SieveGetBuffer

(***************************************************************************)
(* SIEVE implements the eviction contract: every buffer SieveGetBuffer     *)
(* returns was linked and pinned by nobody, and it comes back to the list  *)
(* exactly when StrategyNotifyInsert is called for it.                     *)
(***************************************************************************)
THEOREM SieveImplementsContract == Spec => ImplementsContract
<1>1. Init => Contract!Init
  BY DEF Init, ClientInit, Contract!Init
<1> QED
  BY <1>1, ContractStep, SieveInvariant, PTL
  DEF Spec, ImplementsContract, Contract!Spec
=============================================================================
