----------------------------- MODULE LRUProofs -----------------------------
(***************************************************************************)
(* LRU keeps its list in order of last use, takes the least recently used  *)
(* buffer it may, reports an error only after a full pass and implements   *)
(* the eviction contract, for every number of buffers and every finite set *)
(* of backends.                                                            *)
(***************************************************************************)
EXTENDS LRU, PolicyClientProofs

USE NBuffersAssumption, ClientAssumption

(***************************************************************************)
(* The inductive invariant.  Only the holder of buffer_strategy_lock is in *)
(* the loop of LRUGetBuffer.  Its candidate is linked and everything used  *)
(* less recently has been passed; and either all of the list has been      *)
(* passed, or as many buffers as trycounter has gone down lie behind the   *)
(* candidate.                                                              *)
(***************************************************************************)
ScanOK(p) ==
  /\ Scanning(p) <=> strategyLock = p
  /\ Scanning(p) =>
       /\ try[p] \in 1 .. NBuffers
       /\ buf[p] = NBuffers => linked = {}
       /\ buf[p] # NBuffers =>
            /\ buf[p] \in linked /\ order[buf[p]] \subseteq passed[p]
            /\ \/ linked \subseteq passed[p]
               \/ NBuffers <= try[p] + Cardinality(order[buf[p]])
  /\ pc[p] = "act" => buf[p] # NBuffers /\ old[p].locked = None

ScanInv == \A p \in Backends : ScanOK(p)

DropsAllowed == \A p \in Backends : pc[p] = "inval" => Invalidates

LRUInv ==
  /\ TypeOK
  /\ ClientInv
  /\ QueueWellFormed
  /\ ScanInv
  /\ DropsAllowed

-----------------------------------------------------------------------------
(***************************************************************************)
(* Who is in the loop.                                                     *)
(***************************************************************************)
\* Nobody scans while buffer_strategy_lock is free.
LEMMA FreeMeansIdle ==
  ASSUME ScanInv, strategyLock = None
  PROVE  \A q \in Backends : pc[q] \notin {"scan", "act"}
BY Zenon DEF ScanInv, ScanOK, Scanning

\* While p scans, nobody else does.
LEMMA OneScanner ==
  ASSUME ScanInv, NEW p \in Backends, Scanning(p)
  PROVE  strategyLock = p /\ \A q \in Backends : q # p => pc[q] \notin {"scan", "act"}
BY Zenon DEF ScanInv, ScanOK, Scanning

\* With buffer_strategy_lock released there is no scan to speak about.
LEMMA NoScan ==
  ASSUME strategyLock' = None, \A q \in Backends : pc'[q] \notin {"scan", "act"}
  PROVE  ScanInv'
<1> SUFFICES ASSUME NEW q \in Backends  PROVE ScanOK(q)'
  BY Zenon DEF ScanInv
<1>1. strategyLock' # q /\ pc'[q] # "act"
  BY Zenon
<1> QED BY <1>1, Zenon DEF ScanOK, Scanning

\* A step of the loop that stays in the loop.
LEMMA StillScanning ==
  ASSUME NEW p \in Backends, strategyLock' = p, ScanOK(p)',
         \A q \in Backends : q # p => pc'[q] \notin {"scan", "act"}
  PROVE  ScanInv'
<1> SUFFICES ASSUME NEW q \in Backends  PROVE ScanOK(q)'
  BY Zenon DEF ScanInv
<1>1. CASE q = p
  BY <1>1, Zenon DEF ScanOK, Scanning
<1>2. CASE q # p
  <2>1. strategyLock' # q /\ pc'[q] \notin {"scan", "act"} /\ pc'[q] # "act"
    BY <1>2, Zenon
  <2> QED BY <2>1, Zenon DEF ScanOK, Scanning
<1> QED BY <1>1, <1>2, Zenon

\* How many buffers are behind a linked one is a number.
LEMMA BehindFinite ==
  ASSUME TypeOK, NEW b \in Buf
  PROVE  IsFiniteSet(order[b]) /\ Cardinality(order[b]) \in Nat
<1>1. IsFiniteSet(Buf)
  <2>1. 0 \in Int /\ NBuffers - 1 \in Int
    OBVIOUS
  <2> QED BY <2>1, FS_Interval DEF Buf
<1>2. order[b] \subseteq Buf
  BY Zenon DEF TypeOK, Order
<1> QED BY <1>1, <1>2, FS_Subset, FS_CardinalityType, Zenon

\* LRU_IN_LIST decides membership.
LEMMA LinkedIsInList ==
  ASSUME TypeOK, QueueWellFormed, NEW b \in Buf
  PROVE  InList(queue, b) <=> b \in linked
<1>1. /\ queue \in Lists /\ linked \in SUBSET Buf /\ order \in Order
      /\ Represents(queue, linked, order)
  BY Zenon DEF TypeOK, QueueWellFormed
<1> QED BY <1>1, InListIsMember, Zenon

-----------------------------------------------------------------------------
\* The invariant holds initially.
LEMMA InitLRU == Init => LRUInv
<1> SUFFICES ASSUME Init PROVE LRUInv
  BY Zenon
<1>1. ClientTypeOK
  BY SentinelIsNoBuffer DEF Init, ClientInit, ClientTypeOK, PCs
<1>2. RefcountCountsPins
  <2>1. \A b \in Buf : Pinners(b) = {}
    BY DEF Init, ClientInit, Pinners
  <2> QED BY <2>1, FS_EmptySet, Zenon DEF Init, ClientInit, RefcountCountsPins
<1>3. VictimsExclusive /\ CallInv
  BY DEF Init, ClientInit, VictimsExclusive, CallInv
<1>4. TypeOK
  <2>1. NoWord \in Words
    BY DEF NoWord, Words
  <2>2. 0 \in 0 .. NBuffers
    OBVIOUS
  <2> QED
    BY <1>1, <2>1, <2>2, InitListRepresents, Zenon DEF Init, LRUInitialize, TypeOK
<1>5. QueueWellFormed
  BY InitListRepresents, Zenon DEF Init, LRUInitialize, QueueWellFormed
<1>6. ScanInv
  BY DEF Init, ClientInit, ScanInv, ScanOK, Scanning
<1>7. DropsAllowed
  BY DEF Init, ClientInit, DropsAllowed
<1> QED
  BY <1>1, <1>2, <1>3, <1>4, <1>5, <1>6, <1>7, Zenon DEF LRUInv, ClientInv

(***************************************************************************)
(* Steps of the buffer manager.                                            *)
(***************************************************************************)
LEMMA ClientPreserves ==
  ASSUME LRUInv, NEW p \in Backends, ClientStep(p),
         UNCHANGED <<listVars, scanVars>>
  PROVE  LRUInv'
<1>1. ClientInv'
  BY ClientStepInv, Zenon DEF LRUInv
<1>2. /\ UNCHANGED <<queue, linked, order, try, old, passed>>
      /\ TypeOK /\ QueueWellFormed /\ ScanInv /\ DropsAllowed /\ ClientTypeOK
  BY Zenon DEF LRUInv, ClientInv, listVars, scanVars
<1>3. TypeOK' /\ QueueWellFormed'
  BY <1>1, <1>2, Zenon DEF ClientInv, TypeOK, QueueWellFormed
<1>4. /\ pc[p] \notin {"scan", "act"} /\ pc'[p] \notin {"scan", "act"}
      /\ \A q \in Backends \ {p} : pc'[q] = pc[q] /\ buf'[q] = buf[q]
      /\ strategyLock' = strategyLock
  BY <1>2, ClientStepFrame, Zenon
<1>5. ScanInv'
  <2> SUFFICES ASSUME NEW q \in Backends  PROVE ScanOK(q)'
    BY Zenon DEF ScanInv
  <2>1. ScanOK(q)
    BY <1>2, Zenon DEF ScanInv
  <2>2. CASE q = p
    <3>1. strategyLock' # q /\ pc'[q] # "act"
      BY <1>4, <2>1, <2>2, Zenon DEF ScanOK, Scanning
    <3> QED BY <1>4, <2>2, <3>1, Zenon DEF ScanOK, Scanning
  <2>3. CASE q # p
    BY <1>2, <1>4, <2>1, <2>3, Zenon DEF ScanOK, Scanning
  <2> QED BY <2>2, <2>3, Zenon
<1>6. DropsAllowed'
  <2>1. pc'[p] = "inval" => Invalidates
    <3>1. CASE \E b \in Buf : LockBufHdr(p, b)
      BY <3>1, Zenon DEF LockBufHdr
    <3>2. CASE \E b \in Buf : PinBuffer_Locked(p, b) \/ \E then \in {"idle", "hit"} : PinBuffer(p, b, then)
      BY <1>2, <3>2, Zenon DEF PinBuffer, PinBuffer_Locked, ClientTypeOK, DropsAllowed
    <3>3. CASE ManagerStep(p)
      BY <1>2, <3>3 DEF ManagerStep, StrategyGetBuffer, UnlockPinned, ClearBufferTag,
         UnpinBuffer, GetBufferFromRing, InvalidateVictimBuffer, ReuseVictim, GiveUpVictim,
         LoseVictim, Goto, Return, ClientTypeOK, DropsAllowed
    <3> QED BY <3>1, <3>2, <3>3, Zenon DEF ClientStep
  <2> QED BY <1>2, <1>4, <2>1, Zenon DEF DropsAllowed
<1> QED BY <1>1, <1>3, <1>5, <1>6, Zenon DEF LRUInv
-----------------------------------------------------------------------------
(***************************************************************************)
(* The steps of LRUGetBuffer.                                              *)
(***************************************************************************)
\* What every step of the loop keeps of the buffer headers and the list.
LEMMA LoopFrame ==
  ASSUME LRUInv, NEW p \in Backends, NEW x \in {"idle", "scan", "act"},
         NEW b \in Slots, NEW l \in Backends \cup {None},
         pc' = [pc EXCEPT ![p] = x], buf' = [buf EXCEPT ![p] = b], strategyLock' = l,
         UNCHANGED <<headerVars, pins, victims, listVars>>,
         try' \in [Backends -> 0 .. NBuffers], old' \in [Backends -> Words],
         passed' \in [Backends -> SUBSET Buf]
  PROVE  TypeOK' /\ ClientInv' /\ QueueWellFormed' /\ DropsAllowed'
<1>1. ClientTypeOK /\ TypeOK /\ ClientInv /\ QueueWellFormed /\ DropsAllowed
  BY Zenon DEF LRUInv, ClientInv
<1>2. /\ pc' \in [Backends -> PCs] /\ buf' \in [Backends -> Slots]
      /\ \A q \in Backends \ {p} : pc'[q] = pc[q] /\ buf'[q] = buf[q]
      /\ pc'[p] = x /\ pc'[p] \in {"idle", "get", "scan", "act"}
  <2>1. x \in PCs
    BY DEF PCs
  <2> QED BY <1>1, <2>1, Zenon DEF ClientTypeOK
<1>3. /\ UNCHANGED <<refcount, usage, locked, tagged, pins, victims, queue, linked, order>>
      /\ usage' \in [Buf -> 0 .. MaxUsage]
  BY <1>1, Zenon DEF headerVars, listVars, ClientTypeOK
<1>4. ClientInv'
  <2>1. \A c \in Buf : usage[c] = 0 => usage'[c] = 0
    BY <1>3, Zenon
  <2> QED BY <1>1, <1>2, <1>3, <2>1, ScanStepInv, Zenon
<1>5. TypeOK' /\ QueueWellFormed'
  BY <1>1, <1>3, <1>4, Zenon DEF TypeOK, ClientInv, QueueWellFormed
<1>6. DropsAllowed'
  <2>1. pc'[p] # "inval"
    BY <1>2
  <2> QED BY <1>1, <1>2, <2>1, Zenon DEF DropsAllowed
<1> QED BY <1>4, <1>5, <1>6, Zenon

\* The empty word that stands for an unset local.
LEMMA NoWordTyped == NoWord \in Words /\ NBuffers \in Slots /\ NBuffers \in 1 .. NBuffers
BY SentinelIsNoBuffer DEF NoWord, Words

\* LRUGetBuffer takes the lock and starts at the tail.
LEMMA StartScanInv ==
  ASSUME LRUInv, NEW p \in Backends, StartScan(p)
  PROVE  LRUInv'
<1>1. /\ TypeOK /\ ScanInv /\ QueueWellFormed /\ ClientTypeOK
      /\ strategyLock = None
      /\ pc' = [pc EXCEPT ![p] = "scan"] /\ buf' = [buf EXCEPT ![p] = ListTail(queue)]
      /\ strategyLock' = p /\ try' = [try EXCEPT ![p] = NBuffers]
      /\ UNCHANGED <<headerVars, pins, victims, listVars, old, passed>>
  BY Zenon DEF LRUInv, ClientInv, StartScan, AcquireStrategyLock, Goto
<1>2. /\ IF linked = {} THEN ListTail(queue) = NBuffers
         ELSE ListTail(queue) \in linked /\ order[ListTail(queue)] = {}
      /\ ListTail(queue) \in Slots
  <2>1. IF linked = {} THEN ListTail(queue) = NBuffers
        ELSE ListTail(queue) \in linked /\ order[ListTail(queue)] = {}
    BY <1>1, Zenon DEF QueueWellFormed, Represents, IsTail
  <2>2. linked \subseteq Slots /\ NBuffers \notin linked
    BY <1>1, SentinelIsNoBuffer, Zenon DEF TypeOK
  <2> QED BY <2>1, <2>2, NoWordTyped, Zenon
<1>3. /\ try' \in [Backends -> 0 .. NBuffers] /\ old' \in [Backends -> Words]
      /\ passed' \in [Backends -> SUBSET Buf] /\ try'[p] = NBuffers
  BY <1>1 DEF TypeOK
<1>4. TypeOK' /\ ClientInv' /\ QueueWellFormed' /\ DropsAllowed'
  BY <1>1, <1>2, <1>3, LoopFrame, Zenon
<1>5. /\ pc'[p] = "scan" /\ buf'[p] = ListTail(queue)
      /\ \A q \in Backends : q # p => pc'[q] \notin {"scan", "act"}
  BY <1>1, FreeMeansIdle, Zenon DEF ClientTypeOK
<1>6. ScanOK(p)'
  <2>1. NBuffers <= NBuffers + Cardinality({})
    BY FS_EmptySet
  <2>2. linked' = linked /\ order' = order
    BY <1>1, Zenon DEF listVars
  <2>3. ListTail(queue) \in linked => ListTail(queue) # NBuffers
    BY <1>1, SentinelIsNoBuffer, Zenon DEF TypeOK
  <2>4. Scanning(p)' /\ pc'[p] # "act" /\ try'[p] \in 1 .. NBuffers
    BY <1>3, <1>5, NoWordTyped, Zenon DEF Scanning
  <2>5. CASE linked = {}
    <3>1. buf'[p] = NBuffers /\ linked' = {}
      BY <1>2, <1>5, <2>2, <2>5, Zenon
    <3> QED BY <1>1, <2>4, <3>1, Zenon DEF ScanOK
  <2>6. CASE linked # {}
    <3>1. buf'[p] # NBuffers /\ buf'[p] \in linked' /\ order'[buf'[p]] = {}
      BY <1>2, <1>5, <2>2, <2>3, <2>6, Zenon
    <3>2. {} \subseteq passed'[p] /\ NBuffers <= try'[p] + Cardinality(order'[buf'[p]])
      BY <1>3, <2>1, <3>1, Zenon
    <3> QED BY <1>1, <2>4, <3>1, <3>2, Zenon DEF ScanOK
  <2> QED BY <2>5, <2>6, Zenon
<1> QED BY <1>1, <1>4, <1>5, <1>6, StillScanning, Zenon DEF LRUInv

\* WaitBufHdrUnlocked is through, and the state word of the candidate is read.
LEMMA ReadCandidateInv ==
  ASSUME LRUInv, NEW p \in Backends, ReadCandidate(p)
  PROVE  LRUInv'
<1>1. /\ TypeOK /\ ScanInv /\ QueueWellFormed /\ ClientTypeOK
      /\ pc[p] = "scan" /\ buf[p] # NBuffers /\ locked[buf[p]] = None
      /\ pc' = [pc EXCEPT ![p] = "act"] /\ old' = [old EXCEPT ![p] = Word(buf[p])]
      /\ UNCHANGED <<headerVars, strategyLock, buf, pins, victims, listVars, try, passed>>
  BY Zenon DEF LRUInv, ClientInv, ReadCandidate, Goto
<1>2. ScanOK(p) /\ Scanning(p)
  BY <1>1, Zenon DEF ScanInv, Scanning
<1>3. buf[p] \in linked /\ buf[p] \in Buf /\ strategyLock = p
  BY <1>1, <1>2, Zenon DEF ScanOK, TypeOK
<1>4. Word(buf[p]) \in Words /\ Word(buf[p]).locked = None
  BY <1>1, <1>3 DEF Word, Words, ClientTypeOK
<1>5. /\ old' \in [Backends -> Words] /\ old'[p].locked = None
      /\ try' \in [Backends -> 0 .. NBuffers] /\ passed' \in [Backends -> SUBSET Buf]
  BY <1>1, <1>4, Zenon DEF TypeOK
<1>6. TypeOK' /\ ClientInv' /\ QueueWellFormed' /\ DropsAllowed'
  <2>1. buf' = [buf EXCEPT ![p] = buf[p]] /\ buf[p] \in Slots
    BY <1>1, Zenon DEF ClientTypeOK
  <2> QED BY <1>1, <1>3, <1>5, <2>1, LoopFrame, Zenon
<1>7. pc'[p] = "act" /\ \A q \in Backends : q # p => pc'[q] \notin {"scan", "act"}
  BY <1>1, <1>2, OneScanner, Zenon DEF ClientTypeOK
<1>8. ScanOK(p)'
  <2>1. linked' = linked /\ order' = order /\ Scanning(p)'
    BY <1>1, <1>7, Zenon DEF listVars, Scanning
  <2> QED BY <1>1, <1>2, <1>3, <1>5, <1>7, <2>1, Zenon DEF ScanOK
<1> QED BY <1>1, <1>3, <1>6, <1>7, <1>8, StillScanning, Zenon DEF LRUInv
\* LRUGetBuffer gives up: an empty list, or no unpinned buffers.
LEMMA EndScanInv ==
  ASSUME LRUInv, NEW p \in Backends, Scanning(p), EndScan(p),
         UNCHANGED <<headerVars, pins, victims, listVars>>
  PROVE  LRUInv'
<1>1. /\ TypeOK /\ ScanInv /\ ClientTypeOK /\ strategyLock' = None
      /\ pc' = [pc EXCEPT ![p] = "idle"] /\ buf' = [buf EXCEPT ![p] = NBuffers]
      /\ old' = [old EXCEPT ![p] = NoWord] /\ try' = [try EXCEPT ![p] = 0]
      /\ passed' = [passed EXCEPT ![p] = {}]
  BY Zenon DEF LRUInv, ClientInv, EndScan, Return
<1>2. /\ old' \in [Backends -> Words] /\ try' \in [Backends -> 0 .. NBuffers]
      /\ passed' \in [Backends -> SUBSET Buf]
  <2>1. 0 \in 0 .. NBuffers
    OBVIOUS
  <2> QED BY <1>1, <2>1, NoWordTyped, Zenon DEF TypeOK
<1>3. TypeOK' /\ ClientInv' /\ QueueWellFormed' /\ DropsAllowed'
  BY <1>1, <1>2, NoWordTyped, LoopFrame, Zenon
<1>4. \A q \in Backends : pc'[q] \notin {"scan", "act"}
  <2>1. pc'[p] = "idle" /\ \A q \in Backends : q # p => pc'[q] = pc[q]
    BY <1>1, Zenon DEF ClientTypeOK
  <2> QED BY <1>1, <2>1, OneScanner
<1> QED BY <1>1, <1>3, <1>4, NoScan, Zenon DEF LRUInv

\* LRUGetBuffer goes round once more with a candidate that fits.
LEMMA ContinueInv ==
  ASSUME LRUInv, NEW p \in Backends, pc[p] = "act", NEW b \in linked,
         NEW n \in 1 .. NBuffers, Continue(p, b, n),
         passed' \in [Backends -> SUBSET Buf],
         order[b] \subseteq passed'[p],
         linked \subseteq passed'[p] \/ NBuffers <= n + Cardinality(order[b]),
         UNCHANGED <<headerVars, pins, victims, listVars>>
  PROVE  LRUInv'
<1>1. /\ TypeOK /\ ScanInv /\ ClientTypeOK /\ strategyLock' = strategyLock
      /\ pc' = [pc EXCEPT ![p] = "scan"] /\ buf' = [buf EXCEPT ![p] = b]
      /\ old' = [old EXCEPT ![p] = NoWord] /\ try' = [try EXCEPT ![p] = n]
  BY Zenon DEF LRUInv, ClientInv, Continue
<1>2. /\ old' \in [Backends -> Words] /\ try' \in [Backends -> 0 .. NBuffers]
      /\ try'[p] = n
  <2>1. n \in 0 .. NBuffers
    OBVIOUS
  <2> QED BY <1>1, <2>1, NoWordTyped, Zenon DEF TypeOK
<1>3. b \in Slots /\ b # NBuffers /\ linked' = linked /\ order' = order
  BY <1>1, SentinelIsNoBuffer, Zenon DEF TypeOK, listVars
<1>4. /\ strategyLock = p
      /\ \A q \in Backends : q # p => pc[q] \notin {"scan", "act"}
  BY <1>1, OneScanner DEF Scanning
<1>5. TypeOK' /\ ClientInv' /\ QueueWellFormed' /\ DropsAllowed'
  BY <1>1, <1>2, <1>3, <1>4, LoopFrame, Zenon
<1>6. /\ pc'[p] = "scan" /\ pc'[p] # "act" /\ buf'[p] = b
      /\ \A q \in Backends : q # p => pc'[q] \notin {"scan", "act"}
  BY <1>1, <1>4, Zenon DEF ClientTypeOK
<1>7. ScanOK(p)'
  <2>1. Scanning(p)' /\ strategyLock' = p /\ try'[p] \in 1 .. NBuffers
    BY <1>1, <1>2, <1>4, <1>6, Zenon DEF Scanning
  <2>2. /\ buf'[p] # NBuffers /\ buf'[p] \in linked'
        /\ order'[buf'[p]] \subseteq passed'[p]
        /\ linked' \subseteq passed'[p] \/ NBuffers <= try'[p] + Cardinality(order'[buf'[p]])
    BY <1>2, <1>3, <1>6, Zenon
  <2> QED BY <1>6, <2>1, <2>2, Zenon DEF ScanOK
<1> QED BY <1>1, <1>4, <1>5, <1>6, <1>7, StillScanning, Zenon DEF LRUInv

\* A pinned candidate is passed, towards the next newer or back to the oldest.
LEMMA SkipPinnedInv ==
  ASSUME LRUInv, NEW p \in Backends, SkipPinned(p)
  PROVE  LRUInv'
<1>1. /\ TypeOK /\ ScanInv /\ QueueWellFormed /\ pc[p] = "act" /\ Scanning(p)
      /\ UNCHANGED <<headerVars, pins, victims, listVars>>
  BY Zenon DEF LRUInv, SkipPinned, Scanning
<1>2. CASE EndScan(p)
  BY <1>1, <1>2, EndScanInv, Zenon
<1>3. ASSUME try[p] > 1, passed' = [passed EXCEPT ![p] = @ \cup {buf[p]}],
             Continue(p, NextCandidate(p), try[p] - 1)
      PROVE  LRUInv'
  <2>1. ScanOK(p) /\ buf[p] # NBuffers
    BY <1>1, Zenon DEF ScanInv, ScanOK
  <2>2. /\ buf[p] \in linked /\ buf[p] \in Buf /\ try[p] \in 1 .. NBuffers
        /\ order[buf[p]] \subseteq passed[p]
        /\ linked \subseteq passed[p] \/ NBuffers <= try[p] + Cardinality(order[buf[p]])
    BY <1>1, <2>1, Zenon DEF ScanOK, TypeOK
  <2>3. PICK n \in 1 .. NBuffers : n = try[p] - 1
    BY <1>3, <2>2
  <2>4. passed' \in [Backends -> SUBSET Buf] /\ passed'[p] = passed[p] \cup {buf[p]}
    BY <1>1, <1>3, <2>2, Zenon DEF TypeOK
  <2>5. PICK c : c = NextCandidate(p)
    BY Zenon
  <2>6. /\ ListTail(queue) \in linked /\ order[ListTail(queue)] = {}
        /\ buf[p] \notin order[buf[p]]
        /\ queue.next[buf[p]] = NBuffers => linked = order[buf[p]] \cup {buf[p]}
        /\ queue.next[buf[p]] # NBuffers => /\ queue.next[buf[p]] \in linked
             /\ order[queue.next[buf[p]]] = order[buf[p]] \cup {buf[p]}
    <3>1. /\ queue \in Lists /\ linked \in SUBSET Buf /\ order \in Order
          /\ Represents(queue, linked, order)
      BY <1>1, Zenon DEF TypeOK, QueueWellFormed
    <3> QED BY <2>2, <3>1, WalkFromOldest
  <2>7. /\ c \in linked /\ order[c] \subseteq passed'[p]
        /\ linked \subseteq passed'[p] \/ NBuffers <= n + Cardinality(order[c])
    <3>1. CASE queue.next[buf[p]] = NBuffers
      BY <2>2, <2>4, <2>5, <2>6, <3>1, Zenon DEF NextCandidate
    <3>2. CASE queue.next[buf[p]] # NBuffers
      <4>1. c \in linked /\ order[c] = order[buf[p]] \cup {buf[p]}
        BY <2>5, <2>6, <3>2, Zenon DEF NextCandidate
      <4>2. Cardinality(order[c]) = Cardinality(order[buf[p]]) + 1
        <5>1. IsFiniteSet(order[buf[p]])
          BY <1>1, <2>2, BehindFinite, Zenon
        <5>2. Cardinality(order[buf[p]] \cup {buf[p]}) = Cardinality(order[buf[p]]) + 1
          BY <2>6, <5>1, OneMore, Zenon
        <5> QED BY <4>1, <5>2, Zenon
      <4>3. Cardinality(order[buf[p]]) \in Nat
        BY <1>1, <2>2, BehindFinite, Zenon
      <4>4. NBuffers <= try[p] + Cardinality(order[buf[p]]) => NBuffers <= n + Cardinality(order[c])
        BY <2>2, <2>3, <4>2, <4>3
      <4> QED BY <2>2, <2>4, <4>1, <4>4, Zenon
    <3> QED BY <3>1, <3>2, Zenon
  <2> QED BY <1>1, <1>3, <2>3, <2>4, <2>5, <2>7, ContinueInv, Zenon
<1> QED BY <1>2, <1>3, Zenon DEF SkipPinned

\* A claim that lost its race looks at the same candidate again.
LEMMA ClaimFailsInv ==
  ASSUME LRUInv, NEW p \in Backends, ClaimFails(p)
  PROVE  LRUInv'
<1>1. /\ TypeOK /\ ScanInv /\ pc[p] = "act" /\ Scanning(p)
      /\ Continue(p, buf[p], NBuffers)
      /\ UNCHANGED <<headerVars, pins, victims, listVars, passed>>
  BY Zenon DEF LRUInv, ClaimFails, Scanning
<1>2. ScanOK(p) /\ buf[p] # NBuffers
  BY <1>1, Zenon DEF ScanInv, ScanOK
<1>3. buf[p] \in linked /\ buf[p] \in Buf /\ order[buf[p]] \subseteq passed[p]
  BY <1>1, <1>2, Zenon DEF ScanOK, TypeOK
<1>4. NBuffers <= NBuffers + Cardinality(order[buf[p]])
  <2>1. Cardinality(order[buf[p]]) \in Nat
    BY <1>1, <1>3, BehindFinite, Zenon
  <2> QED BY <2>1
<1>5. passed' = passed /\ passed' \in [Backends -> SUBSET Buf]
  BY <1>1, Zenon DEF TypeOK
<1> QED BY <1>1, <1>3, <1>4, <1>5, NoWordTyped, ContinueInv, Zenon
\* LRUGetBuffer claims its candidate and takes it out of the list.
LEMMA ClaimCandidateInv ==
  ASSUME LRUInv, NEW p \in Backends, ClaimCandidate(p)
  PROVE  /\ LRUInv'
         /\ buf[p] \in linked /\ \A q \in Backends : buf[p] \notin pins[q]
<1>1. /\ TypeOK /\ ClientInv /\ ScanInv /\ QueueWellFormed /\ ClientTypeOK /\ DropsAllowed
      /\ pc[p] = "act" /\ Scanning(p) /\ old[p].refcount = 0 /\ Word(buf[p]) = old[p]
      /\ Claim(p, buf[p]) /\ Return(p) /\ UNCHANGED <<usage, locked, tagged>>
  BY Zenon DEF LRUInv, ClientInv, ClaimCandidate, CASSucceeds, EndScan, Scanning
<1>2. /\ queue' = Unlink(queue, buf[p]) /\ linked' = linked \ {buf[p]}
      /\ order' = Without(order, buf[p]) /\ strategyLock' = None
      /\ old' = [old EXCEPT ![p] = NoWord] /\ try' = [try EXCEPT ![p] = 0]
      /\ passed' = [passed EXCEPT ![p] = {}]
  BY Zenon DEF ClaimCandidate, LRUUnlink, EndScan
<1>3. buf[p] \in linked /\ buf[p] \in Buf /\ old[p].locked = None
  BY <1>1, Zenon DEF ScanInv, ScanOK, TypeOK
<1>4. refcount[buf[p]] = 0 /\ locked[buf[p]] = None
  BY <1>1, <1>3 DEF Word
<1>5. ClientInv' /\ \A q \in Backends : buf[p] \notin pins[q]
  BY <1>1, <1>2, <1>3, <1>4, ClaimInv DEF Scanning
<1>6. queue' \in Lists /\ order' \in Order /\ Represents(queue', linked', order')
  BY <1>1, <1>2, <1>3, UnlinkRepresents, Zenon DEF TypeOK, QueueWellFormed
<1>7. TypeOK'
  <2>1. 0 \in 0 .. NBuffers
    OBVIOUS
  <2>2. /\ old' \in [Backends -> Words] /\ try' \in [Backends -> 0 .. NBuffers]
        /\ passed' \in [Backends -> SUBSET Buf] /\ linked' \in SUBSET Buf
    BY <1>1, <1>2, <2>1, NoWordTyped, Zenon DEF TypeOK
  <2> QED BY <1>5, <1>6, <2>2, Zenon DEF TypeOK, ClientInv
<1>8. pc'[p] = "idle" /\ \A q \in Backends : q # p => pc'[q] = pc[q]
  BY <1>1, Zenon DEF Return, ClientTypeOK
<1>9. ScanInv'
  <2>1. \A q \in Backends : pc'[q] \notin {"scan", "act"}
    BY <1>1, <1>8, OneScanner
  <2> QED BY <1>2, <2>1, NoScan, Zenon
<1>10. DropsAllowed'
  <2>1. pc'[p] # "inval"
    BY <1>8
  <2> QED BY <1>1, <1>8, <2>1, Zenon DEF DropsAllowed
<1> QED BY <1>3, <1>5, <1>6, <1>7, <1>9, <1>10, Zenon DEF LRUInv, QueueWellFormed

-----------------------------------------------------------------------------
(***************************************************************************)
(* The notifications.  Each has buffer_strategy_lock to itself, so no scan *)
(* is under way.                                                           *)
(***************************************************************************)
LEMMA NotifyInv ==
  ASSUME LRUInv, NEW p \in Backends, ClientInv', strategyLock = None,
         NEW x \in PCs \ {"scan", "act", "inval"}, pc' = [pc EXCEPT ![p] = x],
         UNCHANGED <<strategyLock, scanVars>>,
         queue' \in Lists, linked' \in SUBSET Buf, order' \in Order,
         Represents(queue', linked', order')
  PROVE  LRUInv'
<1>1. TypeOK /\ ScanInv /\ DropsAllowed /\ ClientTypeOK
  BY Zenon DEF LRUInv, ClientInv
<1>2. TypeOK' /\ QueueWellFormed'
  BY <1>1, Zenon DEF TypeOK, ClientInv, QueueWellFormed, scanVars
<1>3. pc'[p] = x /\ \A q \in Backends : q # p => pc'[q] = pc[q]
  BY <1>1, Zenon DEF ClientTypeOK
<1>4. ScanInv'
  <2>1. \A q \in Backends : pc'[q] \notin {"scan", "act"}
    BY <1>1, <1>3, FreeMeansIdle, Zenon
  <2> QED BY <2>1, NoScan, Zenon
<1>5. DropsAllowed'
  BY <1>1, <1>3, Zenon DEF DropsAllowed
<1> QED BY <1>2, <1>4, <1>5, Zenon DEF LRUInv

\* A move to the head keeps the list in order.
LEMMA MoveInv ==
  ASSUME LRUInv, NEW b \in Buf, MoveToMRU(b)
  PROVE  /\ queue' \in Lists /\ linked' \in SUBSET Buf /\ order' \in Order
         /\ Represents(queue', linked', order')
<1>1. /\ queue \in Lists /\ linked \in SUBSET Buf /\ order \in Order
      /\ Represents(queue, linked, order)
  BY Zenon DEF LRUInv, TypeOK, QueueWellFormed
<1>2. PICK c : c = IF InList(queue, b) THEN Unlink(queue, b) ELSE queue
  BY Zenon
<1>3. /\ queue' = InsertHead(c, b) /\ linked' = linked \cup {b}
      /\ order' = WithNewest(Without(order, b), linked \ {b}, b)
  BY <1>2, Zenon DEF MoveToMRU
<1>4. linked' \in SUBSET Buf
  BY <1>1, <1>3, Zenon
<1> QED BY <1>1, <1>2, <1>3, <1>4, MoveRepresents, Zenon

\* LRUNotifyHit moves a linked buffer to the head, and no other.
LEMMA NotifyHitInv ==
  ASSUME LRUInv, NEW p \in Backends, LRUNotifyHit(p)
  PROVE  LRUInv' /\ linked' = linked
<1>1. /\ TypeOK /\ QueueWellFormed /\ ClientInv /\ ClientTypeOK /\ CallInv
      /\ pc[p] = "hit" /\ strategyLock = None
      /\ pc' = [pc EXCEPT ![p] = "idle"] /\ buf' = [buf EXCEPT ![p] = NBuffers]
      /\ UNCHANGED <<refcount, usage, locked, tagged, strategyLock, pins, victims, scanVars>>
  BY Zenon DEF LRUInv, ClientInv, LRUNotifyHit, Return, headerVars
<1>2. buf[p] \in Buf
  BY <1>1, Zenon DEF CallInv, ClientTypeOK
<1>3. ClientInv'
  <2>1. /\ pc' \in [Backends -> PCs] /\ buf' \in [Backends -> Slots]
        /\ \A q \in Backends \ {p} : pc'[q] = pc[q] /\ buf'[q] = buf[q]
        /\ pc'[p] \in {"idle", "get", "scan", "act"}
    BY <1>1, NoWordTyped DEF ClientTypeOK, PCs
  <2>2. /\ usage' \in [Buf -> 0 .. MaxUsage] /\ strategyLock' \in Backends \cup {None}
        /\ \A b \in Buf : usage[b] = 0 => usage'[b] = 0
    BY <1>1, Zenon DEF ClientTypeOK
  <2> QED BY <1>1, <2>1, <2>2, ScanStepInv, Zenon
<1>4. /\ queue' \in Lists /\ linked' \in SUBSET Buf /\ order' \in Order
      /\ Represents(queue', linked', order') /\ linked' = linked
  <2>1. CASE InList(queue, buf[p])
    <3>1. MoveToMRU(buf[p])
      BY <2>1, Zenon DEF LRUNotifyHit
    <3>2. buf[p] \in linked
      BY <1>1, <1>2, <2>1, LinkedIsInList, Zenon
    <3>3. linked' = linked
      BY <3>1, <3>2, Zenon DEF MoveToMRU
    <3> QED BY <1>2, <3>1, <3>3, MoveInv, Zenon
  <2>2. CASE ~InList(queue, buf[p])
    <3>1. UNCHANGED <<queue, linked, order>>
      BY <2>2, Zenon DEF LRUNotifyHit, listVars
    <3> QED BY <1>1, <3>1, Zenon DEF TypeOK, QueueWellFormed
  <2> QED BY <2>1, <2>2, Zenon
<1>5. "idle" \in PCs \ {"scan", "act", "inval"}
  BY DEF PCs
<1> QED BY <1>1, <1>3, <1>4, <1>5, NotifyInv, Zenon

\* LRUNotifyInsert puts a victim at the head, whether it was linked or not.
LEMMA NotifyInsertInv ==
  ASSUME LRUInv, NEW p \in Backends, LRUNotifyInsert(p)
  PROVE  LRUInv'
<1>1. /\ ClientInv /\ ClientTypeOK /\ CallInv /\ pc[p] = "insert" /\ strategyLock = None
      /\ MoveToMRU(buf[p]) /\ HandBack(p) /\ pc' = [pc EXCEPT ![p] = "idle"]
      /\ UNCHANGED <<headerVars, strategyLock, pins, scanVars>>
  BY Zenon DEF LRUInv, ClientInv, LRUNotifyInsert, HandBack, Return
<1>2. buf[p] \in Buf
  BY <1>1, Zenon DEF CallInv, ClientTypeOK
<1>3. ClientInv'
  BY <1>1, HandBackInv, Zenon
<1>4. "idle" \in PCs \ {"scan", "act", "inval"}
  BY DEF PCs
<1> QED BY <1>1, <1>2, <1>3, <1>4, MoveInv, NotifyInv, Zenon

\* LRUNotifyInvalidate takes an unpinned buffer out, if it is linked.
LEMMA NotifyInvalidateLRU ==
  ASSUME LRUInv, NEW p \in Backends, LRUNotifyInvalidate(p)
  PROVE  /\ LRUInv' /\ buf[p] \in Buf /\ Invalidates /\ UNCHANGED <<pins, victims>>
         /\ \A q \in Backends : buf[p] \notin pins[q]
         /\ linked' = linked \ {buf[p]}
<1>1. /\ TypeOK /\ QueueWellFormed /\ ClientInv /\ ClientTypeOK /\ CallInv /\ DropsAllowed
      /\ RefcountCountsPins /\ pc[p] = "inval" /\ refcount[buf[p]] = 0 /\ strategyLock = None
      /\ pc' = [pc EXCEPT ![p] = "clear"] /\ Goto(p, "clear")
      /\ UNCHANGED <<headerVars, strategyLock, buf, pins, victims, scanVars>>
  BY Zenon DEF LRUInv, ClientInv, LRUNotifyInvalidate, Goto
<1>2. buf[p] \in Buf /\ Invalidates
  BY <1>1, Zenon DEF CallInv, DropsAllowed
<1>3. ClientInv'
  BY <1>1, NotifyInvalidateInv, Zenon
<1>4. \A q \in Backends : buf[p] \notin pins[q]
  BY <1>1, <1>2, RefcountMeaning, Zenon
<1>5. InList(queue, buf[p]) <=> buf[p] \in linked
  BY <1>1, <1>2, LinkedIsInList, Zenon
<1>6. /\ queue' \in Lists /\ linked' \in SUBSET Buf /\ order' \in Order
      /\ Represents(queue', linked', order') /\ linked' = linked \ {buf[p]}
  <2>1. CASE buf[p] \in linked
    <3>1. /\ queue' = Unlink(queue, buf[p]) /\ linked' = linked \ {buf[p]}
          /\ order' = Without(order, buf[p])
      BY <1>5, <2>1, Zenon DEF LRUNotifyInvalidate, LRUUnlink
    <3>2. linked' \in SUBSET Buf
      BY <1>1, <3>1, Zenon DEF TypeOK
    <3> QED BY <1>1, <2>1, <3>1, <3>2, UnlinkRepresents, Zenon DEF TypeOK, QueueWellFormed
  <2>2. CASE buf[p] \notin linked
    <3>1. UNCHANGED <<queue, linked, order>>
      BY <1>5, <2>2, Zenon DEF LRUNotifyInvalidate, listVars
    <3>2. linked \ {buf[p]} = linked
      BY <2>2, Zenon
    <3> QED BY <1>1, <3>1, <3>2, Zenon DEF TypeOK, QueueWellFormed
  <2> QED BY <2>1, <2>2, Zenon
<1>7. "clear" \in PCs \ {"scan", "act", "inval"}
  BY DEF PCs
<1>8. LRUInv'
  BY <1>1, <1>3, <1>6, <1>7, NotifyInv, Zenon
<1> QED BY <1>1, <1>2, <1>4, <1>6, <1>8, Zenon
-----------------------------------------------------------------------------
\* Every step keeps the invariant.
LEMMA NextLRU == LRUInv /\ [Next]_vars => LRUInv'
<1> SUFFICES ASSUME LRUInv, [Next]_vars PROVE LRUInv'
  BY Zenon
<1>1. CASE UNCHANGED vars
  <2>1. UNCHANGED <<refcount, usage, locked, tagged, strategyLock, pc, buf, pins, victims,
                    queue, linked, order, try, old, passed>>
    BY <1>1, Zenon DEF vars, clientVars, headerVars, listVars, scanVars
  <2>2. ClientInv'
    BY <2>1 DEF LRUInv, ClientInv, ClientTypeOK, RefcountCountsPins, Pinners,
                VictimsExclusive, CallInv
  <2>3. TypeOK' /\ QueueWellFormed' /\ DropsAllowed'
    BY <2>1, <2>2, Zenon DEF LRUInv, ClientInv, TypeOK, QueueWellFormed, DropsAllowed
  <2>4. ScanInv'
    BY <2>1 DEF LRUInv, ScanInv, ScanOK, Scanning
  <2> QED BY <2>2, <2>3, <2>4, Zenon DEF LRUInv
<1>2. ASSUME NEW p \in Backends, LRUGetBuffer(p)  PROVE LRUInv'
  <2>1. CASE QueueEmpty(p)
    BY <2>1, EndScanInv, Zenon DEF QueueEmpty, Scanning
  <2> QED BY <1>2, <2>1, StartScanInv, ReadCandidateInv, SkipPinnedInv, ClaimCandidateInv,
             ClaimFailsInv, Zenon DEF LRUGetBuffer
<1>3. ASSUME NEW p \in Backends, ManagerStep(p), UNCHANGED <<listVars, scanVars>>
      PROVE  LRUInv'
  BY <1>3, ClientPreserves, Zenon DEF ClientStep
<1>4. ASSUME NEW p \in Backends, NEW b \in Buf, Pin(p, b) \/ LockHeader(p, b)
      PROVE  LRUInv'
  <2>1. ClientStep(p) /\ UNCHANGED <<listVars, scanVars>>
    BY <1>4, Zenon DEF Pin, LockHeader, ClientStep
  <2> QED BY <2>1, ClientPreserves, Zenon
<1> QED BY <1>1, <1>2, <1>3, <1>4, NotifyHitInv, NotifyInsertInv, NotifyInvalidateLRU, Zenon
        DEF Next

(***************************************************************************)
(* The invariant holds throughout.                                         *)
(***************************************************************************)
LEMMA LRUInvariant == Spec => []LRUInv
  BY InitLRU, NextLRU, PTL DEF Spec

(***************************************************************************)
(* The state of LRU and of the buffer headers is of its type.              *)
(***************************************************************************)
THEOREM LRUTypeCorrect == Spec => []TypeOK
<1>1. LRUInv => TypeOK
  BY DEF LRUInv
<1> QED
  BY <1>1, LRUInvariant, PTL

(***************************************************************************)
(* Whatever order hits, insertions, claims and invalidations of a buffer   *)
(* come in, LRUNext and LRUPrev form one list of the linked buffers in     *)
(* order of their last use.                                                *)
(***************************************************************************)
THEOREM LRUQueueCorrect == Spec => []QueueWellFormed
<1>1. LRUInv => QueueWellFormed
  BY DEF LRUInv
<1> QED
  BY <1>1, LRUInvariant, PTL

(***************************************************************************)
(* LRUGetBuffer looks at a buffer only when it has found every buffer used *)
(* less recently pinned during the same scan.                              *)
(***************************************************************************)
THEOREM LRUOldestFirst == Spec => []OldestFirst
<1>1. LRUInv => OldestFirst
  BY Zenon DEF LRUInv, ScanInv, ScanOK, OldestFirst
<1> QED
  BY <1>1, LRUInvariant, PTL

\* With trycounter at 1 every buffer of the pool is behind the candidate.
LEMMA FullPass ==
  ASSUME LRUInv, NEW p \in Backends, pc[p] = "act", try[p] = 1
  PROVE  linked \subseteq passed[p] \cup {buf[p]}
<1>1. TypeOK /\ QueueWellFormed /\ ScanOK(p) /\ Scanning(p) /\ buf[p] # NBuffers
  BY Zenon DEF LRUInv, ScanInv, ScanOK, Scanning
<1>2. /\ buf[p] \in linked /\ buf[p] \in Buf /\ linked \subseteq Buf
      /\ order[buf[p]] \subseteq passed[p]
      /\ linked \subseteq passed[p] \/ NBuffers <= 1 + Cardinality(order[buf[p]])
  BY <1>1, Zenon DEF ScanOK, TypeOK
<1>3. CASE linked \subseteq passed[p]
  BY <1>3, Zenon
<1>4. CASE NBuffers <= 1 + Cardinality(order[buf[p]])
  <2>1. PICK S : S = order[buf[p]] \cup {buf[p]}
    BY Zenon
  <2>2. buf[p] \notin order[buf[p]] /\ order[buf[p]] \subseteq Buf
    <3>1. order[buf[p]] \subseteq linked /\ buf[p] \notin order[buf[p]]
      BY <1>1, <1>2, Zenon DEF QueueWellFormed, Represents, StrictTotalOrder
    <3> QED BY <1>2, <3>1, Zenon
  <2>3. /\ IsFiniteSet(order[buf[p]]) /\ Cardinality(order[buf[p]]) \in Nat
        /\ Cardinality(S) = Cardinality(order[buf[p]]) + 1
    BY <1>1, <1>2, <2>1, <2>2, BehindFinite, OneMore, Zenon
  <2>4. S \subseteq Buf /\ NBuffers <= Cardinality(S)
    BY <1>2, <1>4, <2>1, <2>2, <2>3
  <2>5. S = Buf
    BY <2>4, WholePool, Zenon
  <2> QED BY <1>2, <2>1, <2>5, Zenon
<1> QED BY <1>2, <1>3, <1>4, Zenon

(***************************************************************************)
(* LRUGetBuffer reports "no unpinned buffers" only after it has found      *)
(* every buffer of the list pinned during this scan, also when the list    *)
(* is shorter than the pool and when claims that lost a race started the   *)
(* count again.                                                            *)
(***************************************************************************)
THEOREM LRUErrorAfterFullPass == Spec => []FullPassBeforeError
<1>1. LRUInv => FullPassBeforeError
  BY FullPass, Zenon DEF FullPassBeforeError
<1> QED
  BY <1>1, LRUInvariant, PTL
(***************************************************************************)
(* The shared reference count that LRUGetBuffer tests and bumps is, for    *)
(* every buffer, the number of backends that have it pinned; no buffer is  *)
(* the victim of two backends, and a victim whose tag is gone is pinned by *)
(* its claimer alone.                                                      *)
(***************************************************************************)
THEOREM LRUVictimsExclusive == Spec => [](RefcountCountsPins /\ VictimsExclusive)
<1>1. LRUInv => RefcountCountsPins /\ VictimsExclusive
  BY DEF LRUInv, ClientInv
<1> QED
  BY <1>1, LRUInvariant, PTL

-----------------------------------------------------------------------------
\* Every step is a step of the contract or changes nothing it speaks about.
LEMMA ContractStep == LRUInv /\ [Next]_vars => [Contract!Next]_Contract!vars
<1> SUFFICES ASSUME LRUInv, [Next]_vars
             PROVE  Contract!Next \/ UNCHANGED Contract!vars
  BY Zenon
<1>1. CASE UNCHANGED vars
  BY <1>1, Zenon DEF vars, listVars, clientVars, Contract!vars
<1>2. ASSUME NEW p \in Backends,
             \/ StartScan(p) \/ QueueEmpty(p) \/ ReadCandidate(p)
             \/ SkipPinned(p) \/ ClaimFails(p)
      PROVE  UNCHANGED Contract!vars
  BY <1>2, Zenon DEF StartScan, QueueEmpty, ReadCandidate, SkipPinned, ClaimFails,
                     listVars, Contract!vars
<1>3. ASSUME NEW p \in Backends, ClaimCandidate(p)  PROVE Contract!Next
  <2>1. /\ buf[p] \in linked /\ \A q \in Backends : buf[p] \notin pins[q]
        /\ buf[p] \in Buf
    BY <1>3, ClaimCandidateInv, Zenon DEF LRUInv, TypeOK
  <2>2. Contract!Claim(p, buf[p])
    BY <1>3, <2>1, Zenon DEF ClaimCandidate, Claim, LRUUnlink,
                             Contract!Claim, Contract!Take, Contract!Unpinned
  <2> QED BY <2>1, <2>2, Zenon DEF Contract!Next
<1>4. ASSUME NEW p \in Backends, LRUNotifyHit(p)  PROVE UNCHANGED Contract!vars
  BY <1>4, NotifyHitInv, Zenon DEF LRUNotifyHit, Contract!vars
<1>5. ASSUME NEW p \in Backends, LRUNotifyInsert(p)  PROVE Contract!Next
  <2>1. buf[p] \in victims[p] /\ buf[p] \in Buf
    BY <1>5, Zenon DEF LRUNotifyInsert, LRUInv, ClientInv, CallInv, ClientTypeOK
  <2>2. Contract!GiveBack(p, buf[p])
    BY <1>5, <2>1, Zenon DEF LRUNotifyInsert, MoveToMRU, HandBack, Contract!GiveBack
  <2> QED BY <2>1, <2>2, Zenon DEF Contract!Next
<1>6. ASSUME NEW p \in Backends, LRUNotifyInvalidate(p)  PROVE Contract!Next
  <2>1. buf[p] \in Buf /\ Contract!Drop(buf[p])
    BY <1>6, NotifyInvalidateLRU, Zenon DEF Contract!Drop, Contract!Unpinned
  <2> QED BY <2>1, Zenon DEF Contract!Next
<1>7. ASSUME NEW p \in Backends, ManagerStep(p), UNCHANGED <<listVars, scanVars>>
      PROVE  Contract!Next \/ UNCHANGED Contract!vars
  <2>1. CASE StrategyGetBuffer(p) \/ UnlockPinned(p) \/ ClearBufferTag(p)
    BY <1>7, <2>1, Zenon DEF StrategyGetBuffer, UnlockPinned, ClearBufferTag,
                             listVars, Contract!vars
  <2>2. ASSUME NEW b \in Buf, UnpinBuffer(p, b)  PROVE Contract!Next
    BY <1>7, <2>2, Zenon DEF UnpinBuffer, Contract!Unpin, listVars, Contract!Next
  <2>3. ASSUME NEW b \in Buf, GetBufferFromRing(p, b)  PROVE Contract!Next
    <3>1. \A q \in Backends : b \notin pins[q]
      BY <2>3, RefcountMeaning, Zenon DEF GetBufferFromRing, LRUInv, ClientInv
    <3>2. Contract!ClaimFromRing(p, b)
      BY <1>7, <2>3, <3>1, Zenon DEF GetBufferFromRing, listVars,
         Contract!ClaimFromRing, Contract!Take, Contract!Unpinned
    <3> QED BY <3>2, Zenon DEF Contract!Next
  <2>4. ASSUME NEW b \in Buf,
               InvalidateVictimBuffer(p, b) \/ ReuseVictim(p, b) \/ GiveUpVictim(p, b)
        PROVE  UNCHANGED Contract!vars
    BY <1>7, <2>4, Zenon DEF InvalidateVictimBuffer, ReuseVictim, GiveUpVictim,
                             listVars, Contract!vars
  <2>5. ASSUME NEW b \in Buf, LoseVictim(p, b)  PROVE Contract!Next
    BY <1>7, <2>5, Zenon DEF LoseVictim, Contract!Lose, listVars, Contract!Next
  <2> QED BY <1>7, <2>1, <2>2, <2>3, <2>4, <2>5, Zenon DEF ManagerStep
<1>8. ASSUME NEW p \in Backends, NEW b \in Buf, Pin(p, b)  PROVE Contract!Next
  BY <1>8, Zenon DEF Pin, PinBuffer, PinBuffer_Locked, Contract!Pin, listVars, Contract!Next
<1>9. ASSUME NEW p \in Backends, NEW b \in Buf, LockHeader(p, b)
      PROVE  UNCHANGED Contract!vars
  BY <1>9, Zenon DEF LockHeader, LockBufHdr, listVars, Contract!vars
<1> QED BY <1>1, <1>2, <1>3, <1>4, <1>5, <1>6, <1>7, <1>8, <1>9, Zenon DEF Next, LRUGetBuffer

(***************************************************************************)
(* LRU implements the eviction contract: every buffer LRUGetBuffer returns *)
(* was linked and pinned by nobody, a late LRUNotifyHit links nothing that *)
(* has been claimed, LRUNotifyInsert gives each claimed buffer back and    *)
(* LRUNotifyInvalidate drops only buffers that nobody has pinned.          *)
(***************************************************************************)
THEOREM LRUImplementsContract == Spec => ImplementsContract
<1>1. Init => Contract!Init
  BY DEF Init, ClientInit, Contract!Init
<1> QED
  BY <1>1, ContractStep, LRUInvariant, PTL
  DEF Spec, ImplementsContract, Contract!Spec
=============================================================================
