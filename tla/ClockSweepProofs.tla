-------------------------- MODULE ClockSweepProofs --------------------------
(***************************************************************************)
(* The clock sweep claims only buffers that nobody pins and reports that   *)
(* there is none only after a full pass, although its backends scan        *)
(* without a lock: for every number of buffers and every finite set of     *)
(* backends.                                                               *)
(***************************************************************************)
EXTENDS ClockSweep, PolicyClientProofs

USE NBuffersAssumption, ClientAssumption, UInt32Assumption

-----------------------------------------------------------------------------
(* The hand                                                                *)

(***************************************************************************)
(* Quotient and remainder by the number of buffers.                        *)
(***************************************************************************)
LEMMA Quotient ==
  ASSUME NEW x \in Nat
  PROVE  /\ x % NBuffers \in 0 .. NBuffers - 1
         /\ x \div NBuffers \in Nat
         /\ x = NBuffers * (x \div NBuffers) + (x % NBuffers)
  OBVIOUS

(***************************************************************************)
(* A position after whole laps is the position itself.                     *)
(***************************************************************************)
LEMMA Remainder ==
  ASSUME NEW q \in Nat, NEW r \in 0 .. NBuffers - 1
  PROVE  (q * NBuffers + r) % NBuffers = r
  OBVIOUS

(***************************************************************************)
(* The buffer after buffer v in the order of the hand.                     *)
(***************************************************************************)
After(v) == IF v = NBuffers - 1 THEN 0 ELSE v + 1

(***************************************************************************)
(* The next tick is at the next buffer, or at the first of the next lap.   *)
(***************************************************************************)
LEMMA NextRemainder ==
  ASSUME NEW x \in Nat
  PROVE  (x + 1) % NBuffers = After(x % NBuffers)
<1> DEFINE q == x \div NBuffers
           r == x % NBuffers
<1>1. q \in Nat /\ r \in 0 .. NBuffers - 1 /\ x = NBuffers * q + r
  BY Quotient
<1> HIDE DEF q, r
<1>2. CASE r = NBuffers - 1
  <2>1. x + 1 = (q + 1) * NBuffers + 0
    BY <1>1, <1>2
  <2>2. ((q + 1) * NBuffers + 0) % NBuffers = 0
    BY <1>1, Remainder
  <2> QED
    BY <1>2, <2>1, <2>2 DEF After, r
<1>3. CASE r # NBuffers - 1
  <2>1. r + 1 \in 0 .. NBuffers - 1 /\ x + 1 = q * NBuffers + (r + 1)
    BY <1>1, <1>3
  <2>2. (q * NBuffers + (r + 1)) % NBuffers = r + 1
    BY <1>1, <2>1, Remainder
  <2> QED
    BY <1>3, <2>1, <2>2 DEF After, r
<1> QED
  BY <1>2, <1>3

(***************************************************************************)
(* The 32-bit counter does not lose its place among the buffers: it is not *)
(* about to overflow, or the overflow falls on the end of a pass.          *)
(***************************************************************************)
HandInOrder == UInt32 % NBuffers = 0 \/ nextVictimBuffer + 1 < UInt32

(***************************************************************************)
(* The fetch-and-add of ClockSweepTick keeps the types of the hand, and    *)
(* moves it to the next buffer unless the counter overflows.               *)
(***************************************************************************)
LEMMA HandStep ==
  ASSUME HandTypeOK(Backends), NEW p \in Backends, FetchAdd(p)
  PROVE  /\ HandTypeOK(Backends)' /\ Victim \in Buf
         /\ HandInOrder => Victim' = After(Victim)
<1>1. nextVictimBuffer \in Nat /\ nextVictimBuffer < UInt32
  BY DEF HandTypeOK, UInts
<1>2. Victim \in Buf
  BY <1>1, Quotient DEF Victim, Buf
<1>3. (nextVictimBuffer + 1) % UInt32 =
        IF nextVictimBuffer + 1 < UInt32 THEN nextVictimBuffer + 1 ELSE 0
  BY <1>1
<1>4. HandTypeOK(Backends)'
  BY <1>1, <1>3 DEF FetchAdd, HandTypeOK, UInts, Nothing
<1>5. (nextVictimBuffer + 1) % NBuffers = After(Victim)
  BY <1>1, NextRemainder, Zenon DEF Victim
<1>6. CASE nextVictimBuffer + 1 < UInt32
  BY <1>2, <1>3, <1>4, <1>5, <1>6 DEF FetchAdd, Victim
<1>7. CASE ~(nextVictimBuffer + 1 < UInt32)
  <2>1. nextVictimBuffer + 1 = UInt32 /\ nextVictimBuffer' = 0
    BY <1>1, <1>3, <1>7 DEF FetchAdd
  <2>2. 0 % NBuffers = 0
    OBVIOUS
  <2> QED
    BY <1>2, <1>4, <1>5, <1>7, <2>1, <2>2 DEF HandInOrder, Victim
<1> QED
  BY <1>6, <1>7

(***************************************************************************)
(* The compare-and-exchange loop of ClockSweepTick brings the counter back *)
(* below NBuffers without moving the hand.                                 *)
(***************************************************************************)
LEMMA WrapStep ==
  ASSUME HandTypeOK(Backends), NEW p \in Backends, WrapHand(p)
  PROVE  HandTypeOK(Backends)' /\ Victim' = Victim
<1>1. /\ nextVictimBuffer \in Nat /\ nextVictimBuffer < UInt32
      /\ completePasses \in Nat
      /\ expected \in [Backends -> UInts \cup {Nothing}]
  BY DEF HandTypeOK, UInts
<1>2. nextVictimBuffer % NBuffers \in 0 .. NBuffers - 1
  BY <1>1, Quotient
<1>3. (nextVictimBuffer % NBuffers) % NBuffers = nextVictimBuffer % NBuffers
  BY <1>2
<1>4. (completePasses + 1) % UInt32 \in UInts
  BY <1>1 DEF UInts
<1>5. CASE nextVictimBuffer = expected[p]
  <2>1. /\ nextVictimBuffer' = nextVictimBuffer % NBuffers
        /\ completePasses' = (completePasses + 1) % UInt32
        /\ expected' = [expected EXCEPT ![p] = Nothing]
    BY <1>5 DEF WrapHand
  <2>2. nextVictimBuffer' \in UInts
    BY <1>2, <2>1 DEF UInts
  <2> QED
    BY <1>1, <1>3, <1>4, <2>1, <2>2 DEF HandTypeOK, Victim
<1>6. CASE nextVictimBuffer # expected[p]
  BY <1>6 DEF WrapHand, HandTypeOK, Victim
<1> QED
  BY <1>5, <1>6

-----------------------------------------------------------------------------
(* The inductive invariant                                                 *)

(***************************************************************************)
(* What a backend knows of its own scan.  Its candidate is a buffer, and   *)
(* outside a scan it has none and nobody has overtaken it.                 *)
(***************************************************************************)
ScanInv ==
  \A p \in Backends :
    /\ Scanning(p) => try[p] \in 1 .. NBuffers
    /\ ~Scanning(p) => overtaken[p] = 0
    /\ pc[p] = "act" => buf[p] \in Buf
    /\ pc[p] \in {"idle", "get"} => buf[p] = NBuffers

ClockInv == TypeOK /\ ClientInv /\ ScanInv

(***************************************************************************)
(* ClockSweepInitialize and the headers of an empty pool establish the     *)
(* invariant.                                                              *)
(***************************************************************************)
LEMMA InitClock == Init => ClockInv
<1> SUFFICES ASSUME Init PROVE ClockInv
  OBVIOUS
<1>1. ClientTypeOK
  BY SentinelIsNoBuffer DEF Init, ClientInit, ClientTypeOK, PCs
<1>2. RefcountCountsPins
  <2>1. \A b \in Buf : Pinners(b) = {}
    BY DEF Init, ClientInit, Pinners
  <2> QED
    BY <2>1, FS_EmptySet, Zenon DEF Init, ClientInit, RefcountCountsPins
<1>3. VictimsExclusive /\ CallInv
  BY DEF Init, ClientInit, VictimsExclusive, CallInv
<1>4. HandTypeOK(Backends)
  BY DEF Init, ClockSweepInitialize, HandTypeOK, UInts
<1>5. NoWord \in Words
  BY DEF NoWord, Words
<1>6. TypeOK
  BY <1>1, <1>4, <1>5 DEF Init, TypeOK
<1>7. ScanInv
  BY DEF Init, ClientInit, ScanInv, Scanning
<1> QED
  BY <1>1, <1>2, <1>3, <1>6, <1>7 DEF ClockInv, ClientInv

(***************************************************************************)
(* The state word of a buffer, as a scan copies it.                        *)
(***************************************************************************)
LEMMA WordType ==
  ASSUME ClientTypeOK, NEW b \in Buf
  PROVE  Word(b) \in Words
  BY DEF Word, Words, ClientTypeOK

(***************************************************************************)
(* Steps of the buffer manager leave every scan alone.                     *)
(***************************************************************************)
LEMMA ClientKeepsCandidate ==
  ASSUME ClientTypeOK, NEW p \in Backends, ClientStep(p), ScanInv,
         pc'[p] \in {"idle", "get"}
  PROVE  buf'[p] = NBuffers
<1>1. CASE StrategyGetBuffer(p) \/ UnlockPinned(p) \/ ClearBufferTag(p)
  BY <1>1 DEF StrategyGetBuffer, UnlockPinned, ClearBufferTag, Goto, Return,
              ClientTypeOK, ScanInv
<1>2. ASSUME NEW b \in Buf,
             \/ UnpinBuffer(p, b) \/ GetBufferFromRing(p, b)
             \/ InvalidateVictimBuffer(p, b) \/ ReuseVictim(p, b)
             \/ GiveUpVictim(p, b) \/ LoseVictim(p, b)
      PROVE  buf'[p] = NBuffers
  BY <1>2, Zenon DEF UnpinBuffer, GetBufferFromRing, InvalidateVictimBuffer,
              ReuseVictim, GiveUpVictim, LoseVictim, ClientTypeOK, ScanInv
<1>3. ASSUME NEW b \in Buf, NEW then \in {"idle", "hit"},
             \/ PinBuffer(p, b, then) \/ PinBuffer_Locked(p, b)
             \/ LockBufHdr(p, b)
      PROVE  buf'[p] = NBuffers
  BY <1>3 DEF PinBuffer, PinBuffer_Locked, LockBufHdr, ClientTypeOK, ScanInv
<1> QED
  BY <1>1, <1>2, <1>3 DEF ClientStep, ManagerStep

(***************************************************************************)
(* Steps of the buffer manager keep the invariant.                         *)
(***************************************************************************)
LEMMA ClientPreserves ==
  ASSUME ClockInv, NEW p \in Backends, ClientStep(p),
         UNCHANGED <<handVars, scanVars>>
  PROVE  ClockInv'
<1>1. ClientInv' /\ ClientTypeOK /\ TypeOK /\ ScanInv
  BY ClientStepInv DEF ClockInv, ClientInv
<1>2. TypeOK'
  BY <1>1 DEF ClientInv, TypeOK, HandTypeOK, handVars, scanVars
<1>3. /\ pc[p] \notin {"scan", "act"} /\ pc'[p] \notin {"scan", "act"}
      /\ \A q \in Backends \ {p} : pc'[q] = pc[q] /\ buf'[q] = buf[q]
  BY <1>1, ClientStepFrame
<1>4. pc'[p] \in {"idle", "get"} => buf'[p] = NBuffers
  BY <1>1, ClientKeepsCandidate
<1>5. ScanInv'
  BY <1>1, <1>3, <1>4, Zenon DEF ScanInv, Scanning, scanVars
<1> QED
  BY <1>1, <1>2, <1>5 DEF ClockInv

(***************************************************************************)
(* A step of one scan that goes on, or gives up, without a victim.         *)
(***************************************************************************)
LEMMA ScanPreserves ==
  ASSUME ClockInv, NEW p \in Backends, HandTypeOK(Backends)',
         pc' \in [Backends -> PCs], buf' \in [Backends -> Slots],
         \A q \in Backends \ {p} : /\ pc'[q] = pc[q] /\ buf'[q] = buf[q]
                                   /\ try'[q] = try[q]
                                   /\ ~Scanning(q) => overtaken'[q] = overtaken[q],
         pc'[p] \in {"idle", "scan", "act"},
         pc'[p] = "idle" => overtaken'[p] = 0 /\ buf'[p] = NBuffers,
         pc'[p] # "idle" => try'[p] \in 1 .. NBuffers,
         pc'[p] = "act" => buf'[p] \in Buf,
         usage' \in [Buf -> 0 .. MaxUsage],
         \A b \in Buf : usage[b] = 0 => usage'[b] = 0,
         UNCHANGED <<refcount, locked, tagged, strategyLock, pins, victims>>,
         try' \in [Backends -> 0 .. NBuffers], old' \in [Backends -> Words],
         passed' \in [Backends -> SUBSET Buf],
         overtaken' \in [Backends -> 0 .. NBuffers]
  PROVE  ClockInv'
<1>1. TypeOK /\ ClientInv /\ ScanInv /\ strategyLock' \in Backends \cup {None}
  BY Zenon DEF ClockInv, TypeOK, ClientTypeOK
<1>2. ClientInv'
  BY <1>1, ScanStepInv, Zenon
<1>3. TypeOK'
  BY <1>2, Zenon DEF ClientInv, TypeOK
<1>4. ScanInv'
  BY <1>1 DEF ScanInv, Scanning
<1> QED
  BY <1>2, <1>3, <1>4, Zenon DEF ClockInv

(***************************************************************************)
(* Every step of the sweeping backends and of the buffer manager keeps the *)
(* invariant.                                                              *)
(***************************************************************************)
LEMMA NextClock == ClockInv /\ [Next]_vars => ClockInv'
<1> SUFFICES ASSUME ClockInv, [Next]_vars PROVE ClockInv'
  OBVIOUS
<1>0. /\ TypeOK /\ ClientInv /\ ScanInv /\ ClientTypeOK /\ HandTypeOK(Backends)
      /\ pc \in [Backends -> PCs] /\ buf \in [Backends -> Slots]
      /\ usage \in [Buf -> 0 .. MaxUsage]
      /\ try \in [Backends -> 0 .. NBuffers] /\ old \in [Backends -> Words]
      /\ passed \in [Backends -> SUBSET Buf]
      /\ overtaken \in [Backends -> 0 .. NBuffers]
  BY Zenon DEF ClockInv, TypeOK, ClientTypeOK
<1>1. CASE UNCHANGED vars
  BY <1>1 DEF ClockInv, TypeOK, HandTypeOK, ClientInv, ClientTypeOK,
              RefcountCountsPins, Pinners, VictimsExclusive, CallInv, ScanInv,
              Scanning, vars, clientVars, headerVars, handVars, scanVars
<1>2. /\ NBuffers \in 1 .. NBuffers /\ NBuffers \in 0 .. NBuffers
      /\ 0 \in 0 .. NBuffers /\ NoWord \in Words
  BY DEF NoWord, Words
<1>3. ASSUME UNCHANGED handVars
      PROVE  HandTypeOK(Backends)'
  BY <1>0, <1>3, Zenon DEF HandTypeOK, handVars
<1>4. ASSUME NEW p \in Backends, StartScan(p) PROVE ClockInv'
  BY <1>0, <1>2, <1>3, <1>4, ScanPreserves, Zenon
  DEF StartScan, Goto, PCs, headerVars, ScanInv, Scanning
<1>5. ASSUME NEW p \in Backends, Tick(p) PROVE ClockInv'
  <2>1. HandTypeOK(Backends)' /\ Victim \in Buf
    BY <1>0, <1>5, HandStep, Zenon DEF Tick
  <2>2. buf' \in [Backends -> Slots]
    BY <1>0, <1>5, <2>1, SentinelIsNoBuffer, Zenon DEF Tick
  <2>3. overtaken' \in [Backends -> 0 .. NBuffers]
    BY <1>0, <1>5 DEF Tick
  <2>4. try[p] \in 1 .. NBuffers
    BY <1>0, <1>5, Zenon DEF Tick, ScanInv, Scanning
  <2> QED
    BY <1>0, <1>5, <2>1, <2>2, <2>3, <2>4, ScanPreserves, Zenon
    DEF Tick, Scanning, headerVars
<1>6. ASSUME NEW p \in Backends, Wrap(p) PROVE ClockInv'
  <2>1. HandTypeOK(Backends)'
    BY <1>0, <1>6, WrapStep, Zenon DEF Wrap
  <2>2. try[p] \in 1 .. NBuffers
    BY <1>0, <1>6, Zenon DEF Wrap, ScanInv, Scanning
  <2> QED
    BY <1>0, <1>6, <2>1, <2>2, ScanPreserves, Zenon
    DEF Wrap, clientVars, headerVars, scanVars
<1>7. ASSUME NEW p \in Backends, ReadCandidate(p) PROVE ClockInv'
  <2>1. buf[p] \in Buf /\ try[p] \in 1 .. NBuffers
    BY <1>0, <1>7 DEF ReadCandidate, ScanInv, Scanning, Slots, Buf
  <2>2. old' \in [Backends -> Words]
    BY <1>0, <1>7, <2>1, WordType, Zenon DEF ReadCandidate
  <2> QED
    BY <1>0, <1>3, <1>7, <2>1, <2>2, ScanPreserves, Zenon
    DEF ReadCandidate, Goto, PCs, headerVars
<1>8. ASSUME NEW p \in Backends, pc[p] = "act"
      PROVE  buf[p] \in Buf /\ try[p] \in 1 .. NBuffers
  BY <1>0, <1>8, Zenon DEF ScanInv, Scanning
<1>9. ASSUME NEW p \in Backends, SkipPinned(p) PROVE ClockInv'
  <2>1. buf[p] \in Buf /\ try[p] \in 1 .. NBuffers
    BY <1>8, <1>9, Zenon DEF SkipPinned
  <2>2. CASE /\ try[p] > 1 /\ NextBuffer(p, try[p] - 1) /\ UNCHANGED overtaken
             /\ passed' = [passed EXCEPT ![p] = @ \cup {buf[p]}]
    <3>1. try[p] - 1 \in 1 .. NBuffers /\ try[p] - 1 \in 0 .. NBuffers
      BY <2>1, <2>2, TrialCounts, Zenon
    <3> QED
      BY <1>0, <1>2, <1>3, <1>9, <2>1, <2>2, <3>1, SentinelIsNoBuffer,
         ScanPreserves, Zenon
      DEF SkipPinned, NextBuffer, PCs, headerVars
  <2>3. CASE EndScan(p)
    BY <1>0, <1>2, <1>3, <1>9, <2>3, SentinelIsNoBuffer, ScanPreserves, Zenon
    DEF SkipPinned, EndScan, Return, PCs, headerVars
  <2> QED
    BY <1>9, <2>2, <2>3, Zenon DEF SkipPinned
<1>10. ASSUME NEW p \in Backends, WaitBufHdrUnlocked(p) \/ CASFails(p)
       PROVE  ClockInv'
  <2>1. /\ pc[p] = "act" /\ old' = [old EXCEPT ![p] = Word(buf[p])]
        /\ UNCHANGED <<clientVars, handVars, try, passed, overtaken>>
    BY <1>10, Zenon DEF WaitBufHdrUnlocked, CASFails, Free
  <2>2. buf[p] \in Buf /\ try[p] \in 1 .. NBuffers
    BY <1>8, <2>1, Zenon
  <2>3. old' \in [Backends -> Words]
    BY <1>0, <2>1, <2>2, WordType, Zenon
  <2> QED
    BY <1>0, <1>3, <2>1, <2>2, <2>3, ScanPreserves, Zenon DEF clientVars, headerVars
<1>11. ASSUME NEW p \in Backends, LowerUsage(p) PROVE ClockInv'
  <2>1. buf[p] \in Buf
    BY <1>8, <1>11, Zenon DEF LowerUsage, Free
  <2>2. usage[buf[p]] # 0
    <3>1. Word(buf[p]) = old[p] /\ old[p].usage # 0
      BY <1>11, Zenon DEF LowerUsage, CASSucceeds
    <3> QED
      BY <3>1, WordFields, Zenon
  <2>3. /\ usage' \in [Buf -> 0 .. MaxUsage]
        /\ \A b \in Buf : usage[b] = 0 => usage'[b] = 0
    BY <1>0, <1>11, <2>1, <2>2 DEF LowerUsage
  <2> QED
    BY <1>0, <1>2, <1>3, <1>11, <2>3, SentinelIsNoBuffer, ScanPreserves, Zenon
    DEF LowerUsage, NextBuffer, PCs
<1>12. ASSUME NEW p \in Backends, ClaimCandidate(p) PROVE ClockInv'
  <2>1. /\ pc[p] = "act" /\ Claim(p, buf[p]) /\ Return(p) /\ buf[p] \in Buf
        /\ UNCHANGED <<usage, locked, tagged>>
    BY <1>8, <1>12, Zenon DEF ClaimCandidate, Free, EndScan
  <2>2. refcount[buf[p]] = 0 /\ locked[buf[p]] = None
    <3>1. Word(buf[p]) = old[p] /\ old[p].refcount = 0 /\ old[p].locked = None
      BY <1>12, Zenon DEF ClaimCandidate, Free, CASSucceeds
    <3> QED
      BY <3>1, WordFields, Zenon
  <2>3. strategyLock' \in Backends \cup {None}
    BY <1>0, <1>12, Zenon DEF ClaimCandidate, EndScan, ClientTypeOK
  <2>4. ClientInv'
    BY <1>0, <2>1, <2>2, <2>3, ClaimInv, Zenon
  <2>5. TypeOK'
    BY <1>0, <1>2, <1>3, <1>12, <2>4, Zenon
    DEF ClaimCandidate, EndScan, ClientInv, TypeOK
  <2>6. ScanInv'
    BY <1>0, <1>12, Zenon DEF ClaimCandidate, EndScan, Return, ScanInv, Scanning
  <2> QED
    BY <2>4, <2>5, <2>6, Zenon DEF ClockInv
<1>13. ASSUME NEW p \in Backends, StrategyNotifyInsert(p) PROVE ClockInv'
  <2>1. ClientInv'
    BY <1>0, <1>13, HandBackInv, Zenon DEF StrategyNotifyInsert
  <2>2. TypeOK'
    BY <1>0, <1>3, <1>13, <2>1, Zenon
    DEF StrategyNotifyInsert, ClientInv, TypeOK, scanVars
  <2>3. ScanInv'
    BY <1>0, <1>13, Zenon DEF StrategyNotifyInsert, HandBack, Return, ScanInv, Scanning,
                       scanVars
  <2> QED
    BY <2>1, <2>2, <2>3 DEF ClockInv
<1>14. ASSUME NEW p \in Backends, StrategyNotifyInvalidate(p) PROVE ClockInv'
  <2>1. ClientInv'
    BY <1>0, <1>14, NotifyInvalidateInv, Zenon DEF StrategyNotifyInvalidate
  <2>2. TypeOK'
    BY <1>0, <1>3, <1>14, <2>1, Zenon
    DEF StrategyNotifyInvalidate, ClientInv, TypeOK, scanVars
  <2>3. ScanInv'
    BY <1>0, <1>14, Zenon DEF StrategyNotifyInvalidate, Goto, ScanInv, Scanning, scanVars
  <2> QED
    BY <2>1, <2>2, <2>3 DEF ClockInv
<1>15. ASSUME NEW p \in Backends, ManagerStep(p), UNCHANGED <<handVars, scanVars>>
       PROVE  ClockInv'
  BY <1>15, ClientPreserves DEF ClientStep
<1>16. ASSUME NEW p \in Backends, NEW b \in Buf, Pin(p, b) \/ LockHeader(p, b)
       PROVE  ClockInv'
  <2>1. ClientStep(p) /\ UNCHANGED <<handVars, scanVars>>
    BY <1>16 DEF Pin, LockHeader, ClientStep
  <2> QED
    BY <2>1, ClientPreserves, Zenon
<1> QED
  BY <1>1, <1>4, <1>5, <1>6, <1>7, <1>9, <1>10, <1>11, <1>12, <1>13, <1>14,
     <1>15, <1>16, Zenon
  DEF Next, ClockSweepGetBuffer

(***************************************************************************)
(* The inductive invariant holds throughout.                               *)
(***************************************************************************)
LEMMA ClockInvariant == Spec => []ClockInv
  BY InitClock, NextClock, PTL DEF Spec

(***************************************************************************)
(* The hand, the trycounters and the copied state words of the clock sweep *)
(* stay within their types; the counters are unsigned and 32 bits wide.    *)
(***************************************************************************)
THEOREM ClockSweepTypeCorrect == Spec => []TypeOK
<1>1. ClockInv => TypeOK
  BY DEF ClockInv
<1> QED
  BY <1>1, ClockInvariant, PTL

(***************************************************************************)
(* However many backends sweep at once, the refcount in a state word is    *)
(* the number of pins on the buffer: no compare-and-exchange loses one.    *)
(***************************************************************************)
THEOREM ClockSweepCountsPins == Spec => []RefcountCountsPins
<1>1. ClockInv => RefcountCountsPins
  BY Zenon DEF ClockInv, ClientInv
<1> QED
  BY <1>1, ClockInvariant, PTL

(***************************************************************************)
(* ClockSweepGetBuffer hands no buffer to two backends.                    *)
(***************************************************************************)
THEOREM ClockSweepVictimsExclusive == Spec => []VictimsExclusive
<1>1. ClockInv => VictimsExclusive
  BY Zenon DEF ClockInv, ClientInv
<1> QED
  BY <1>1, ClockInvariant, PTL

-----------------------------------------------------------------------------
(* The eviction contract                                                   *)

(***************************************************************************)
(* Every step is a step of the contract or changes nothing it speaks       *)
(* about.                                                                  *)
(***************************************************************************)
LEMMA ContractStep == ClockInv /\ [Next]_vars => [Contract!Next]_Contract!vars
<1> SUFFICES ASSUME ClockInv, [Next]_vars
             PROVE  Contract!Next \/ UNCHANGED Contract!vars
  OBVIOUS
<1>0. Buf' = Buf
  BY DEF Buf
<1>1. CASE UNCHANGED vars
  BY <1>0, <1>1, Zenon DEF vars, clientVars, Contract!vars
<1>2. ASSUME NEW p \in Backends,
             \/ StartScan(p) \/ Tick(p) \/ Wrap(p) \/ ReadCandidate(p)
             \/ SkipPinned(p) \/ WaitBufHdrUnlocked(p) \/ LowerUsage(p)
             \/ CASFails(p) \/ StrategyNotifyInvalidate(p)
      PROVE  UNCHANGED Contract!vars
  BY <1>0, <1>2, Zenon DEF StartScan, Tick, Wrap, ReadCandidate, SkipPinned,
     WaitBufHdrUnlocked, LowerUsage, CASFails, StrategyNotifyInvalidate,
     clientVars, Contract!vars
<1>3. ASSUME NEW p \in Backends, ClaimCandidate(p) PROVE Contract!Next
  <2>1. buf[p] \in Buf
    BY <1>3, Zenon DEF ClaimCandidate, Free, ClockInv, ScanInv
  <2>2. refcount[buf[p]] = 0
    <3>1. old[p].refcount = 0 /\ Word(buf[p]) = old[p]
      BY <1>3, Zenon DEF ClaimCandidate, Free, CASSucceeds
    <3>2. Word(buf[p]).refcount = refcount[buf[p]]
      BY WordFields, Zenon
    <3> QED
      BY <3>1, <3>2, Zenon
  <2>3. \A q \in Backends : buf[p] \notin pins[q]
    BY <2>1, <2>2, RefcountMeaning, Zenon DEF ClockInv, ClientInv
  <2>4. Contract!Claim(p, buf[p])
    BY <1>0, <1>3, <2>1, <2>3, Zenon
    DEF ClaimCandidate, Claim, Contract!Claim, Contract!Take, Contract!Unpinned
  <2> QED
    BY <2>1, <2>4, Zenon DEF Contract!Next
<1>4. ASSUME NEW p \in Backends, StrategyNotifyInsert(p) PROVE Contract!Next
  <2>1. buf[p] \in victims[p] /\ buf[p] \in Buf
    BY <1>4, Zenon DEF StrategyNotifyInsert, ClockInv, ClientInv, CallInv, ClientTypeOK
  <2>2. Contract!GiveBack(p, buf[p])
    BY <1>0, <1>4, <2>1, Zenon DEF StrategyNotifyInsert, HandBack, Contract!GiveBack
  <2> QED
    BY <2>1, <2>2, Zenon DEF Contract!Next
<1>5. ASSUME NEW p \in Backends, ManagerStep(p)
      PROVE  Contract!Next \/ UNCHANGED Contract!vars
  <2>1. CASE StrategyGetBuffer(p) \/ UnlockPinned(p) \/ ClearBufferTag(p)
    BY <1>0, <2>1, Zenon DEF StrategyGetBuffer, UnlockPinned, ClearBufferTag,
                      Contract!vars
  <2>2. ASSUME NEW b \in Buf, UnpinBuffer(p, b) PROVE Contract!Next
    <3>1. Contract!Unpin(p, b)
      BY <1>0, <2>2, Zenon DEF UnpinBuffer, Contract!Unpin
    <3> QED
      BY <3>1, Zenon DEF Contract!Next
  <2>3. ASSUME NEW b \in Buf, GetBufferFromRing(p, b) PROVE Contract!Next
    <3>1. \A q \in Backends : b \notin pins[q]
      BY <2>3, RefcountMeaning, Zenon DEF GetBufferFromRing, ClockInv, ClientInv
    <3>2. Contract!ClaimFromRing(p, b)
      BY <1>0, <2>3, <3>1, Zenon DEF GetBufferFromRing,
         Contract!ClaimFromRing, Contract!Take, Contract!Unpinned
    <3> QED
      BY <3>2, Zenon DEF Contract!Next
  <2>4. ASSUME NEW b \in Buf,
               InvalidateVictimBuffer(p, b) \/ ReuseVictim(p, b) \/ GiveUpVictim(p, b)
        PROVE  UNCHANGED Contract!vars
    BY <1>0, <2>4, Zenon DEF InvalidateVictimBuffer, ReuseVictim, GiveUpVictim,
                      Contract!vars
  <2>5. ASSUME NEW b \in Buf, LoseVictim(p, b) PROVE Contract!Next
    <3>1. Contract!Lose(p, b)
      BY <1>0, <2>5, Zenon DEF LoseVictim, Contract!Lose
    <3> QED
      BY <3>1, Zenon DEF Contract!Next
  <2> QED
    BY <1>5, <2>1, <2>2, <2>3, <2>4, <2>5, Zenon DEF ManagerStep
<1>6. ASSUME NEW p \in Backends, NEW b \in Buf, Pin(p, b) PROVE Contract!Next
  <2>1. Contract!Pin(p, b)
    BY <1>0, <1>6, Zenon DEF Pin, PinBuffer, PinBuffer_Locked, Contract!Pin
  <2> QED
    BY <2>1, Zenon DEF Contract!Next
<1>7. ASSUME NEW p \in Backends, NEW b \in Buf, LockHeader(p, b)
      PROVE  UNCHANGED Contract!vars
  BY <1>0, <1>7 DEF LockHeader, LockBufHdr, Contract!vars
<1> QED
  BY <1>1, <1>2, <1>3, <1>4, <1>5, <1>6, <1>7, Zenon DEF Next, ClockSweepGetBuffer

(***************************************************************************)
(* The clock sweep implements the eviction contract: whatever              *)
(* ClockSweepGetBuffer returns was pinned by nobody at the moment of its   *)
(* compare-and-exchange.                                                   *)
(***************************************************************************)
THEOREM ClockSweepImplementsContract == Spec => ImplementsContract
<1>1. Init => Contract!Init
  BY DEF Init, ClientInit, Contract!Init
<1> QED
  BY <1>1, ContractStep, ClockInvariant, PTL
  DEF Spec, ImplementsContract, Contract!Spec

-----------------------------------------------------------------------------
(* The pass before "no unpinned buffers available"                         *)

(***************************************************************************)
(* How many ticks ago the hand was last on buffer b; the buffers of the    *)
(* last k ticks; how often the hand has moved since p's trycounter was     *)
(* reset; and the buffers it passed meanwhile that p did not get to see.   *)
(***************************************************************************)
Distance(b) == IF b < Victim THEN Victim - b ELSE Victim + NBuffers - b
Behind(k) == {b \in Buf : Distance(b) <= k}
Ticks(p) ==
  NBuffers - try[p] + (IF buf[p] = NBuffers THEN 0 ELSE 1) + overtaken[p]
Missed(p) == Behind(Ticks(p)) \ (passed[p] \cup {buf[p]})

PassInv == \A p \in Backends : Scanning(p) => Cardinality(Missed(p)) <= overtaken[p]

(***************************************************************************)
(* A tick leaves one buffer more behind the hand.                          *)
(***************************************************************************)
LEMMA BehindNext ==
  ASSUME Victim \in Buf, Victim' = After(Victim), NEW k \in Nat
  PROVE  Behind(k + 1)' = Behind(k) \cup {Victim}
<1>1. \A b \in Buf : Distance(b)' = IF b = Victim THEN 1 ELSE Distance(b) + 1
  BY DEF Distance, After, Buf
<1>2. \A b \in Buf : Distance(b) \in Nat
  BY DEF Distance, Buf
<1> QED
  BY <1>1, <1>2 DEF Behind

(***************************************************************************)
(* After NBuffers ticks every buffer is behind the hand.                   *)
(***************************************************************************)
LEMMA BehindAll ==
  ASSUME Victim \in Buf, NEW k \in Nat, k >= NBuffers
  PROVE  Behind(k) = Buf
  BY DEF Behind, Distance, Buf

(***************************************************************************)
(* Before the first tick none is.                                          *)
(***************************************************************************)
LEMMA BehindNone ==
  ASSUME Victim \in Buf
  PROVE  Behind(0) = {}
  BY DEF Behind, Distance, Buf

(***************************************************************************)
(* The pool has NBuffers buffers.                                          *)
(***************************************************************************)
LEMMA BufFinite ==
  IsFiniteSet(Buf) /\ Cardinality(Buf) = NBuffers
  BY FS_Interval DEF Buf

(***************************************************************************)
(* A set of buffers has at most NBuffers elements.                         *)
(***************************************************************************)
LEMMA MissedFinite ==
  ASSUME NEW S \in SUBSET Buf
  PROVE  IsFiniteSet(S) /\ Cardinality(S) \in Nat /\ Cardinality(S) <= NBuffers
  BY BufFinite, FS_Subset, FS_CardinalityType, Zenon

(***************************************************************************)
(* Missing the buffers S and one more costs one more overtaking tick.      *)
(***************************************************************************)
LEMMA MissOne ==
  ASSUME NEW S \in SUBSET Buf, NEW T \in SUBSET Buf, NEW b, T \subseteq S \cup {b}
  PROVE  Cardinality(T) <= Cardinality(S) + 1
<1>1. IsFiniteSet(S) /\ Cardinality(S) \in Nat
  BY MissedFinite, Zenon
<1>2. IsFiniteSet(S \cup {b}) /\ Cardinality(S \cup {b}) <= Cardinality(S) + 1
  <2>1. CASE b \in S
    <3>1. S \cup {b} = S
      BY <2>1
    <3>2. Cardinality(S) <= Cardinality(S) + 1
      BY <1>1
    <3> QED
      BY <1>1, <3>1, <3>2, Zenon
  <2>2. CASE b \notin S
    <3>1. IsFiniteSet(S \cup {b}) /\ Cardinality(S \cup {b}) = Cardinality(S) + 1
      BY <1>1, <2>2, OneMore, FS_AddElement, Zenon
    <3> QED
      BY <1>1, <3>1
  <2> QED
    BY <2>1, <2>2, Zenon
<1>3. Cardinality(T) <= Cardinality(S \cup {b})
  BY <1>2, FS_Subset
<1>4. Cardinality(T) \in Nat /\ Cardinality(S \cup {b}) \in Nat
  BY <1>2, MissedFinite, FS_CardinalityType
<1> QED
  BY <1>1, <1>2, <1>3, <1>4

(***************************************************************************)
(* Fewer buffers, fewer to count.                                          *)
(***************************************************************************)
LEMMA MissNoMore ==
  ASSUME NEW S \in SUBSET Buf, NEW T \in SUBSET S
  PROVE  Cardinality(T) <= Cardinality(S)
  BY MissedFinite, FS_Subset

(***************************************************************************)
(* The ticks since a scan began, the buffers it missed and the count of    *)
(* those that overtook it have their types.                                *)
(***************************************************************************)
LEMMA TicksType ==
  ASSUME TypeOK, NEW p \in Backends
  PROVE  Ticks(p) \in Nat /\ Missed(p) \in SUBSET Buf /\ overtaken[p] \in 0 .. NBuffers
<1>1. try[p] \in 0 .. NBuffers /\ overtaken[p] \in 0 .. NBuffers
  BY DEF TypeOK
<1> QED
  BY <1>1 DEF Ticks, Missed, Behind

(***************************************************************************)
(* Passing over a pinned buffer ends one try: the hand has moved as often. *)
(***************************************************************************)
LEMMA TicksKept ==
  ASSUME NEW p, try[p] \in 1 .. NBuffers, overtaken[p] \in 0 .. NBuffers,
         buf[p] \in Buf, buf'[p] = NBuffers, try'[p] = try[p] - 1,
         overtaken'[p] = overtaken[p]
  PROVE  Ticks(p)' = Ticks(p)
  BY SentinelIsNoBuffer DEF Ticks

(***************************************************************************)
(* A tick of the scan's own that gives it a buffer to look at, or a tick   *)
(* of another backend, is one tick more.                                   *)
(***************************************************************************)
LEMMA TicksGrow ==
  ASSUME NEW p, NEW k \in Nat, k = Ticks(p), try[p] \in 0 .. NBuffers,
         overtaken[p] \in 0 .. NBuffers, try'[p] = try[p],
         \/ /\ buf[p] = NBuffers /\ buf'[p] # NBuffers
            /\ overtaken'[p] = overtaken[p]
         \/ buf'[p] = buf[p] /\ overtaken'[p] = overtaken[p] + 1
  PROVE  Ticks(p)' = k + 1
  BY DEF Ticks

(***************************************************************************)
(* With a buffer to look at and trycounter at 1 the hand has moved at      *)
(* least NBuffers times.                                                   *)
(***************************************************************************)
LEMMA TicksOfPass ==
  ASSUME NEW p, try[p] = 1, buf[p] \in Buf, overtaken[p] \in 0 .. NBuffers
  PROVE  Ticks(p) >= NBuffers
  BY SentinelIsNoBuffer DEF Ticks

(***************************************************************************)
(* What bounds a count that did not grow, or grew by at most one.          *)
(***************************************************************************)
LEMMA NoMoreThan ==
  ASSUME NEW m \in Nat, NEW n \in Nat, NEW k \in 0 .. NBuffers, m <= k
  PROVE  (n <= m => n <= k) /\ (n <= m + 1 => n <= k + 1)
  OBVIOUS

(***************************************************************************)
(* The hand points at a buffer.                                            *)
(***************************************************************************)
LEMMA VictimType ==
  ASSUME TypeOK
  PROVE  Victim \in Buf
  BY Quotient DEF TypeOK, HandTypeOK, UInts, Victim, Buf

(***************************************************************************)
(* A step that does not move the hand and leaves q's scan alone.           *)
(***************************************************************************)
LEMMA SameMissed ==
  ASSUME PassInv, NEW q \in Backends, Scanning(q), Victim' = Victim,
         try'[q] = try[q], buf'[q] = buf[q], passed'[q] = passed[q],
         overtaken'[q] = overtaken[q]
  PROVE  Cardinality(Missed(q)') <= overtaken'[q]
<1>1. Missed(q)' = Missed(q)
  BY DEF Missed, Behind, Distance, Ticks
<1> QED
  BY <1>1 DEF PassInv

(***************************************************************************)
(* The hand moves by one for p, and past every other scan.                 *)
(***************************************************************************)
LEMMA TickPasses ==
  ASSUME ClockInv, PassInv, NEW p \in Backends, Tick(p), HandInOrder
  PROVE  PassInv'
<1>1. TypeOK /\ Victim \in Buf
  BY VictimType DEF ClockInv
<1>2. Victim' = After(Victim)
  BY <1>1, HandStep, Zenon DEF Tick, TypeOK
<1> SUFFICES ASSUME NEW q \in Backends, Scanning(q)'
             PROVE  Cardinality(Missed(q)') <= overtaken'[q]
  BY Zenon DEF PassInv
<1>3. Scanning(q)
  BY DEF Tick, Scanning
<1>4. /\ Cardinality(Missed(q)) <= overtaken[q]
      /\ Ticks(q) \in Nat /\ Missed(q) \in SUBSET Buf /\ overtaken[q] \in 0 .. NBuffers
  BY <1>1, <1>3, TicksType, Zenon DEF PassInv
<1>5. PICK k \in Nat : k = Ticks(q)
  BY <1>4
<1>6. Behind(k + 1)' = Behind(k) \cup {Victim}
  BY <1>1, <1>2, BehindNext, Zenon
<1>7. try[q] \in 0 .. NBuffers /\ buf \in [Backends -> Slots]
  BY <1>1, Zenon DEF TypeOK, ClientTypeOK
<1>8. CASE q = p
  <2>1. /\ buf[q] = NBuffers /\ buf'[q] = Victim /\ try'[q] = try[q]
        /\ overtaken'[q] = overtaken[q] /\ passed'[q] = passed[q]
    BY <1>7, <1>8, Zenon DEF Tick
  <2>2. Ticks(q)' = k + 1
    BY <1>1, <1>4, <1>5, <1>7, <2>1, SentinelIsNoBuffer, TicksGrow, Zenon
  <2>3. Missed(q)' = Behind(k + 1)' \ (passed[q] \cup {Victim})
    BY <2>1, <2>2, Zenon DEF Missed, Behind
  <2>4. Missed(q)' \subseteq Missed(q)
    BY <1>5, <1>6, <2>1, <2>3, SentinelIsNoBuffer, Zenon DEF Missed, Behind
  <2>5. Cardinality(Missed(q)') <= Cardinality(Missed(q))
    BY <1>4, <2>4, MissNoMore, Zenon
  <2> QED
    <3>1. Cardinality(Missed(q)) \in Nat /\ Cardinality(Missed(q)') \in Nat
      BY <1>4, <2>4, MissedFinite, Zenon
    <3> QED
      BY <1>4, <2>1, <2>5, <3>1, NoMoreThan, Zenon
<1>9. CASE q # p /\ overtaken[q] < NBuffers
  <2>1. /\ buf'[q] = buf[q] /\ try'[q] = try[q]
        /\ overtaken'[q] = overtaken[q] + 1 /\ passed'[q] = passed[q]
    BY <1>3, <1>7, <1>9, Zenon DEF Tick
  <2>2. Ticks(q)' = k + 1
    BY <1>4, <1>5, <1>7, <2>1, TicksGrow, Zenon
  <2>3. Missed(q)' = Behind(k + 1)' \ (passed[q] \cup {buf[q]})
    BY <2>1, <2>2, Zenon DEF Missed, Behind
  <2>4. Missed(q)' \subseteq Missed(q) \cup {Victim} /\ Missed(q)' \in SUBSET Buf
    BY <1>1, <1>5, <1>6, <2>3, Zenon DEF Missed, Behind
  <2>5. Cardinality(Missed(q)') <= Cardinality(Missed(q)) + 1
    BY <1>4, <2>4, MissOne, Zenon
  <2>6. Cardinality(Missed(q)) \in Nat /\ Cardinality(Missed(q)') \in Nat
    BY <1>4, <2>4, MissedFinite, Zenon
  <2> QED
    <3>1. Cardinality(Missed(q)') <= overtaken[q] + 1
      BY <1>4, <2>5, <2>6, NoMoreThan, Zenon
    <3> QED
      BY <2>1, <3>1, Zenon
<1>10. CASE q # p /\ ~(overtaken[q] < NBuffers)
  <2>1. overtaken'[q] = NBuffers
    BY <1>4, <1>10 DEF Tick
  <2>2. Missed(q)' \in SUBSET Buf
    BY Zenon DEF Missed, Behind, Buf
  <2> QED
    BY <2>1, <2>2, MissedFinite, Zenon
<1> QED
  BY <1>8, <1>9, <1>10

(***************************************************************************)
(* Every step keeps the account of the pass: what is behind the hand was   *)
(* seen by the scan or is charged to another backend's tick.               *)
(***************************************************************************)
LEMMA NextPass == ClockInv /\ PassInv /\ HandInOrder /\ [Next]_vars => PassInv'
<1> SUFFICES ASSUME ClockInv, PassInv, HandInOrder, [Next]_vars PROVE PassInv'
  BY Zenon
<1>0. /\ TypeOK /\ ScanInv /\ ClientTypeOK /\ Victim \in Buf
      /\ pc \in [Backends -> PCs] /\ buf \in [Backends -> Slots]
      /\ try \in [Backends -> 0 .. NBuffers]
      /\ passed \in [Backends -> SUBSET Buf]
      /\ overtaken \in [Backends -> 0 .. NBuffers]
  BY VictimType, Zenon DEF ClockInv, TypeOK, ClientTypeOK
<1>1. ASSUME NEW p \in Backends, Victim' = Victim,
             \A q \in Backends \ {p} :
               /\ Scanning(q)' => Scanning(q)
               /\ try'[q] = try[q] /\ buf'[q] = buf[q]
               /\ passed'[q] = passed[q] /\ overtaken'[q] = overtaken[q],
             Scanning(p)' => Cardinality(Missed(p)') <= overtaken'[p]
      PROVE  PassInv'
  BY <1>1, SameMissed, Zenon DEF PassInv
<1>2. ASSUME NEW p \in Backends, buf'[p] = NBuffers, try'[p] = NBuffers,
             overtaken'[p] = 0, Victim' = Victim
      PROVE  Cardinality(Missed(p)') <= overtaken'[p]
  <2>1. Ticks(p)' = 0
    BY <1>2 DEF Ticks
  <2>2. Missed(p)' = {}
    BY <1>0, <1>2, <2>1, BehindNone DEF Missed, Behind, Distance
  <2> QED
    BY <1>2, <2>2, FS_EmptySet
<1>3. ASSUME UNCHANGED handVars PROVE Victim' = Victim
  BY <1>3, Zenon DEF handVars, Victim
<1>4. CASE UNCHANGED vars
  BY <1>4, <1>3, SameMissed, Zenon DEF PassInv, Scanning, vars, clientVars, scanVars
<1>5. ASSUME NEW p \in Backends, StartScan(p) PROVE PassInv'
  <2>1. buf'[p] = NBuffers /\ try'[p] = NBuffers /\ overtaken'[p] = 0
    BY <1>0, <1>5, Zenon DEF StartScan, ScanInv, Scanning
  <2> QED
    BY <1>0, <1>1, <1>2, <1>3, <1>5, <2>1, Zenon DEF StartScan, Goto, Scanning
<1>6. ASSUME NEW p \in Backends, Tick(p) PROVE PassInv'
  BY <1>6, TickPasses, Zenon
<1>7. ASSUME NEW p \in Backends,
             \/ Wrap(p) \/ ReadCandidate(p) \/ WaitBufHdrUnlocked(p) \/ CASFails(p)
      PROVE  PassInv'
  <2>1. Victim' = Victim
    BY <1>0, <1>3, <1>7, WrapStep, Zenon
    DEF Wrap, ReadCandidate, WaitBufHdrUnlocked, CASFails, TypeOK
  <2>2. UNCHANGED <<try, buf, passed, overtaken>>
    BY <1>7, Zenon DEF Wrap, ReadCandidate, WaitBufHdrUnlocked, CASFails, clientVars,
                scanVars
  <2>3. \A q \in Backends : Scanning(q)' => Scanning(q)
    BY <1>0, <1>7, Zenon DEF Wrap, ReadCandidate, WaitBufHdrUnlocked, CASFails, Goto,
                      Scanning, clientVars
  <2> QED
    BY <2>1, <2>2, <2>3, SameMissed, Zenon DEF PassInv
<1>8. ASSUME NEW p \in Backends, SkipPinned(p) PROVE PassInv'
  <2>1. Victim' = Victim /\ buf[p] \in Buf /\ try[p] \in 1 .. NBuffers
    BY <1>0, <1>3, <1>8, Zenon DEF SkipPinned, ScanInv, Scanning
  <2>2. CASE /\ try[p] > 1 /\ NextBuffer(p, try[p] - 1) /\ UNCHANGED overtaken
             /\ passed' = [passed EXCEPT ![p] = @ \cup {buf[p]}]
    <3>1. /\ buf'[p] = NBuffers /\ try'[p] = try[p] - 1
          /\ passed'[p] = passed[p] \cup {buf[p]}
          /\ overtaken'[p] = overtaken[p] /\ Scanning(p)
      BY <1>0, <1>8, <2>2, Zenon DEF NextBuffer, SkipPinned, Scanning
    <3>2. overtaken[p] \in 0 .. NBuffers
      BY <1>0
    <3>3. Ticks(p)' = Ticks(p)
      BY <2>1, <3>1, <3>2, TicksKept, Zenon
    <3>4. Missed(p)' = Missed(p)
      BY <2>1, <3>1, <3>3, SentinelIsNoBuffer, Zenon DEF Missed, Behind, Distance
    <3>5. Cardinality(Missed(p)') <= overtaken'[p]
      BY <3>1, <3>4, Zenon DEF PassInv
    <3> QED
      BY <1>0, <1>1, <2>1, <2>2, <3>5, Zenon DEF NextBuffer, Scanning
  <2>3. CASE EndScan(p)
    <3>1. ~Scanning(p)'
      BY <1>0, <2>3, Zenon DEF EndScan, Return, Scanning
    <3> QED
      BY <1>0, <1>1, <2>1, <2>3, <3>1, Zenon DEF EndScan, Return, Scanning
  <2> QED
    BY <1>8, <2>2, <2>3, Zenon DEF SkipPinned
<1>9. ASSUME NEW p \in Backends, LowerUsage(p) PROVE PassInv'
  <2>1. buf'[p] = NBuffers /\ try'[p] = NBuffers /\ overtaken'[p] = 0
    BY <1>0, <1>9, Zenon DEF LowerUsage, NextBuffer
  <2> QED
    BY <1>0, <1>1, <1>2, <1>3, <1>9, <2>1, Zenon DEF LowerUsage, NextBuffer, Scanning
<1>10. ASSUME NEW p \in Backends, ClaimCandidate(p) PROVE PassInv'
  <2>1. ~Scanning(p)'
    BY <1>0, <1>10, Zenon DEF ClaimCandidate, EndScan, Return, Scanning
  <2> QED
    BY <1>0, <1>1, <1>3, <1>10, <2>1, Zenon DEF ClaimCandidate, EndScan, Return, Scanning
<1>11. ASSUME NEW p \in Backends,
              StrategyNotifyInsert(p) \/ StrategyNotifyInvalidate(p)
       PROVE  PassInv'
  <2>1. ~Scanning(p)'
    BY <1>0, <1>11, Zenon DEF StrategyNotifyInsert, StrategyNotifyInvalidate, HandBack,
                       Return, Goto, Scanning
  <2> QED
    BY <1>0, <1>1, <1>3, <1>11, <2>1, Zenon
    DEF StrategyNotifyInsert, StrategyNotifyInvalidate, HandBack, Return, Goto,
        Scanning, scanVars
<1>12. ASSUME NEW p \in Backends, ClientStep(p), UNCHANGED <<handVars, scanVars>>
       PROVE  PassInv'
  <2>1. /\ pc'[p] \notin {"scan", "act"}
        /\ \A q \in Backends \ {p} : pc'[q] = pc[q] /\ buf'[q] = buf[q]
    BY <1>0, <1>12, ClientStepFrame, Zenon
  <2> QED
    BY <1>1, <1>3, <1>12, <2>1, Zenon DEF Scanning, scanVars
<1>13. ASSUME NEW p \in Backends, NEW b \in Buf, Pin(p, b) \/ LockHeader(p, b)
       PROVE  PassInv'
  BY <1>12, <1>13, Zenon DEF Pin, LockHeader, ClientStep
<1> QED
  BY <1>4, <1>5, <1>6, <1>7, <1>8, <1>9, <1>10, <1>11, <1>12, <1>13, Zenon
  DEF Next, ClockSweepGetBuffer, ClientStep

(***************************************************************************)
(* At the last try the account is what the property claims.                *)
(***************************************************************************)
LEMMA FullPass == ClockInv /\ PassInv => FullPassUnlessOvertaken
<1> SUFFICES ASSUME ClockInv, PassInv, NEW p \in Backends,
                    pc[p] = "act", try[p] = 1
             PROVE  Cardinality(Buf \ (passed[p] \cup {buf[p]})) <= overtaken[p]
  BY Zenon DEF FullPassUnlessOvertaken
<1>1. TypeOK /\ Victim \in Buf /\ buf[p] \in Buf /\ Scanning(p)
  BY VictimType, Zenon DEF ClockInv, ScanInv, Scanning
<1>2. overtaken[p] \in 0 .. NBuffers /\ Ticks(p) \in Nat
  BY <1>1, TicksType, Zenon
<1>3. Ticks(p) >= NBuffers
  BY <1>1, <1>2, TicksOfPass, Zenon
<1>4. Behind(Ticks(p)) = Buf
  BY <1>1, <1>2, <1>3, BehindAll, Zenon
<1> QED
  BY <1>1, <1>4, Zenon DEF PassInv, Missed

(***************************************************************************)
(* ClockSweepGetBuffer raises "no unpinned buffers available" only after   *)
(* it has found every buffer pinned, except for one per tick of another    *)
(* backend meanwhile; provided the 32-bit hand keeps its place, which it   *)
(* loses only if it overflows, in the middle of a pass, before a           *)
(* wraparound that some backend owes has been recorded.                    *)
(***************************************************************************)
THEOREM ClockSweepFullPass ==
  Spec /\ []HandInOrder => []FullPassUnlessOvertaken
<1>1. Init => PassInv
  BY DEF Init, ClientInit, PassInv, Scanning
<1>2. Spec /\ []HandInOrder => []PassInv
  BY <1>1, NextPass, ClockInvariant, PTL DEF Spec
<1> QED
  BY <1>2, FullPass, ClockInvariant, PTL

(***************************************************************************)
(* When the number of buffers divides 2^32, as every power of two does and *)
(* so the default of 16384 buffers, an overflow of the hand is harmless:   *)
(* ClockSweepGetBuffer then raises its error only after a full pass,       *)
(* without any proviso.                                                    *)
(***************************************************************************)
THEOREM ClockSweepFullPassDivides ==
  UInt32 % NBuffers = 0 => (Spec => []FullPassUnlessOvertaken)
<1>1. CASE UInt32 % NBuffers = 0
  <2>1. HandInOrder
    BY <1>1 DEF HandInOrder
  <2> QED
    BY <2>1, ClockSweepFullPass, PTL
<1> QED
  BY <1>1
=============================================================================
