----------------------- MODULE BackgroundWriterProofs -----------------------
(***************************************************************************)
(* The background writer, for every number of buffers and backends: it     *)
(* follows the strategy point as BgBufferSync means to (BgSync), and the   *)
(* wake-up from its hibernation is never lost (BgWriter, instantiated here *)
(* as Main).                                                               *)
(***************************************************************************)
EXTENDS BgSync, FiniteSetTheorems, TLAPS

\* The variables of BgWriter.  It shares the names of numBufferAllocs and
\* can_hibernate with BgSync; the theorems are about one of the two at a time.
VARIABLES requested, latch, bpc, pc, prev_hibernate, missed

Main == INSTANCE BgWriter

USE NBuffersAssumption, UInt32Assumption, BgSyncAssumption

-----------------------------------------------------------------------------
(* Arithmetic                                                              *)

(***************************************************************************)
(* A count of ticks as laps and the place within a lap (ClockSweepTick,    *)
(* StrategySyncStart: % NBuffers and / NBuffers).                          *)
(***************************************************************************)
LEMMA LapsAndPlace ==
  ASSUME NEW x \in Nat
  PROVE  /\ x % NBuffers \in Buf
         /\ x \div NBuffers \in Nat
         /\ x = (x \div NBuffers) * NBuffers + (x % NBuffers)
  BY DEF Buf

(***************************************************************************)
(* Laps and places determine one another.                                  *)
(***************************************************************************)
LEMMA PlaceOfSum ==
  ASSUME NEW q \in Nat, NEW r \in Buf
  PROVE  /\ (q * NBuffers + r) % NBuffers = r
         /\ (q * NBuffers + r) \div NBuffers = q
  BY DEF Buf

\* One step on: the next place, or the first of the next lap.
LEMMA NextPlace ==
  ASSUME NEW x \in Nat
  PROVE  \/ /\ (x % NBuffers) + 1 < NBuffers
            /\ (x + 1) % NBuffers = (x % NBuffers) + 1
            /\ (x + 1) \div NBuffers = x \div NBuffers
         \/ /\ (x % NBuffers) + 1 = NBuffers
            /\ (x + 1) % NBuffers = 0
            /\ (x + 1) \div NBuffers = (x \div NBuffers) + 1
<1>1. PICK q \in Nat : q = x \div NBuffers
  BY LapsAndPlace
<1>2. PICK r \in Buf : r = x % NBuffers
  BY LapsAndPlace
<1>3. x = q * NBuffers + r /\ r \in Nat /\ r < NBuffers
  BY <1>1, <1>2, LapsAndPlace DEF Buf
<1>4. CASE r + 1 < NBuffers
  <2>1. r + 1 \in Buf /\ x + 1 = q * NBuffers + (r + 1)
    BY <1>3, <1>4 DEF Buf
  <2>2. /\ (q * NBuffers + (r + 1)) % NBuffers = r + 1
        /\ (q * NBuffers + (r + 1)) \div NBuffers = q
    BY <2>1, PlaceOfSum
  <2> QED BY <1>1, <1>2, <1>4, <2>1, <2>2
<1>5. CASE r + 1 = NBuffers
  <2>1. 0 \in Buf /\ q + 1 \in Nat /\ x + 1 = (q + 1) * NBuffers + 0
    BY <1>3, <1>5 DEF Buf
  <2>2. /\ ((q + 1) * NBuffers + 0) % NBuffers = 0
        /\ ((q + 1) * NBuffers + 0) \div NBuffers = q + 1
    BY <2>1, PlaceOfSum
  <2> QED BY <1>1, <1>2, <1>5, <2>1, <2>2
<1> QED BY <1>3, <1>4, <1>5

(***************************************************************************)
(* Positions are compared by their laps first.                             *)
(***************************************************************************)
LEMMA Lexicographic ==
  ASSUME NEW a \in Nat, NEW b \in Nat, NEW r \in Buf, NEW s \in Buf
  PROVE  a * NBuffers + r <= b * NBuffers + s <=> a < b \/ (a = b /\ r <= s)
<1>1. /\ a * NBuffers \in Nat /\ b * NBuffers \in Nat
      /\ r \in Nat /\ s \in Nat /\ r < NBuffers /\ s < NBuffers
  BY DEF Buf
<1>2. ASSUME NEW m \in Nat, NEW n \in Nat, m < n
      PROVE  m * NBuffers + NBuffers <= n * NBuffers
  <2>1. PICK d \in Nat : n = m + 1 + d
    BY <1>2
  <2>2. n * NBuffers = m * NBuffers + NBuffers + d * NBuffers /\ d * NBuffers \in Nat
    BY <2>1
  <2>3. m * NBuffers \in Nat
    OBVIOUS
  <2> QED BY <2>2, <2>3
<1>3. CASE a < b
  BY <1>1, <1>2, <1>3
<1>4. CASE a = b
  BY <1>1, <1>4
<1>5. CASE b < a
  BY <1>1, <1>2, <1>5
<1> QED BY <1>3, <1>4, <1>5

(***************************************************************************)
(* Unsigned arithmetic.                                                    *)
(***************************************************************************)
LEMMA Unsigned ==
  ASSUME NEW x \in Nat
  PROVE  /\ x % UInt32 \in UInts
         /\ x < UInt32 => x % UInt32 = x
         /\ x = UInt32 => x % UInt32 = 0
  BY DEF UInts

(***************************************************************************)
(* The casts of BgBufferSync give the true difference of two counters that *)
(* are less than 2^31 apart.                                               *)
(***************************************************************************)
LEMMA TrueDifference ==
  ASSUME NEW a \in UInts, NEW b \in UInts,
         2 * (a - b) < UInt32, 2 * (b - a) < UInt32
  PROVE  SignedDiff(a, b) = a - b
<1>1. a - b \in Int /\ a - b < UInt32 /\ b - a < UInt32
  BY DEF UInts
<1>2. CASE a >= b
  <2>1. a - b \in Nat
    BY <1>2 DEF UInts
  <2>2. (a - b) % UInt32 = a - b
    BY <1>1, <2>1, Unsigned
  <2> QED BY <2>2 DEF SignedDiff, UInts
<1>3. CASE a < b
  <2>1. PICK y \in Nat : y = a - b + UInt32 /\ y < UInt32
    BY <1>1, <1>3 DEF UInts
  <2>2. (y - UInt32) % UInt32 = y
    BY <2>1
  <2>3. a - b = y - UInt32
    BY <1>1, <2>1 DEF UInts
  <2> QED BY <1>1, <1>3, <2>1, <2>2, <2>3 DEF SignedDiff, UInts
<1> QED BY <1>2, <1>3 DEF UInts

\* Counters that are equal, or one apart even across an overflow.
LEMMA StepDifference ==
  ASSUME NEW a \in UInts
  PROVE  SignedDiff(a, a) = 0 /\ SignedDiff((a + 1) % UInt32, a) = 1
<1>1. a \in Nat /\ a < UInt32
  BY DEF UInts
<1>2. SignedDiff(a, a) = 0
  BY <1>1, TrueDifference
<1>3. CASE a + 1 < UInt32
  <2>1. (a + 1) % UInt32 = a + 1 /\ a + 1 \in UInts
    BY <1>1, <1>3, Unsigned DEF UInts
  <2>2. SignedDiff(a + 1, a) = (a + 1) - a
    BY <1>1, <2>1, TrueDifference
  <2> QED BY <1>1, <1>2, <2>1, <2>2
<1>4. CASE a + 1 = UInt32
  <2>1. (a + 1) % UInt32 = 0
    BY <1>1, <1>4, Unsigned
  <2>2. 0 - a = 1 - UInt32
    BY <1>1, <1>4
  <2>3. (1 - UInt32) % UInt32 = 1
    OBVIOUS
  <2>4. SignedDiff(0, a) = 1
    BY <2>2, <2>3 DEF SignedDiff
  <2> QED BY <1>2, <2>1, <2>4
<1> QED BY <1>1, <1>3, <1>4

-----------------------------------------------------------------------------
(* Types                                                                   *)

\* The difference that BgBufferSync reads as signed is an integer.
LEMMA DifferenceType ==
  ASSUME NEW a \in UInts, NEW b \in UInts PROVE SignedDiff(a, b) \in Int
<1>1. a - b \in Int
  BY DEF UInts
<1>2. (a - b) % UInt32 \in Int
  BY <1>1
<1> QED BY <1>2 DEF SignedDiff

\* What StrategySyncStart returns and BgBufferSync computes from it.
LEMMA StrategyPointType ==
  ASSUME TypeOK
  PROVE  /\ StrategyBuf \in Buf /\ StrategyPasses \in UInts
         /\ BufsToLap \in Int
<1>1. /\ nextVictimBuffer \in Nat /\ completePasses \in Nat
      /\ bgw_sync_seq + 1 \in Nat
      /\ saved.next_to_clean \in Nat
  BY DEF TypeOK, HandTypeOK, UInts, Buf
<1>2. (bgw_sync_seq + 1) % UInt32 \in UInts
  BY <1>1, Unsigned
<1>3. StrategyBuf \in Buf
  <2>1. nextVictimBuffer % NBuffers \in Buf
    BY <1>1, LapsAndPlace
  <2>2. (bgw_sync_seq + 1) % UInt32 \in Nat
    BY <1>2 DEF UInts
  <2>3. ((bgw_sync_seq + 1) % UInt32) % NBuffers \in Buf
    BY <2>2, LapsAndPlace
  <2> QED BY <2>1, <2>3 DEF StrategyBuf, Victim
<1>4. ASSUME NEW x \in UInts PROVE x \div NBuffers \in UInts
  <2>1. /\ x \in Nat /\ x < UInt32 /\ x \div NBuffers \in Nat /\ x % NBuffers \in Nat
        /\ x = (x \div NBuffers) * NBuffers + (x % NBuffers)
    BY LapsAndPlace DEF UInts, Buf
  <2>2. PICK q \in Nat : q = x \div NBuffers
    BY <2>1
  <2>3. q <= q * NBuffers /\ q * NBuffers \in Nat
    OBVIOUS
  <2> QED BY <2>1, <2>2, <2>3 DEF UInts
<1>5. StrategyPasses \in UInts
  <2>1. nextVictimBuffer \div NBuffers \in Nat
    BY <1>1, LapsAndPlace
  <2>2. (completePasses + nextVictimBuffer \div NBuffers) % UInt32 \in UInts
    BY <1>1, <2>1, Unsigned
  <2> QED BY <1>2, <1>4, <2>2 DEF StrategyPasses
<1>6. BufsToLap \in Int
  BY <1>1, <1>3 DEF BufsToLap, Buf
<1> QED BY <1>3, <1>5, <1>6

\* ClockSweepTick keeps the types of the hand.
LEMMA HandTypes ==
  ASSUME TypeOK, NEW p \in Backends, FetchAdd(p) \/ WrapHand(p)
  PROVE  HandTypeOK(Backends)'
<1>1. /\ nextVictimBuffer \in Nat /\ completePasses \in Nat
      /\ nextVictimBuffer \in UInts /\ completePasses \in UInts
      /\ expected \in [Backends -> UInts \cup {Nothing}]
  BY DEF TypeOK, HandTypeOK, UInts
<1>2. /\ (nextVictimBuffer + 1) % UInt32 \in UInts
      /\ (completePasses + 1) % UInt32 \in UInts
  BY <1>1, Unsigned
<1>3. nextVictimBuffer % NBuffers \in UInts
  BY <1>1, LapsAndPlace DEF UInts, Buf
<1>4. CASE FetchAdd(p)
  BY <1>1, <1>2, <1>4 DEF FetchAdd, HandTypeOK
<1>5. CASE WrapHand(p)
  BY <1>1, <1>2, <1>3, <1>5 DEF WrapHand, HandTypeOK
<1> QED BY <1>4, <1>5

\* The types hold at the start.
LEMMA SyncTypeInit == Init => TypeOK
<1> SUFFICES ASSUME Init PROVE TypeOK
  OBVIOUS
<1>1. /\ 0 \in Buf /\ 0 \in UInts /\ 0 \in Int
      /\ 0 \in 0 .. MaxAllocs /\ 0 \in 0 .. MaxTicks /\ 0 \in 0 .. MaxCalls
  BY DEF Buf, UInts
<1>2. HandTypeOK(Backends)
  BY <1>1 DEF Init, ClockSweepInitialize, HandTypeOK
<1>3. saved \in [valid : BOOLEAN, buf_id : Buf, passes : UInts,
                 next_to_clean : Buf, next_passes : UInts]
  BY <1>1 DEF Init
<1> QED BY <1>1, <1>2, <1>3, Zenon DEF Init, TypeOK

\* StrategySyncStart keeps its counters within their types.
LEMMA SyncStartTypes ==
  ASSUME TypeOK, SyncStart, UNCHANGED usesClock
  PROVE  /\ usesClock' \in BOOLEAN /\ HandTypeOK(Backends)'
         /\ numBufferAllocs' \in 0 .. MaxAllocs /\ recent_alloc' \in 0 .. MaxAllocs
         /\ bgw_sync_seq' \in UInts /\ sweeping' \in SUBSET Backends
         /\ ticks' \in 0 .. MaxTicks /\ calls' \in 0 .. MaxCalls
         /\ lagged' \in BOOLEAN /\ quiet' \in BOOLEAN
<1>1. bgw_sync_seq \in Nat
  BY DEF TypeOK, UInts
<1>2. (bgw_sync_seq + 1) % UInt32 \in UInts
  BY <1>1, Unsigned
<1>3. HandTypeOK(Backends)'
  BY DEF TypeOK, HandTypeOK, SyncStart, handVars
<1> QED BY <1>2, <1>3 DEF TypeOK, SyncStart, handVars

\* Every step keeps the types.
LEMMA SyncTypeStep == TypeOK /\ [Next]_vars => TypeOK'
<1> SUFFICES ASSUME TypeOK, [Next]_vars PROVE TypeOK'
  OBVIOUS
<1>1. CASE UNCHANGED vars
  BY <1>1 DEF vars, callVars, handVars, TypeOK, HandTypeOK
<1> SUFFICES ASSUME Next PROVE TypeOK'
  BY <1>1
<1>2. usesClock' = usesClock
  BY DEF Next
<1>3. CASE BgBufferSync
  <2>1. SyncStart
    BY <1>3 DEF BgBufferSync
  <2>2. /\ StrategyBuf \in Buf /\ StrategyPasses \in UInts /\ BufsToLap \in Int
    BY StrategyPointType
  <2>3. saved' \in [valid : BOOLEAN, buf_id : Buf, passes : UInts,
                    next_to_clean : Buf, next_passes : UInts]
    BY <1>3, <2>2 DEF BgBufferSync, TypeOK
  <2>4. strategy_delta' \in Int
    <3>1. SignedDiff(StrategyPasses, saved.passes) \in Int
      BY <2>2, DifferenceType DEF TypeOK
    <3>2. StrategyBuf - saved.buf_id \in Int
      BY <2>2 DEF TypeOK, Buf
    <3>3. ASSUME NEW d \in Int, NEW e \in Int PROVE d + e * NBuffers \in Int
      OBVIOUS
    <3> QED BY <1>3, <3>1, <3>2, <3>3 DEF BgBufferSync
  <2>5. idleCall' \in BOOLEAN /\ bgpc' = "scan" /\ can_hibernate' = can_hibernate
        /\ bufs_to_lap' \in Int /\ num_to_scan' \in Int
    BY <1>3, <2>2 DEF BgBufferSync
  <2> QED BY <1>2, <2>1, <2>3, <2>4, <2>5, SyncStartTypes DEF TypeOK
<1>4. CASE BgBufferSyncDisabled
  <2>1. SyncStart
    BY <1>4 DEF BgBufferSyncDisabled
  <2> QED BY <1>2, <1>4, <2>1, SyncStartTypes DEF TypeOK, BgBufferSyncDisabled
<1>5. CASE CleanOne
  <2>1. HandTypeOK(Backends)'
    BY <1>5 DEF CleanOne, TypeOK, HandTypeOK, handVars
  <2>2. /\ saved.next_to_clean \in Nat /\ saved.next_to_clean < NBuffers
        /\ saved.next_passes \in Nat
    BY DEF TypeOK, Buf, UInts
  <2>3. 0 \in Buf /\ (saved.next_passes + 1) % UInt32 \in UInts
    BY <2>2, Unsigned DEF Buf
  <2>4. ~(saved.next_to_clean + 1 >= NBuffers) => saved.next_to_clean + 1 \in Buf
    BY <2>2 DEF Buf
  <2>5. saved' \in [valid : BOOLEAN, buf_id : Buf, passes : UInts,
                    next_to_clean : Buf, next_passes : UInts]
    BY <1>5, <2>3, <2>4 DEF CleanOne, TypeOK
  <2> QED BY <1>2, <1>5, <2>1, <2>5 DEF CleanOne, TypeOK
<1>6. CASE FinishSync
  <2>1. HandTypeOK(Backends)'
    BY <1>6 DEF FinishSync, TypeOK, HandTypeOK, handVars
  <2> QED BY <1>2, <1>6, <2>1 DEF FinishSync, TypeOK
<1>7. ASSUME NEW p \in Backends, CountAlloc(p) \/ Leave(p) PROVE TypeOK'
  <2>1. HandTypeOK(Backends)'
    BY <1>7 DEF CountAlloc, Leave, TypeOK, HandTypeOK, handVars
  <2>2. numBufferAllocs' \in 0 .. MaxAllocs /\ sweeping' \in SUBSET Backends
    BY <1>7 DEF CountAlloc, Leave, TypeOK
  <2> QED BY <1>2, <1>7, <2>1, <2>2, Zenon DEF CountAlloc, Leave, callVars, TypeOK
<1>8. ASSUME NEW p \in Backends, Tick(p) PROVE TypeOK'
  <2>1. HandTypeOK(Backends)'
    BY <1>8, HandTypes DEF Tick
  <2>2. ticks' \in 0 .. MaxTicks
    BY <1>8 DEF Tick, TypeOK
  <2> QED BY <1>2, <1>8, <2>1, <2>2, Zenon DEF Tick, callVars, TypeOK
<1>9. ASSUME NEW p \in Backends, Wrap(p) PROVE TypeOK'
  <2>1. HandTypeOK(Backends)'
    BY <1>9, HandTypes DEF Wrap
  <2>2. lagged' \in BOOLEAN
    BY <1>9, Zenon DEF Wrap
  <2> QED BY <1>2, <1>9, <2>1, <2>2 DEF Wrap, callVars, TypeOK
<1> QED BY <1>3, <1>4, <1>5, <1>6, <1>7, <1>8, <1>9 DEF Next

-----------------------------------------------------------------------------
(* Hibernation                                                             *)

(***************************************************************************)
(* num_to_scan is what is left of the lap: BgBufferSync's three cases set  *)
(* it so, and each round of the scan steps it together with next_to_clean  *)
(* and next_passes.                                                        *)
(***************************************************************************)
LapInv ==
  saved.valid =>
    \/ /\ SignedDiff(saved.next_passes, saved.passes) > 0
       /\ num_to_scan = saved.buf_id - saved.next_to_clean
    \/ /\ saved.next_passes = saved.passes
       /\ saved.next_to_clean >= saved.buf_id
       /\ num_to_scan = NBuffers - (saved.next_to_clean - saved.buf_id)

(***************************************************************************)
(* While nothing moves the hand, StrategySyncStart would return again what *)
(* the last call saved.                                                    *)
(***************************************************************************)
QuietInv ==
  usesClock /\ quiet /\ saved.valid
    => saved.buf_id = StrategyBuf /\ saved.passes = StrategyPasses

SyncInv == TypeOK /\ LapInv /\ QuietInv /\ HibernatesWhenIdle

\* Without a saved position nothing is claimed of it.
LEMMA SyncInit == Init => SyncInv
<1>1. Init => ~saved.valid /\ bgpc = "idle"
  BY DEF Init
<1> QED BY <1>1, SyncTypeInit DEF SyncInv, LapInv, QuietInv, HibernatesWhenIdle

\* For the clock sweep the strategy point is read from the hand alone.
LEMMA StrategyPointFrame ==
  ASSUME usesClock, UNCHANGED <<usesClock, handVars>>
  PROVE  UNCHANGED <<StrategyBuf, StrategyPasses>>
  BY DEF StrategyBuf, StrategyPasses, Victim, handVars

(***************************************************************************)
(* BgBufferSync starts a scan of what is left of the lap; if nothing moved *)
(* since a call that ended with the whole lap done, that is nothing.       *)
(***************************************************************************)
LEMMA BgBufferSyncLap ==
  ASSUME SyncInv, BgBufferSync, UNCHANGED usesClock
  PROVE  LapInv' /\ QuietInv' /\ HibernatesWhenIdle'
<1>1. /\ StrategyBuf \in Buf /\ StrategyPasses \in UInts /\ saved.next_to_clean \in Buf
      /\ saved.passes \in UInts /\ saved.next_passes \in UInts /\ saved.buf_id \in Buf
  BY StrategyPointType DEF SyncInv, TypeOK
<1>2. PICK sb, sp : sb = StrategyBuf /\ sp = StrategyPasses
  OBVIOUS
<1>3. /\ saved'.valid /\ saved'.buf_id = sb /\ saved'.passes = sp
      /\ saved'.next_to_clean = IF Keeps THEN saved.next_to_clean ELSE sb
      /\ saved'.next_passes = IF Keeps THEN saved.next_passes ELSE sp
      /\ num_to_scan' = BufsToLap /\ bufs_to_lap' = BufsToLap
      /\ idleCall' = (saved.valid /\ num_to_scan = 0 /\ quiet)
      /\ bgpc' = "scan"
  BY <1>2 DEF BgBufferSync
<1>4. LapInv'
  <2>1. CASE ~Keeps
    <3>1. num_to_scan' = NBuffers - (sb - sb)
      BY <1>1, <1>2, <1>3, <2>1 DEF BufsToLap, Buf
    <3>2. sb >= sb
      BY <1>1, <1>2 DEF Buf
    <3> QED BY <1>3, <2>1, <3>1, <3>2 DEF LapInv
  <2>2. CASE Keeps /\ Ahead
    <3>1. SignedDiff(saved.next_passes, sp) > 0
      BY <1>2, <2>2 DEF Ahead
    <3>2. num_to_scan' = sb - saved.next_to_clean
      BY <1>2, <1>3, <2>2 DEF BufsToLap
    <3> QED BY <1>3, <2>2, <3>1, <3>2 DEF LapInv
  <2>3. CASE Keeps /\ ~Ahead
    <3>1. saved.next_passes = sp /\ saved.next_to_clean >= sb
      BY <1>2, <2>3 DEF Keeps, SamePass
    <3>2. num_to_scan' = NBuffers - (saved.next_to_clean - sb)
      BY <1>2, <1>3, <2>3 DEF BufsToLap
    <3> QED BY <1>3, <2>3, <3>1, <3>2 DEF LapInv
  <2> QED BY <2>1, <2>2, <2>3
<1>5. QuietInv'
  <2>1. usesClock => StrategyBuf' = sb /\ StrategyPasses' = sp
    BY <1>2, StrategyPointFrame DEF BgBufferSync, SyncStart
  <2> QED BY <1>3, <2>1 DEF QuietInv
<1>6. HibernatesWhenIdle'
  <2> SUFFICES ASSUME usesClock, saved.valid, num_to_scan = 0, quiet
               PROVE  BufsToLap = 0
    BY <1>3 DEF HibernatesWhenIdle
  <2>1. saved.buf_id = StrategyBuf /\ saved.passes = StrategyPasses
    BY DEF SyncInv, QuietInv
  <2>2. NBuffers - (saved.next_to_clean - saved.buf_id) # 0
    BY <1>1 DEF Buf
  <2>3. /\ SignedDiff(saved.next_passes, saved.passes) > 0
        /\ 0 = saved.buf_id - saved.next_to_clean
    BY <2>2 DEF SyncInv, LapInv
  <2>4. Ahead
    BY <2>1, <2>3 DEF Ahead
  <2> QED BY <2>1, <2>3, <2>4 DEF BufsToLap, Keeps
<1> QED BY <1>4, <1>5, <1>6

(***************************************************************************)
(* One round of the scan: next_to_clean, and at its wrap next_passes, step *)
(* with num_to_scan.                                                       *)
(***************************************************************************)
LEMMA CleanOneLap ==
  ASSUME SyncInv, CleanOne, UNCHANGED usesClock
  PROVE  LapInv' /\ QuietInv' /\ HibernatesWhenIdle'
<1>1. /\ saved.next_to_clean \in Buf /\ saved.buf_id \in Buf
      /\ saved.passes \in UInts /\ saved.next_passes \in UInts
      /\ num_to_scan \in Int
  BY DEF SyncInv, TypeOK
<1>2. /\ saved'.valid = saved.valid /\ saved'.buf_id = saved.buf_id
      /\ saved'.passes = saved.passes
      /\ num_to_scan' = num_to_scan - 1 /\ num_to_scan > 0
  BY DEF CleanOne, SyncInv, TypeOK
<1>3. ASSUME saved.valid PROVE LapInv'
  <2>1. CASE saved.next_to_clean + 1 >= NBuffers
    <3>1. /\ saved'.next_to_clean = 0
          /\ saved'.next_passes = (saved.next_passes + 1) % UInt32
      BY <2>1 DEF CleanOne, SyncInv, TypeOK
    <3>2. /\ saved.next_passes = saved.passes
          /\ num_to_scan = NBuffers - (saved.next_to_clean - saved.buf_id)
      BY <1>1, <1>2, <1>3, <2>1 DEF SyncInv, LapInv, Buf
    <3>3. SignedDiff((saved.passes + 1) % UInt32, saved.passes) > 0
      BY <1>1, StepDifference
    <3>4. num_to_scan' = saved.buf_id - 0
      BY <1>1, <1>2, <2>1, <3>2 DEF Buf
    <3> QED BY <1>2, <3>1, <3>2, <3>3, <3>4 DEF LapInv
  <2>2. CASE ~(saved.next_to_clean + 1 >= NBuffers)
    <3>1. /\ saved'.next_to_clean = saved.next_to_clean + 1
          /\ saved'.next_passes = saved.next_passes
      BY <2>2 DEF CleanOne, SyncInv, TypeOK
    <3> QED BY <1>1, <1>2, <1>3, <3>1 DEF SyncInv, LapInv, Buf
  <2> QED BY <2>1, <2>2
<1>4. QuietInv'
  BY <1>2, StrategyPointFrame DEF CleanOne, SyncInv, QuietInv
<1>5. HibernatesWhenIdle'
  BY DEF CleanOne, SyncInv, HibernatesWhenIdle
<1> QED BY <1>2, <1>3, <1>4, <1>5 DEF LapInv

\* Every step keeps the place of the background writer within its lap.
LEMMA SyncStep == SyncInv /\ [Next]_vars => SyncInv'
<1> SUFFICES ASSUME SyncInv, [Next]_vars PROVE SyncInv'
  OBVIOUS
<1>1. TypeOK'
  BY SyncTypeStep DEF SyncInv
<1>2. usesClock' = usesClock
  BY DEF Next, vars
<1>3. CASE BgBufferSync
  BY <1>1, <1>2, <1>3, BgBufferSyncLap DEF SyncInv
<1>4. CASE CleanOne
  BY <1>1, <1>2, <1>4, CleanOneLap DEF SyncInv
<1>5. CASE BgBufferSyncDisabled
  <2>1. ~saved'.valid /\ bgpc' = "idle"
    BY <1>5 DEF BgBufferSyncDisabled, SyncInv, TypeOK
  <2> QED BY <1>1, <2>1 DEF SyncInv, LapInv, QuietInv, HibernatesWhenIdle
<1>6. ASSUME UNCHANGED <<saved, num_to_scan>> PROVE LapInv'
  BY <1>6 DEF SyncInv, LapInv
<1>7. ASSUME UNCHANGED <<usesClock, handVars, quiet, saved>> PROVE QuietInv'
  BY <1>7, StrategyPointFrame DEF SyncInv, QuietInv
<1>8. CASE FinishSync
  BY <1>1, <1>2, <1>6, <1>7, <1>8 DEF FinishSync, SyncInv, HibernatesWhenIdle
<1>9. ASSUME NEW p \in Backends, CountAlloc(p) \/ Tick(p) \/ Wrap(p)
      PROVE  SyncInv'
  <2>1. ~quiet' /\ UNCHANGED callVars
    BY <1>9 DEF CountAlloc, Tick, Wrap
  <2> QED BY <1>1, <1>2, <1>6, <2>1 DEF callVars, SyncInv, QuietInv, HibernatesWhenIdle
<1>10. ASSUME NEW p \in Backends, Leave(p) PROVE SyncInv'
  BY <1>1, <1>2, <1>6, <1>7, <1>10 DEF Leave, callVars, SyncInv, HibernatesWhenIdle
<1>11. CASE UNCHANGED vars
  BY <1>1, <1>6, <1>7, <1>11 DEF vars, callVars, SyncInv, HibernatesWhenIdle
<1> QED
  BY <1>3, <1>4, <1>5, <1>8, <1>9, <1>10, <1>11 DEF Next

(***************************************************************************)
(* The place of BgBufferSync within its lap, and what it may conclude of a *)
(* quiet pool, hold throughout.                                            *)
(***************************************************************************)
LEMMA SyncInvariant == Spec => []SyncInv
  BY SyncInit, SyncStep, PTL DEF Spec

(***************************************************************************)
(* The hand, the counters of StrategySyncStart and the static variables of *)
(* BgBufferSync keep their types, overflows included.                      *)
(***************************************************************************)
THEOREM BgSyncTypeCorrect == Spec => []TypeOK
<1>1. SyncInv => TypeOK
  BY DEF SyncInv
<1> QED BY <1>1, SyncInvariant, PTL

(***************************************************************************)
(* With the clock sweep BgBufferSync finds nothing left before the lap,    *)
(* and so lets the background writer hibernate, whenever the last call     *)
(* finished the lap and nothing was allocated since; whatever overflowed   *)
(* and however the hand lagged before.                                     *)
(***************************************************************************)
THEOREM QuietPoolHibernates == Spec => []HibernatesWhenIdle
<1>1. SyncInv => HibernatesWhenIdle
  BY DEF SyncInv
<1> QED BY <1>1, SyncInvariant, PTL

-----------------------------------------------------------------------------
(* The hand                                                                *)

\* The backends that have yet to bring the hand back and count a pass.
Debtors == {p \in Backends : Owes(p)}

\* The hand is at the end of a lap; the next tick makes a debtor.
AtEnd == nextVictimBuffer >= NBuffers /\ Victim = 0

Owed == Cardinality(Debtors) + (IF AtEnd THEN 1 ELSE 0)

(***************************************************************************)
(* A pass is recorded by a debtor, whether or not its own try brought the  *)
(* hand back, so passes recorded and passes owed must be bounded together, *)
(* and the hand must not be further than the debtors can account for.      *)
(* Without a lag nothing is lost.                                          *)
(***************************************************************************)
HandInv ==
  /\ IsFiniteSet(Debtors)
  /\ (completePasses + Owed) * NBuffers + Victim <= ticks
  /\ nextVictimBuffer \div NBuffers <= Owed
  /\ Victim = ticks % NBuffers
  /\ ~lagged => completePasses * NBuffers + nextVictimBuffer = ticks

\* The number of debtors is a number.
LEMMA DebtType ==
  ASSUME IsFiniteSet(Debtors)
  PROVE  Cardinality(Debtors) \in Nat /\ Owed \in Nat
  BY FS_CardinalityType DEF Owed

\* Products of naturals, which the laps are.
LEMMA MoreLaps ==
  ASSUME NEW a \in Nat, NEW b \in Nat, a <= b
  PROVE  a * NBuffers \in Nat /\ a * NBuffers <= b * NBuffers /\ a <= a * NBuffers
<1>1. PICK d \in Nat : b = a + d
  OBVIOUS
<1>2. b * NBuffers = a * NBuffers + d * NBuffers /\ d * NBuffers \in Nat
  BY <1>1
<1>3. PICK e \in Nat : NBuffers = e + 1
  <2>1. NBuffers - 1 \in Nat /\ NBuffers = (NBuffers - 1) + 1
    OBVIOUS
  <2> QED BY <2>1
<1>4. a * NBuffers = a * e + a /\ a * e \in Nat
  BY <1>3
<1> QED BY <1>2, <1>4

(***************************************************************************)
(* Nobody is ahead of the ticks: what HandNeverAhead says follows, and the *)
(* counters are no larger than the number of ticks.                        *)
(***************************************************************************)
LEMMA HandBounds ==
  ASSUME TypeOK, HandInv
  PROVE  /\ HandNeverAhead
         /\ nextVictimBuffer <= ticks
         /\ completePasses + Owed <= ticks
<1>1. /\ nextVictimBuffer \in Nat /\ completePasses \in Nat /\ ticks \in Nat
      /\ Owed \in Nat
  BY DebtType DEF TypeOK, HandTypeOK, UInts, HandInv
<1>2. PICK k \in Nat : k = nextVictimBuffer \div NBuffers
  BY <1>1, LapsAndPlace
<1>3. PICK r \in Buf : r = nextVictimBuffer % NBuffers
  BY <1>1, LapsAndPlace
<1>4. nextVictimBuffer = k * NBuffers + r /\ r \in Nat
  BY <1>1, <1>2, <1>3, LapsAndPlace DEF Buf
<1>5. /\ (completePasses + Owed) * NBuffers + r <= ticks
      /\ k <= Owed
  BY <1>2, <1>3 DEF HandInv, Victim
<1>6. /\ (completePasses + Owed) * NBuffers = completePasses * NBuffers + Owed * NBuffers
      /\ completePasses * NBuffers \in Nat
  BY <1>1
<1>7. k * NBuffers <= Owed * NBuffers /\ k * NBuffers \in Nat /\ Owed * NBuffers \in Nat
  BY <1>1, <1>2, <1>5, MoreLaps
<1>8. completePasses + Owed <= (completePasses + Owed) * NBuffers
  BY <1>1, MoreLaps
<1>9. completePasses * NBuffers + nextVictimBuffer <= ticks
  BY <1>1, <1>4, <1>5, <1>6, <1>7
<1>10. nextVictimBuffer <= ticks
  BY <1>1, <1>6, <1>9
<1>11. completePasses + Owed <= ticks
  BY <1>1, <1>4, <1>5, <1>6, <1>7, <1>8
<1>12. nextVictimBuffer % NBuffers = ticks % NBuffers
  BY DEF HandInv, Victim
<1> QED BY <1>9, <1>10, <1>11, <1>12 DEF HandNeverAhead

\* At the start nothing moved and nobody owes.
LEMMA HandInit == Init => HandInv
<1> SUFFICES ASSUME Init PROVE HandInv
  OBVIOUS
<1>1. /\ nextVictimBuffer = 0 /\ completePasses = 0 /\ ticks = 0 /\ ~lagged
      /\ \A p \in Backends : expected[p] = Nothing
  BY DEF Init, ClockSweepInitialize
<1>2. Debtors = {}
  BY <1>1 DEF Debtors, Owes
<1>3. IsFiniteSet(Debtors) /\ Cardinality(Debtors) = 0
  BY <1>2, FS_EmptySet
<1>4. 0 % NBuffers = 0 /\ 0 \div NBuffers = 0
  OBVIOUS
<1>5. Owed = 0
  BY <1>1, <1>3 DEF Owed, AtEnd
<1> QED BY <1>1, <1>3, <1>4, <1>5 DEF HandInv, Victim

(***************************************************************************)
(* The fetch-and-add moves the hand by one.  At the end of a lap its       *)
(* backend becomes a debtor, for a lap that the hand already shows.        *)
(***************************************************************************)
LEMMA TickHand ==
  ASSUME MaxTicks < UInt32, TypeOK, HandInv, NEW p \in Backends, Tick(p)
  PROVE  HandInv'
<1> DEFINE n == nextVictimBuffer
           k == n \div NBuffers
           r == n % NBuffers
<1>1. /\ n \in Nat /\ completePasses \in Nat /\ ticks \in Nat
      /\ IsFiniteSet(Debtors) /\ Cardinality(Debtors) \in Nat
      /\ expected \in [Backends -> UInts \cup {Nothing}]
  BY DebtType DEF TypeOK, HandTypeOK, UInts, HandInv
<1>2. /\ k \in Nat /\ r \in Nat /\ r < NBuffers /\ n = k * NBuffers + r
  BY <1>1, LapsAndPlace DEF Buf
<1>3. n + 1 < UInt32 /\ n + 1 \in Nat
  BY <1>1, HandBounds DEF Tick, TypeOK
<1>4. nextVictimBuffer' = n + 1
  BY <1>1, <1>3, Unsigned DEF Tick, FetchAdd
<1>5. /\ ticks' = ticks + 1 /\ completePasses' = completePasses /\ lagged' = lagged
      /\ expected' = [expected EXCEPT ![p] =
           IF n >= NBuffers /\ r = 0 THEN n + 1 ELSE Nothing]
  BY <1>1, <1>3, <1>4 DEF Tick, FetchAdd, Victim
<1>6. p \notin Debtors
  BY DEF Tick, Debtors
<1>7. n + 1 # Nothing
  BY <1>1, <1>3 DEF Nothing
<1>8. /\ (completePasses + Owed) * NBuffers + r <= ticks
      /\ k <= Owed
      /\ r = ticks % NBuffers
  BY DEF HandInv, Victim
<1>9. AtEnd <=> n >= NBuffers /\ r = 0
  BY DEF AtEnd, Victim
<1>10. AtEnd' <=> n + 1 >= NBuffers /\ (n + 1) % NBuffers = 0
  BY <1>4 DEF AtEnd, Victim
<1>11. ~lagged' => completePasses' * NBuffers + nextVictimBuffer' = ticks'
  <2>1. completePasses * NBuffers \in Nat
    BY <1>1
  <2> QED BY <1>1, <1>4, <1>5, <2>1 DEF HandInv
<1>12. \/ r + 1 < NBuffers /\ (n + 1) % NBuffers = r + 1 /\ (n + 1) \div NBuffers = k
       \/ r + 1 = NBuffers /\ (n + 1) % NBuffers = 0 /\ (n + 1) \div NBuffers = k + 1
  BY <1>1, NextPlace
<1>13. \/ r + 1 < NBuffers /\ (ticks + 1) % NBuffers = r + 1
       \/ r + 1 = NBuffers /\ (ticks + 1) % NBuffers = 0
  BY <1>1, <1>8, NextPlace
<1> HIDE DEF n, k, r
<1>14. (n + 1) % NBuffers = (ticks + 1) % NBuffers
  BY <1>2, <1>12, <1>13
<1>15. CASE AtEnd
  \* The lap that AtEnd stands for becomes the debt of p.
  <2>1. r = 0 /\ n >= NBuffers
    BY <1>9, <1>15
  <2>2. expected' = [expected EXCEPT ![p] = n + 1]
    BY <1>5, <2>1
  <2>3. Debtors' = Debtors \cup {p}
    BY <1>1, <1>7, <2>2 DEF Debtors, Owes
  <2>4. IsFiniteSet(Debtors') /\ Cardinality(Debtors') = Cardinality(Debtors) + 1
    BY <1>1, <1>6, <2>3, FS_AddElement
  <2>5. Owed = Cardinality(Debtors) + 1
    BY <1>15 DEF Owed
  <2>6. CASE NBuffers > 1
    <3>2. (n + 1) % NBuffers = 1 /\ (n + 1) \div NBuffers = k
      BY <1>12, <2>1, <2>6
    <3>3. ~AtEnd'
      BY <1>10, <3>2
    <3>4. Owed' = Owed
      BY <1>1, <2>4, <2>5, <3>3 DEF Owed
    <3>5. (completePasses' + Owed') * NBuffers + Victim' <= ticks'
      <4>1. (completePasses + Owed) * NBuffers \in Nat
        BY <1>1, <2>5
      <4> QED BY <1>1, <1>4, <1>5, <1>8, <2>1, <3>2, <3>4, <4>1 DEF Victim
    <3> QED BY <1>4, <1>5, <1>8, <1>11, <1>14, <2>4, <3>2, <3>4, <3>5 DEF HandInv, Victim
  <2>7. CASE NBuffers = 1
    <3>2. (n + 1) % NBuffers = 0 /\ (n + 1) \div NBuffers = k + 1
      BY <1>12, <2>1, <2>7
    <3>3. AtEnd'
      BY <1>1, <1>10, <2>7, <3>2
    <3>4. Owed' = Owed + 1
      BY <1>1, <2>4, <2>5, <3>3 DEF Owed
    <3>5. (completePasses' + Owed') * NBuffers + Victim' <= ticks'
      BY <1>1, <1>4, <1>5, <1>8, <2>1, <2>5, <2>7, <3>2, <3>4 DEF Victim
    <3>6. k + 1 <= Owed'
      BY <1>1, <1>2, <1>8, <2>5, <3>4
    <3> QED BY <1>4, <1>5, <1>11, <1>14, <2>4, <3>2, <3>5, <3>6 DEF HandInv, Victim
  <2> QED BY <2>6, <2>7
<1>16. CASE ~AtEnd
  <2>1. expected' = [expected EXCEPT ![p] = Nothing]
    BY <1>5, <1>9, <1>16
  <2>2. Debtors' = Debtors
    BY <1>1, <1>6, <2>1 DEF Debtors, Owes
  <2>3. Owed = Cardinality(Debtors) /\ Owed \in Nat
    BY <1>1, <1>16 DEF Owed
  <2>4. (completePasses + Owed) * NBuffers \in Nat
    BY <1>1, <2>3
  <2>5. CASE r + 1 < NBuffers
    <3>2. (n + 1) % NBuffers = r + 1 /\ (n + 1) \div NBuffers = k
      BY <1>2, <1>12, <2>5
    <3>3. ~AtEnd'
      BY <1>2, <1>10, <3>2
    <3>4. Owed' = Owed
      BY <1>1, <2>2, <2>3, <3>3 DEF Owed
    <3>5. (completePasses' + Owed') * NBuffers + Victim' <= ticks'
      BY <1>1, <1>2, <1>4, <1>5, <1>8, <2>4, <3>2, <3>4 DEF Victim
    <3> QED BY <1>1, <1>4, <1>5, <1>8, <1>11, <1>14, <2>2, <3>2, <3>4, <3>5 DEF HandInv, Victim
  <2>6. CASE r + 1 = NBuffers
    <3>2. (n + 1) % NBuffers = 0 /\ (n + 1) \div NBuffers = k + 1
      BY <1>2, <1>12, <2>6
    <3>3. n + 1 >= NBuffers
      <4>1. k * NBuffers \in Nat
        BY <1>2
      <4> QED BY <1>2, <2>6, <4>1
    <3>4. Owed' = Owed + 1
      BY <1>1, <1>10, <2>2, <2>3, <3>2, <3>3 DEF Owed
    <3>5. (completePasses + (Owed + 1)) * NBuffers = (completePasses + Owed) * NBuffers + NBuffers
      BY <1>1, <2>3
    <3>6. (completePasses' + Owed') * NBuffers + Victim' <= ticks'
      BY <1>1, <1>2, <1>4, <1>5, <1>8, <2>4, <2>6, <3>2, <3>4, <3>5 DEF Victim
    <3>7. k + 1 <= Owed'
      BY <1>2, <1>8, <2>3, <3>4
    <3> QED BY <1>1, <1>4, <1>5, <1>11, <1>14, <2>2, <3>2, <3>6, <3>7 DEF HandInv, Victim
  <2> QED BY <1>2, <2>5, <2>6
<1> QED BY <1>15, <1>16

(***************************************************************************)
(* A debtor's round under buffer_strategy_lock: a successful CAS turns its *)
(* debt into a recorded pass, and leaves the hand's place among the        *)
(* buffers.                                                                *)
(***************************************************************************)
LEMMA WrapKeepsHand ==
  ASSUME MaxTicks < UInt32, TypeOK, HandInv, NEW p \in Backends, Wrap(p)
  PROVE  HandInv'
<1> DEFINE n == nextVictimBuffer
           r == n % NBuffers
<1>1. /\ n \in Nat /\ completePasses \in Nat /\ ticks \in Nat
      /\ IsFiniteSet(Debtors) /\ Cardinality(Debtors) \in Nat /\ Owed \in Nat
      /\ expected \in [Backends -> UInts \cup {Nothing}]
      /\ n \in UInts
  BY DebtType DEF TypeOK, HandTypeOK, UInts, HandInv
<1>2. r \in Buf /\ r \in Nat /\ r < NBuffers
  BY <1>1, LapsAndPlace DEF Buf
<1>3. r % NBuffers = r /\ r \div NBuffers = 0
  BY <1>2
<1>4. /\ (completePasses + Owed) * NBuffers + r <= ticks
      /\ n \div NBuffers <= Owed
      /\ r = ticks % NBuffers
      /\ AtEnd <=> n >= NBuffers /\ r = 0
  BY DEF HandInv, Victim, AtEnd
<1>5. p \in Debtors /\ ticks' = ticks
  BY DEF Wrap, WrapHand, Debtors
<1>6. Cardinality(Debtors) >= 1
  BY <1>1, <1>5, FS_EmptySet
<1>7. completePasses + 1 < UInt32
  <2>1. completePasses + Owed <= ticks /\ ticks < UInt32
    BY HandBounds DEF TypeOK
  <2>2. Owed >= 1
    BY <1>1, <1>6 DEF Owed
  <2> QED BY <1>1, <2>1, <2>2
<1>8. CASE n = expected[p]
  <2>1. /\ nextVictimBuffer' = r
        /\ completePasses' = completePasses + 1
        /\ expected' = [expected EXCEPT ![p] = Nothing]
    BY <1>1, <1>7, <1>8, Unsigned DEF Wrap, WrapHand
  <2>2. Debtors' = Debtors \ {p}
    BY <1>1, <2>1 DEF Debtors, Owes
  <2>3. IsFiniteSet(Debtors') /\ Cardinality(Debtors') = Cardinality(Debtors) - 1
    BY <1>1, <1>5, <2>2, FS_RemoveElement
  <2>4. ~AtEnd'
    BY <1>2, <2>1 DEF AtEnd
  <2>5. Owed' = Cardinality(Debtors) - 1
    BY <1>1, <2>3, <2>4 DEF Owed
  <2>6. completePasses' + Owed' <= completePasses + Owed /\ completePasses' + Owed' \in Nat
    BY <1>1, <1>6, <2>1, <2>5 DEF Owed
  <2>7. (completePasses' + Owed') * NBuffers + r <= ticks
    <3>1. /\ (completePasses' + Owed') * NBuffers <= (completePasses + Owed) * NBuffers
          /\ (completePasses' + Owed') * NBuffers \in Nat
          /\ (completePasses + Owed) * NBuffers \in Nat
      BY <1>1, <2>6, MoreLaps
    <3> QED BY <1>1, <1>2, <1>4, <3>1
  <2>8. nextVictimBuffer' \div NBuffers <= Owed' /\ Victim' = r
    BY <1>1, <1>3, <1>6, <2>1, <2>5 DEF Victim
  <2>9. ~lagged' => completePasses' * NBuffers + nextVictimBuffer' = ticks
    <3>1. completePasses' \in Nat /\ Owed' \in Nat
      BY <1>1, <1>6, <2>1, <2>5
    <3>2. PICK c \in Nat, o \in Nat : c = completePasses' /\ o = Owed'
      BY <3>1
    <3>3. (c + o) * NBuffers = c * NBuffers + o * NBuffers /\ c * NBuffers \in Nat /\ o * NBuffers \in Nat
      OBVIOUS
    <3>4. c * NBuffers + r <= ticks
      BY <1>1, <1>2, <2>7, <3>2, <3>3
    <3>5. ~lagged' => ~(c * NBuffers + r < ticks)
      BY <2>1, <3>2 DEF Wrap
    <3>6. ~lagged' => c * NBuffers + r = ticks
      BY <1>1, <1>2, <3>3, <3>4, <3>5
    <3> QED BY <2>1, <3>2, <3>6
  <2> QED BY <1>4, <1>5, <2>3, <2>7, <2>8, <2>9 DEF HandInv
<1>9. CASE n # expected[p]
  <2>1. /\ nextVictimBuffer' = n /\ completePasses' = completePasses
        /\ expected' = [expected EXCEPT ![p] = n]
    BY <1>9 DEF Wrap, WrapHand
  <2>2. n # Nothing
    BY <1>1 DEF UInts, Nothing
  <2>3. Debtors' = Debtors
    BY <1>1, <1>5, <2>1, <2>2 DEF Debtors, Owes
  <2>4. AtEnd' = AtEnd /\ Victim' = Victim
    BY <2>1 DEF AtEnd, Victim
  <2>5. Owed' = Owed
    BY <2>3, <2>4 DEF Owed
  <2>6. lagged' => lagged \/ completePasses * NBuffers + n < ticks
    BY <1>5, <2>1 DEF Wrap
  <2>7. lagged => lagged'
    BY DEF Wrap
  <2> QED BY <1>5, <2>1, <2>3, <2>4, <2>5, <2>6, <2>7 DEF HandInv
<1> QED BY <1>8, <1>9

\* Nothing but ClockSweepTick moves the hand.
LEMMA HandFrame ==
  ASSUME HandInv, UNCHANGED <<handVars, ticks, lagged>> PROVE HandInv'
<1>1. Debtors' = Debtors /\ Victim' = Victim /\ AtEnd' = AtEnd
  BY DEF handVars, Debtors, Owes, Victim, AtEnd
<1>2. Owed' = Owed
  BY <1>1 DEF Owed
<1> QED BY <1>1, <1>2 DEF HandInv, handVars

\* Every step keeps the hand and the debts in step with the ticks.
LEMMA HandStep ==
  MaxTicks < UInt32 /\ TypeOK /\ HandInv /\ [Next]_vars => HandInv'
<1> SUFFICES ASSUME MaxTicks < UInt32, TypeOK, HandInv, [Next]_vars PROVE HandInv'
  OBVIOUS
<1>1. ASSUME BgBufferSync \/ BgBufferSyncDisabled \/ CleanOne \/ FinishSync
      PROVE  HandInv'
  BY <1>1, HandFrame DEF BgBufferSync, BgBufferSyncDisabled, SyncStart, CleanOne, FinishSync
<1>2. ASSUME NEW p \in Backends, CountAlloc(p) \/ Leave(p) PROVE HandInv'
  BY <1>2, HandFrame DEF CountAlloc, Leave
<1>3. CASE UNCHANGED vars
  BY <1>3, HandFrame DEF vars
<1> QED BY <1>1, <1>2, <1>3, TickHand, WrapKeepsHand DEF Next

(***************************************************************************)
(* As long as the hand's counter cannot overflow, hand, completePasses and *)
(* the debtors of a pass stay in step with the ticks.                      *)
(***************************************************************************)
LEMMA HandInvariant == MaxTicks < UInt32 => (Spec => []HandInv)
<1>1. CASE MaxTicks < UInt32
  <2>1. TypeOK /\ HandInv /\ [Next]_vars => HandInv'
    BY <1>1, HandStep
  <2> QED BY <2>1, HandInit, BgSyncTypeCorrect, PTL DEF Spec
<1> QED BY <1>1

(***************************************************************************)
(* Until the 32-bit hand itself could overflow, which takes 2^32 ticks, a  *)
(* reader of completePasses and nextVictimBuffer never counts a pass       *)
(* twice, and the hand points at the right buffer, however many debtors of *)
(* a pass are delayed in ClockSweepTick.                                   *)
(***************************************************************************)
THEOREM ClockHandNeverAhead == MaxTicks < UInt32 => (Spec => []HandNeverAhead)
<1>1. CASE MaxTicks < UInt32
  <2>1. TypeOK /\ HandInv => HandNeverAhead
    BY HandBounds
  <2> QED BY <1>1, <2>1, HandInvariant, BgSyncTypeCorrect, PTL
<1> QED BY <1>1

-----------------------------------------------------------------------------
(* The lap                                                                 *)

\* Fewer than 2^31 ticks and calls: the casts of BgBufferSync are exact.
CountersFit == 2 * MaxTicks < UInt32 /\ 2 * MaxCalls < UInt32

\* Where the strategy point really is, as a number of steps from the start.
Now == IF usesClock THEN ticks ELSE calls

\* The saved strategy point and the background writer's own, likewise.
SavedAt == saved.passes * NBuffers + saved.buf_id
NextAt == saved.next_passes * NBuffers + saved.next_to_clean

(***************************************************************************)
(* The list policies' strategy point counts the calls.  Unless the hand    *)
(* lagged, the saved point is not past the present one, and the background *)
(* writer is at most a lap ahead of the saved one.                         *)
(***************************************************************************)
PlaceInv ==
  /\ bgw_sync_seq = IF usesClock THEN 0 ELSE calls
  /\ saved.valid /\ ~lagged =>
       SavedAt <= Now /\ SavedAt <= NextAt /\ NextAt <= SavedAt + NBuffers

(***************************************************************************)
(* Without a lag StrategySyncStart returns where the strategy point really *)
(* is, debtors of a pass included.                                         *)
(***************************************************************************)
LEMMA StrategyPoint ==
  ASSUME CountersFit, TypeOK, HandInv, PlaceInv, ~lagged, calls < MaxCalls
  PROVE  /\ StrategyPasses * NBuffers + StrategyBuf
              = IF usesClock THEN ticks ELSE calls + 1
         /\ 2 * StrategyPasses < UInt32
<1>1. /\ ticks \in Nat /\ 2 * ticks < UInt32 /\ ticks < UInt32
      /\ calls + 1 \in Nat /\ 2 * (calls + 1) < UInt32 /\ calls + 1 < UInt32
      /\ nextVictimBuffer \in Nat /\ completePasses \in Nat
  BY DEF CountersFit, TypeOK, HandTypeOK, UInts
<1>2. CASE usesClock
  <2>1. PICK k \in Nat : k = nextVictimBuffer \div NBuffers
    BY <1>1, LapsAndPlace
  <2>2. PICK r \in Buf : r = Victim
    BY <1>1, LapsAndPlace DEF Victim
  <2>3. nextVictimBuffer = k * NBuffers + r /\ r \in Nat
    BY <1>1, <2>1, <2>2, LapsAndPlace DEF Victim, Buf
  <2>4. /\ (completePasses + k) * NBuffers = completePasses * NBuffers + k * NBuffers
        /\ completePasses * NBuffers \in Nat /\ k * NBuffers \in Nat
    BY <1>1
  <2>5. (completePasses + k) * NBuffers + r = ticks
    BY <1>1, <2>3, <2>4 DEF HandInv
  <2>6. completePasses + k <= (completePasses + k) * NBuffers
    BY <1>1, MoreLaps
  <2>7. completePasses + k <= ticks /\ completePasses + k \in Nat
    BY <1>1, <2>3, <2>4, <2>5, <2>6
  <2>8. StrategyPasses = completePasses + k /\ StrategyBuf = r
    BY <1>1, <1>2, <2>1, <2>2, <2>7, Unsigned DEF StrategyPasses, StrategyBuf
  <2> QED BY <1>1, <1>2, <2>5, <2>7, <2>8
<1>3. CASE ~usesClock
  <2>1. (bgw_sync_seq + 1) % UInt32 = calls + 1
    BY <1>1, <1>3, Unsigned DEF PlaceInv
  <2>2. PICK k \in Nat : k = (calls + 1) \div NBuffers
    BY <1>1, LapsAndPlace
  <2>3. PICK r \in Buf : r = (calls + 1) % NBuffers
    BY <1>1, LapsAndPlace
  <2>4. StrategyPasses = k /\ StrategyBuf = r
    BY <1>3, <2>1, <2>2, <2>3 DEF StrategyPasses, StrategyBuf
  <2>5. calls + 1 = k * NBuffers + r /\ r \in Nat
    <3>1. PICK x \in Nat : x = calls + 1
      BY <1>1
    <3>2. x = (x \div NBuffers) * NBuffers + (x % NBuffers)
      BY LapsAndPlace
    <3> QED BY <2>2, <2>3, <3>1, <3>2 DEF Buf
  <2>6. k <= k * NBuffers /\ k * NBuffers \in Nat
    BY MoreLaps
  <2> QED BY <1>1, <1>3, <2>4, <2>5, <2>6
<1> QED BY <1>2, <1>3

(***************************************************************************)
(* What the order of the saved positions means for their counters.         *)
(***************************************************************************)
LEMMA SavedCounters ==
  ASSUME TypeOK, SavedAt <= NextAt, NextAt <= SavedAt + NBuffers
  PROVE  \/ /\ saved.next_passes = saved.passes
            /\ saved.buf_id <= saved.next_to_clean
         \/ /\ saved.next_passes = saved.passes + 1
            /\ saved.next_to_clean <= saved.buf_id
<1>1. PICK p \in Nat, m \in Nat, b \in Buf, c \in Buf :
        /\ p = saved.passes /\ m = saved.next_passes
        /\ b = saved.buf_id /\ c = saved.next_to_clean
  BY DEF TypeOK, UInts
<1>2. /\ p * NBuffers + b <= m * NBuffers + c
      /\ m * NBuffers + c <= p * NBuffers + b + NBuffers
  BY <1>1 DEF SavedAt, NextAt
<1>3. (p + 1) * NBuffers + b = p * NBuffers + b + NBuffers
  BY DEF Buf
<1>4. p < m \/ (p = m /\ b <= c)
  BY <1>2, Lexicographic
<1>5. m * NBuffers + c <= (p + 1) * NBuffers + b
  BY <1>2, <1>3
<1>6. m < p + 1 \/ (m = p + 1 /\ c <= b)
  <2>1. PICK e \in Nat : e = p + 1
    OBVIOUS
  <2>2. m < e \/ (m = e /\ c <= b)
    BY <1>5, <2>1, Lexicographic
  <2> QED BY <2>1, <2>2
<1> QED BY <1>1, <1>4, <1>6 DEF Buf

(***************************************************************************)
(* BgBufferSync: the saved point moves forward to the present one, and the *)
(* background writer stays where it is or is brought up to it.             *)
(***************************************************************************)
LEMMA BgBufferSyncPlace ==
  ASSUME CountersFit, TypeOK, HandInv, PlaceInv, DeltaNotNegative,
         BgBufferSync, UNCHANGED usesClock
  PROVE  PlaceInv' /\ DeltaNotNegative'
<1>1. /\ bgw_sync_seq' = IF usesClock THEN bgw_sync_seq ELSE (bgw_sync_seq + 1) % UInt32
      /\ calls' = calls + 1 /\ calls < MaxCalls /\ ticks' = ticks /\ lagged' = lagged
  BY DEF BgBufferSync, SyncStart
<1>2. bgw_sync_seq' = IF usesClock' THEN 0 ELSE calls'
  <2>1. calls + 1 \in Nat /\ calls + 1 < UInt32
    BY <1>1 DEF CountersFit, TypeOK
  <2> QED BY <1>1, <2>1, Unsigned DEF PlaceInv
<1>3. CASE lagged
  BY <1>1, <1>2, <1>3 DEF PlaceInv, DeltaNotNegative
<1>4. CASE ~lagged
  <2>1. PICK P \in UInts, S \in Buf : P = StrategyPasses /\ S = StrategyBuf
    BY StrategyPointType
  <2>2. PICK T : T = P * NBuffers + S
    OBVIOUS
  <2>3. P \in Nat /\ S \in Nat /\ S < NBuffers /\ T \in Nat
    BY <2>1, <2>2 DEF UInts, Buf
  <2>4. T = Now' /\ 2 * P < UInt32
    BY <1>1, <1>4, <2>1, <2>2, StrategyPoint DEF Now
  <2>5. /\ saved'.buf_id = S /\ saved'.passes = P
        /\ saved'.next_to_clean = IF Keeps THEN saved.next_to_clean ELSE S
        /\ saved'.next_passes = IF Keeps THEN saved.next_passes ELSE P
    BY <2>1 DEF BgBufferSync
  <2>6. SavedAt' = T /\ NextAt' = IF Keeps THEN NextAt ELSE T
    BY <2>2, <2>5 DEF SavedAt, NextAt
  <2>7. CASE ~saved.valid
    <3>1. ~Keeps /\ strategy_delta' = 0
      BY <2>7 DEF Keeps, BgBufferSync
    <3>2. SavedAt' = T /\ NextAt' = T
      BY <2>6, <3>1
    <3>3. T <= T /\ T <= T + NBuffers
      BY <2>3
    <3> QED BY <1>2, <2>4, <3>1, <3>2, <3>3 DEF PlaceInv, DeltaNotNegative
  <2>8. CASE saved.valid
    <3>1. SavedAt <= Now /\ SavedAt <= NextAt /\ NextAt <= SavedAt + NBuffers
      BY <1>4, <2>8 DEF PlaceInv
    <3>2. PICK p \in UInts, m \in UInts, b \in Buf, c \in Buf :
            /\ p = saved.passes /\ m = saved.next_passes
            /\ b = saved.buf_id /\ c = saved.next_to_clean
      BY DEF TypeOK
    <3>3. p \in Nat /\ m \in Nat /\ b \in Nat /\ c \in Nat
      BY <3>2 DEF UInts, Buf
    <3>4. SavedAt = p * NBuffers + b /\ NextAt = m * NBuffers + c
      BY <3>2 DEF SavedAt, NextAt
    <3>5. SavedAt \in Nat /\ NextAt \in Nat
      BY <3>3, <3>4
    <3>6. SavedAt <= T
      BY <1>1, <2>4, <3>1, <3>5 DEF Now, TypeOK
    <3>7. p <= P
      <4>1. p * NBuffers + b <= P * NBuffers + S
        BY <2>2, <3>4, <3>6
      <4> QED BY <2>3, <3>3, <4>1, Lexicographic
    <3>8. m <= p + 1
      BY <3>1, <3>2, <3>3, SavedCounters
    <3>9. SignedDiff(P, p) = P - p
      BY <2>3, <2>4, <3>3, <3>7, TrueDifference
    <3>10. SignedDiff(m, P) = m - P
      BY <2>3, <2>4, <3>3, <3>7, <3>8, TrueDifference
    <3>11. DeltaNotNegative'
      <4>1. strategy_delta' = S - b + (P - p) * NBuffers
        BY <2>1, <2>8, <3>2, <3>9 DEF BgBufferSync
      <4>2. (P - p) * NBuffers = P * NBuffers - p * NBuffers /\ P * NBuffers \in Nat /\ p * NBuffers \in Nat
        BY <2>3, <3>3
      <4>3. strategy_delta' = T - SavedAt
        BY <2>2, <2>3, <3>3, <3>4, <4>1, <4>2
      <4> QED BY <2>3, <3>5, <3>6, <4>3 DEF DeltaNotNegative
    <3>12. Keeps <=> T <= NextAt
      <4>1. Keeps <=> P < m \/ (P = m /\ S <= c)
        BY <2>1, <2>3, <2>8, <3>2, <3>3, <3>10 DEF Keeps, Ahead, SamePass
      <4>2. P * NBuffers + S <= m * NBuffers + c <=> P < m \/ (P = m /\ S <= c)
        BY <2>3, <3>3, Lexicographic
      <4> QED BY <2>2, <3>4, <4>1, <4>2
    <3>13. SavedAt' <= NextAt' /\ NextAt' <= SavedAt' + NBuffers
      BY <2>3, <2>6, <3>1, <3>5, <3>6, <3>12
    <3> QED BY <1>2, <2>3, <2>4, <2>6, <3>11, <3>13 DEF PlaceInv
  <2> QED BY <2>7, <2>8
<1> QED BY <1>3, <1>4

(***************************************************************************)
(* A round of the scan moves the background writer one step, and there is  *)
(* a round only while it is less than a lap ahead.                         *)
(***************************************************************************)
LEMMA CleanOnePlace ==
  ASSUME CountersFit, TypeOK, LapInv, PlaceInv, CleanOne, UNCHANGED usesClock
  PROVE  PlaceInv'
<1>1. UNCHANGED <<bgw_sync_seq, calls, ticks, lagged>> /\ num_to_scan > 0
  BY DEF CleanOne
<1>2. /\ saved'.valid = saved.valid /\ saved'.buf_id = saved.buf_id
      /\ saved'.passes = saved.passes
  BY DEF CleanOne, TypeOK
<1>3. Now' = Now /\ SavedAt' = SavedAt
  BY <1>1, <1>2 DEF Now, SavedAt
<1>4. ASSUME saved.valid, ~lagged PROVE SavedAt' <= NextAt' /\ NextAt' <= SavedAt' + NBuffers
  <2>1. SavedAt <= Now /\ SavedAt <= NextAt /\ NextAt <= SavedAt + NBuffers
    BY <1>4 DEF PlaceInv
  <2>2. PICK p \in Nat, m \in Nat, b \in Buf, c \in Buf :
          /\ p = saved.passes /\ m = saved.next_passes
          /\ b = saved.buf_id /\ c = saved.next_to_clean
    BY DEF TypeOK, UInts
  <2>3. b \in Nat /\ c \in Nat /\ b < NBuffers /\ c < NBuffers
    BY <2>2 DEF Buf
  <2>4. SavedAt = p * NBuffers + b /\ NextAt = m * NBuffers + c
    BY <2>2 DEF SavedAt, NextAt
  <2>5. SavedAt \in Nat /\ NextAt \in Nat /\ p * NBuffers \in Nat
    BY <2>2, <2>3, <2>4
  <2>6. (m = p /\ b <= c) \/ (m = p + 1 /\ c <= b)
    BY <2>1, <2>2, SavedCounters
  <2>7. (m = p /\ c - b < NBuffers) \/ (m = p + 1 /\ c < b)
    <3>1. \/ num_to_scan = b - c
          \/ m = p /\ num_to_scan = NBuffers - (c - b)
      BY <1>4, <2>2 DEF LapInv
    <3> QED BY <1>1, <2>3, <2>6, <3>1
  <2>8. (p + 1) * NBuffers = p * NBuffers + NBuffers
    BY <2>2
  <2>9. NextAt + 1 <= SavedAt + NBuffers
    <3>1. CASE m = p
      BY <2>3, <2>4, <2>5, <2>7, <3>1
    <3>2. CASE m = p + 1
      BY <2>3, <2>4, <2>5, <2>7, <2>8, <3>2
    <3> QED BY <2>7, <3>1, <3>2
  <2>10. NextAt' = NextAt + 1
    <3>1. CASE c + 1 >= NBuffers
      <4>1. m = p
        BY <2>3, <2>7, <3>1
      <4>2. p + 1 < UInt32
        <5>1. p <= p * NBuffers
          BY MoreLaps
        <5>2. p <= Now /\ Now \in Nat
          BY <2>1, <2>3, <2>4, <2>5, <5>1 DEF Now, TypeOK
        <5>3. 2 * Now < UInt32
          BY DEF Now, CountersFit, TypeOK
        <5> QED BY <5>2, <5>3
      <4>3. saved'.next_to_clean = 0 /\ saved'.next_passes = p + 1
        BY <2>2, <3>1, <4>1, <4>2, Unsigned DEF CleanOne, TypeOK
      <4>4. NextAt' = (p + 1) * NBuffers
        BY <4>3 DEF NextAt
      <4> QED BY <2>3, <2>4, <2>5, <2>8, <3>1, <4>1, <4>4
    <3>2. CASE ~(c + 1 >= NBuffers)
      <4>1. saved'.next_to_clean = c + 1 /\ saved'.next_passes = m
        BY <2>2, <3>2 DEF CleanOne, TypeOK
      <4>2. NextAt' = m * NBuffers + (c + 1) /\ m * NBuffers \in Nat
        BY <4>1 DEF NextAt
      <4> QED BY <2>3, <2>4, <4>2
    <3> QED BY <3>1, <3>2
  <2> QED BY <1>3, <2>1, <2>5, <2>9, <2>10
<1> QED BY <1>1, <1>2, <1>3, <1>4 DEF PlaceInv

\* At the start the counters are 0 and nothing is saved.
LEMMA PlaceInit == Init => PlaceInv /\ DeltaNotNegative
<1>1. Init => ~saved.valid /\ bgw_sync_seq = 0 /\ calls = 0 /\ strategy_delta = 0
  BY DEF Init
<1>2. 0 >= 0
  OBVIOUS
<1> QED BY <1>1, <1>2 DEF PlaceInv, DeltaNotNegative

\* Backends only move the strategy point on, or make it lag.
LEMMA BackendPlace ==
  ASSUME TypeOK, PlaceInv, DeltaNotNegative, UNCHANGED <<callVars, usesClock>>,
         ticks' = ticks \/ ticks' = ticks + 1, lagged => lagged'
  PROVE  PlaceInv' /\ DeltaNotNegative'
<1>1. /\ saved' = saved /\ strategy_delta' = strategy_delta /\ calls' = calls
      /\ bgw_sync_seq' = bgw_sync_seq
  BY DEF callVars
<1>2. SavedAt' = SavedAt /\ NextAt' = NextAt
  BY <1>1 DEF SavedAt, NextAt
<1>3. Now \in Nat /\ Now' \in Nat /\ Now <= Now'
  BY <1>1 DEF Now, TypeOK
<1>4. SavedAt \in Nat
  <2>1. PICK p \in Nat, b \in Nat : p = saved.passes /\ b = saved.buf_id
    BY DEF TypeOK, UInts, Buf
  <2> QED BY <2>1 DEF SavedAt
<1>5. SavedAt <= Now => SavedAt <= Now'
  BY <1>3, <1>4
<1>6. DeltaNotNegative'
  BY <1>1 DEF DeltaNotNegative
<1>7. PlaceInv'
  BY <1>1, <1>2, <1>5 DEF PlaceInv
<1> QED BY <1>6, <1>7

\* Every step keeps the positions in order.
LEMMA PlaceStep ==
  CountersFit /\ SyncInv /\ HandInv /\ PlaceInv /\ DeltaNotNegative /\ [Next]_vars
    => PlaceInv' /\ DeltaNotNegative'
<1> SUFFICES ASSUME CountersFit, SyncInv, HandInv, PlaceInv, DeltaNotNegative, [Next]_vars
             PROVE  PlaceInv' /\ DeltaNotNegative'
  OBVIOUS
<1>1. usesClock' = usesClock
  BY DEF Next, vars
<1>2. TypeOK /\ LapInv
  BY DEF SyncInv
<1>3. CASE BgBufferSync
  BY <1>1, <1>2, <1>3, BgBufferSyncPlace
<1>4. CASE CleanOne
  <2>1. DeltaNotNegative'
    BY <1>4 DEF CleanOne, DeltaNotNegative
  <2> QED BY <1>1, <1>2, <1>4, <2>1, CleanOnePlace
<1>5. CASE BgBufferSyncDisabled
  <2>1. /\ bgw_sync_seq' = IF usesClock THEN bgw_sync_seq ELSE (bgw_sync_seq + 1) % UInt32
        /\ calls' = calls + 1 /\ calls < MaxCalls /\ lagged' = lagged
        /\ strategy_delta' = strategy_delta /\ ~saved'.valid
    BY <1>2, <1>5 DEF BgBufferSyncDisabled, SyncStart, TypeOK
  <2>2. calls + 1 \in Nat /\ calls + 1 < UInt32
    BY <1>2, <2>1 DEF CountersFit, TypeOK
  <2>3. bgw_sync_seq' = IF usesClock' THEN 0 ELSE calls'
    BY <1>1, <2>1, <2>2, Unsigned DEF PlaceInv
  <2> QED BY <2>1, <2>3 DEF PlaceInv, DeltaNotNegative
<1>6. CASE FinishSync
  <2>1. UNCHANGED <<bgw_sync_seq, calls, saved, ticks, lagged, strategy_delta>>
    BY <1>6 DEF FinishSync
  <2>2. UNCHANGED <<SavedAt, NextAt, Now>>
    BY <1>1, <2>1 DEF SavedAt, NextAt, Now
  <2> QED BY <1>1, <2>1, <2>2 DEF PlaceInv, DeltaNotNegative
<1>7. ASSUME NEW p \in Backends, CountAlloc(p) \/ Tick(p) \/ Wrap(p) \/ Leave(p)
      PROVE  PlaceInv' /\ DeltaNotNegative'
  <2>1. UNCHANGED callVars /\ (ticks' = ticks \/ ticks' = ticks + 1)
    BY <1>7 DEF CountAlloc, Tick, Wrap, Leave
  <2>2. lagged => lagged'
    BY <1>7 DEF CountAlloc, Tick, Wrap, Leave
  <2> QED BY <1>1, <1>2, <2>1, <2>2, BackendPlace
<1>8. CASE UNCHANGED vars
  <2>1. UNCHANGED callVars /\ ticks' = ticks /\ (lagged => lagged')
    BY <1>8 DEF vars
  <2> QED BY <1>1, <1>2, <2>1, BackendPlace
<1> QED BY <1>3, <1>4, <1>5, <1>6, <1>7, <1>8 DEF Next

(***************************************************************************)
(* As long as the counters stay below half their range, the saved position *)
(* of BgBufferSync stays in order with the strategy point.                 *)
(***************************************************************************)
LEMMA PlaceInvariant == CountersFit => (Spec => [](PlaceInv /\ DeltaNotNegative))
<1>1. CASE CountersFit
  <2>1. MaxTicks < UInt32
    BY <1>1 DEF CountersFit
  <2>2. SyncInv /\ HandInv /\ PlaceInv /\ DeltaNotNegative /\ [Next]_vars
          => PlaceInv' /\ DeltaNotNegative'
    BY <1>1, PlaceStep
  <2> QED BY <2>1, <2>2, PlaceInit, SyncInvariant, HandInvariant, PTL DEF Spec
<1> QED BY <1>1

\* The order of the positions bounds the lead, and num_to_scan completes it.
LEMMA LeadInLap ==
  ASSUME TypeOK, LapInv, PlaceInv PROVE WithinOneLap
<1> SUFFICES ASSUME saved.valid, ~lagged
             PROVE  0 <= Lead /\ Lead <= NBuffers /\ num_to_scan = NBuffers - Lead
  BY DEF WithinOneLap
<1>1. PICK p \in UInts, m \in UInts, b \in Buf, c \in Buf :
        /\ p = saved.passes /\ m = saved.next_passes
        /\ b = saved.buf_id /\ c = saved.next_to_clean
  BY DEF TypeOK
<1>2. p \in Nat /\ m \in Nat /\ b \in Nat /\ c \in Nat /\ b < NBuffers /\ c < NBuffers
  BY <1>1 DEF UInts, Buf
<1>3. (m = p /\ b <= c) \/ (m = p + 1 /\ c <= b)
  BY <1>1, SavedCounters DEF PlaceInv
<1>4. SignedDiff(m, p) = m - p
  BY <1>2, <1>3, TrueDifference
<1>5. Lead = SignedDiff(m, p) * NBuffers + c - b
  BY <1>1 DEF Lead
<1>6. \/ SignedDiff(m, p) > 0 /\ num_to_scan = b - c
      \/ m = p /\ num_to_scan = NBuffers - (c - b)
  BY <1>1 DEF LapInv
<1>7. CASE m = p
  <2>1. SignedDiff(m, p) = 0
    BY <1>2, <1>4, <1>7
  <2>2. Lead = c - b
    BY <1>2, <1>5, <2>1
  <2> QED BY <1>2, <1>3, <1>6, <1>7, <2>1, <2>2
<1>8. CASE m = p + 1
  <2>1. SignedDiff(m, p) = 1
    BY <1>2, <1>4, <1>8
  <2>2. Lead = NBuffers + c - b
    BY <1>2, <1>5, <2>1
  <2> QED BY <1>2, <1>3, <1>6, <1>8, <2>2
<1> QED BY <1>3, <1>7, <1>8

(***************************************************************************)
(* BgBufferSync is never behind the strategy point it read, never more     *)
(* than a lap ahead of it, and scans exactly the rest of the lap, for any  *)
(* number of buffers, until a counter could pass 2^31 or the hand lags.    *)
(***************************************************************************)
THEOREM BgWriterWithinOneLap == CountersFit => (Spec => []WithinOneLap)
<1>1. CASE CountersFit
  <2>1. SyncInv /\ PlaceInv => WithinOneLap
    BY LeadInLap DEF SyncInv
  <2> QED BY <1>1, <2>1, SyncInvariant, PlaceInvariant, PTL
<1> QED BY <1>1

(***************************************************************************)
(* The assertion strategy_delta >= 0 of BgBufferSync holds, for any number *)
(* of buffers, until a counter could pass 2^31 or ClockSweepTick brings a  *)
(* hand two laps ahead back as one.                                        *)
(***************************************************************************)
THEOREM StrategyPointMovesOn == CountersFit => (Spec => []DeltaNotNegative)
<1>1. CASE CountersFit
  <2> QED BY <1>1, PlaceInvariant, PTL
<1> QED BY <1>1

-----------------------------------------------------------------------------
(* The wake-up                                                             *)

(***************************************************************************)
(* AllocationSeen is not inductive: a backend that finds no request must   *)
(* know why there is none.  While the background writer hibernates, its    *)
(* request is there, or its latch is set, or the backend that cleared the  *)
(* request is about to set it.                                             *)
(***************************************************************************)
RequestAnswered ==
  pc = "hibernate" => requested \/ latch \/ \E p \in Backends : bpc[p] = "wake"

WakeInv == Main!TypeOK /\ RequestAnswered /\ Main!AllocationSeen

(***************************************************************************)
(* When BackgroundWriterMain begins nothing is requested and it is awake.  *)
(***************************************************************************)
LEMMA WakeInit == Main!Init => WakeInv
<1> SUFFICES ASSUME Main!Init PROVE WakeInv
    OBVIOUS
<1>1. 0 \in 0 .. MaxAllocs
      OBVIOUS
<1>2. Main!TypeOK
      BY <1>1, Zenon DEF Main!Init, Main!TypeOK
<1> QED
    BY <1>2 DEF Main!Init, WakeInv, RequestAnswered, Main!AllocationSeen

(***************************************************************************)
(* Every step keeps the variables within their types.                      *)
(***************************************************************************)
LEMMA WakeTypeStep == Main!TypeOK /\ [Main!Next]_Main!vars => Main!TypeOK'
<1> SUFFICES ASSUME Main!TypeOK, [Main!Next]_Main!vars PROVE Main!TypeOK'
    OBVIOUS
<1> USE DEF Main!TypeOK
<1>1. ASSUME NEW p \in Backends, Main!ReadRequest(p) PROVE Main!TypeOK'
      BY <1>1 DEF Main!ReadRequest
<1>2. ASSUME NEW p \in Backends, Main!ClearRequest(p) PROVE Main!TypeOK'
      BY <1>2 DEF Main!ClearRequest
<1>3. ASSUME NEW p \in Backends, Main!SetLatch(p) PROVE Main!TypeOK'
      BY <1>3 DEF Main!SetLatch
<1>4. ASSUME NEW p \in Backends, Main!CountAlloc(p) PROVE Main!TypeOK'
      BY <1>4 DEF Main!CountAlloc
<1>5. ASSUME Main!ResetLatch PROVE Main!TypeOK'
      BY <1>5 DEF Main!ResetLatch
<1>0. 0 \in 0 .. MaxAllocs
      OBVIOUS
<1>6. ASSUME Main!BgBufferSync PROVE Main!TypeOK'
  <2>1. (numBufferAllocs = 0) \in BOOLEAN
        OBVIOUS
  <2> QED
      BY <1>0, <1>6, <2>1, Zenon DEF Main!BgBufferSync
<1>7. ASSUME Main!SyncError PROVE Main!TypeOK'
      BY <1>0, <1>7, Zenon DEF Main!SyncError
<1>8. ASSUME Main!WaitLatch PROVE Main!TypeOK'
      BY <1>8 DEF Main!WaitLatch
<1>9. ASSUME Main!NotifyBgWriter PROVE Main!TypeOK'
      BY <1>9 DEF Main!NotifyBgWriter
<1>10. ASSUME Main!WakeUp \/ Main!TimeOut PROVE Main!TypeOK'
      BY <1>10 DEF Main!WakeUp, Main!TimeOut
<1>11. ASSUME Main!WithdrawRequest PROVE Main!TypeOK'
      BY <1>11 DEF Main!WithdrawRequest
<1>12. ASSUME UNCHANGED Main!vars PROVE Main!TypeOK'
      BY <1>12 DEF Main!vars
<1> QED
    BY <1>1, <1>2, <1>3, <1>4, <1>5, <1>6, <1>7, <1>8, <1>9, <1>10, <1>11, <1>12
    DEF Main!Next, Main!Loop, Main!Backend

(***************************************************************************)
(* Every step keeps a sleeping background writer's request answered, and   *)
(* every allocation that has begun seen.                                   *)
(***************************************************************************)
LEMMA WakeStep ==
  WakeInv /\ [Main!Next]_Main!vars => RequestAnswered' /\ Main!AllocationSeen'
<1> SUFFICES ASSUME WakeInv, [Main!Next]_Main!vars PROVE RequestAnswered' /\ Main!AllocationSeen'
    OBVIOUS
<1> DEFINE Seen == RequestAnswered' /\ Main!AllocationSeen'
<1> USE DEF WakeInv, Main!TypeOK, RequestAnswered, Main!AllocationSeen
\* A backend that finds no request relies on RequestAnswered.
<1>1. ASSUME NEW p \in Backends, Main!ReadRequest(p) PROVE Seen
      BY <1>1 DEF Main!ReadRequest
<1>2. ASSUME NEW p \in Backends, Main!ClearRequest(p) PROVE Seen
      BY <1>2 DEF Main!ClearRequest
<1>3. ASSUME NEW p \in Backends, Main!SetLatch(p) PROVE Seen
      BY <1>3 DEF Main!SetLatch
<1>4. ASSUME NEW p \in Backends, Main!CountAlloc(p) PROVE Seen
      BY <1>4 DEF Main!CountAlloc
\* Only NotifyBgWriter enters hibernation; it has just made the request.
<1>5. ASSUME Main!Loop \/ Main!TimeOut PROVE Seen
      BY <1>5 DEF Main!Loop, Main!ResetLatch, Main!BgBufferSync, Main!SyncError, Main!WaitLatch,
                  Main!NotifyBgWriter, Main!WakeUp, Main!WithdrawRequest, Main!TimeOut
<1>6. ASSUME UNCHANGED Main!vars PROVE Seen
      BY <1>6 DEF Main!vars
<1> QED
    BY <1>1, <1>2, <1>3, <1>4, <1>5, <1>6 DEF Main!Next, Main!Backend

(***************************************************************************)
(* The three together are an invariant of the background writer's loop and *)
(* of the allocating backends.                                             *)
(***************************************************************************)
LEMMA WakeInvariant == Main!Spec => []WakeInv
<1>1. WakeInv /\ [Main!Next]_Main!vars => WakeInv'
      BY WakeTypeStep, WakeStep DEF WakeInv
<1> QED
    BY <1>1, WakeInit, PTL DEF Main!Spec

(***************************************************************************)
(* The variables of BackgroundWriterMain and StrategyGetBuffer keep their  *)
(* types.                                                                  *)
(***************************************************************************)
THEOREM BgWriterTypeCorrect == Main!Spec => []Main!TypeOK
<1>1. WakeInv => Main!TypeOK
      BY DEF WakeInv
<1> QED
    BY <1>1, WakeInvariant, PTL

(***************************************************************************)
(* No lost wakeup, for any number of backends: StrategyGetBuffer's         *)
(* unlocked reads and writes of bgwprocno never let an allocation pass     *)
(* unnoticed by a hibernating background writer.                           *)
(***************************************************************************)
THEOREM WakeupNeverLost == Main!Spec => []Main!AllocationSeen
<1>1. WakeInv => Main!AllocationSeen
      BY DEF WakeInv
<1> QED
    BY <1>1, WakeInvariant, PTL
=============================================================================
