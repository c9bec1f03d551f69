------------------------------- MODULE BgSync -------------------------------
(***************************************************************************)
(* How the background writer follows the eviction policy: StrategySyncStart*)
(* (freelist.c) reads the policy's position while backends move it, and    *)
(* BgBufferSync (bufmgr.c) keeps its own position up to one lap ahead.     *)
(* Only the clock sweep has a position; for the other policies             *)
(* StrategySyncStart makes one up by counting its own calls.               *)
(***************************************************************************)
EXTENDS ClockHand, Integers

CONSTANTS
  Backends,    \* the processes using the buffer pool
  MaxTicks,    \* bound on the ticks of the clock hand
  MaxAllocs,   \* bound on the allocations between two calls
  MaxCalls     \* bound on the calls of StrategySyncStart

ASSUME BgSyncAssumption ==
  /\ MaxTicks \in Nat /\ MaxAllocs \in Nat /\ MaxCalls \in Nat

VARIABLES
  usesClock,        \* whether ActiveEviction is the clock sweep or a list policy
  numBufferAllocs,  \* StrategyControl->numBufferAllocs
  bgw_sync_seq,     \* calls of StrategySyncStart, as the list policies count
  sweeping,         \* the backends inside the policy's get_buffer
  bgpc,             \* "idle", or "scan" in the loop of BgBufferSync
  saved,            \* the static variables of BgBufferSync
  recent_alloc,     \* locals of the current call of BgBufferSync
  bufs_to_lap,
  num_to_scan,
  strategy_delta,
  can_hibernate,    \* what the last call returned
  ticks,            \* history: how often the hand moved
  lagged,           \* history: a hand two laps ahead was brought back as one
  calls,            \* history: how often StrategySyncStart was called
  quiet,            \* history: nothing was allocated since the last call
  idleCall          \* history: this call finds the pool lapped and quiet

callVars == <<bgpc, saved, recent_alloc, bufs_to_lap, num_to_scan,
              strategy_delta, can_hibernate, bgw_sync_seq, calls, idleCall>>
vars == <<usesClock, handVars, numBufferAllocs, sweeping, ticks, lagged, quiet,
          callVars>>

Init ==
  /\ usesClock \in BOOLEAN
  /\ ClockSweepInitialize(Backends)
  /\ numBufferAllocs = 0 /\ bgw_sync_seq = 0
  /\ sweeping = {}
  /\ bgpc = "idle"
  /\ saved = [valid |-> FALSE, buf_id |-> 0, passes |-> 0,
              next_to_clean |-> 0, next_passes |-> 0]
  /\ recent_alloc = 0 /\ strategy_delta = 0
  /\ bufs_to_lap = 0 /\ num_to_scan = 0
  /\ can_hibernate = FALSE
  /\ ticks = 0 /\ calls = 0 /\ lagged = FALSE
  /\ quiet = FALSE /\ idleCall = FALSE

\* The difference of two unsigned numbers, read as a signed one.
SignedDiff(a, b) ==
  LET d == (a - b) % UInt32 IN IF 2 * d < UInt32 THEN d ELSE d - UInt32

-----------------------------------------------------------------------------
(***************************************************************************)
(* The backends: StrategyGetBuffer counts the request and then scans.      *)
(***************************************************************************)
CountAlloc(p) ==
  /\ p \notin sweeping
  /\ numBufferAllocs < MaxAllocs
  /\ numBufferAllocs' = numBufferAllocs + 1
  /\ sweeping' = sweeping \cup {p}
  /\ quiet' = FALSE
  /\ UNCHANGED <<handVars, ticks, lagged, callVars>>

Tick(p) ==
  /\ usesClock /\ ticks < MaxTicks
  /\ p \in sweeping /\ ~Owes(p)
  /\ FetchAdd(p)
  /\ ticks' = ticks + 1
  /\ quiet' = FALSE
  /\ UNCHANGED <<numBufferAllocs, sweeping, lagged, callVars>>

Wrap(p) ==
  /\ WrapHand(p)
  /\ lagged' = (lagged \/ completePasses' * NBuffers + nextVictimBuffer' < ticks)
  /\ quiet' = FALSE
  /\ UNCHANGED <<numBufferAllocs, sweeping, ticks, callVars>>

Leave(p) ==
  /\ p \in sweeping /\ ~Owes(p)
  /\ sweeping' = sweeping \ {p}
  /\ UNCHANGED <<handVars, numBufferAllocs, ticks, lagged, quiet, callVars>>

-----------------------------------------------------------------------------
(***************************************************************************)
(* StrategySyncStart, in a critical section of buffer_strategy_lock: the   *)
(* buffer it returns and the passes it stores in complete_passes.          *)
(***************************************************************************)
StrategyBuf ==
  IF usesClock THEN Victim ELSE ((bgw_sync_seq + 1) % UInt32) % NBuffers
\* Mutant: the wraparounds not yet in completePasses are left out.
RecordedPasses ==
  IF usesClock THEN completePasses
  ELSE ((bgw_sync_seq + 1) % UInt32) \div NBuffers
StrategyPasses ==
  IF usesClock THEN (completePasses + nextVictimBuffer \div NBuffers) % UInt32
  ELSE ((bgw_sync_seq + 1) % UInt32) \div NBuffers

SyncStart ==
  /\ calls < MaxCalls
  /\ bgw_sync_seq' = IF usesClock THEN bgw_sync_seq
                     ELSE (bgw_sync_seq + 1) % UInt32
  /\ recent_alloc' = numBufferAllocs
  /\ numBufferAllocs' = 0
  /\ calls' = calls + 1
  /\ quiet' = TRUE
  /\ UNCHANGED <<handVars, sweeping, ticks, lagged>>

(***************************************************************************)
(* Where BgBufferSync goes on, and how many buffers are left before it     *)
(* would lap the strategy point.                                           *)
(***************************************************************************)
Ahead == SignedDiff(saved.next_passes, StrategyPasses) > 0
SamePass ==
  saved.next_passes = StrategyPasses /\ saved.next_to_clean >= StrategyBuf
Keeps == saved.valid /\ (Ahead \/ SamePass)

\* Mutant: a pass ahead counts for nothing.
LapIgnoresPass ==
  IF ~Keeps THEN NBuffers ELSE NBuffers - (saved.next_to_clean - StrategyBuf)

BufsToLap ==
  IF ~Keeps THEN NBuffers
  ELSE IF Ahead THEN StrategyBuf - saved.next_to_clean
  ELSE NBuffers - (saved.next_to_clean - StrategyBuf)

BgBufferSync ==
  /\ bgpc = "idle"
  /\ SyncStart
  /\ strategy_delta' =
       IF saved.valid
       THEN StrategyBuf - saved.buf_id
              + SignedDiff(StrategyPasses, saved.passes) * NBuffers
       ELSE 0
  /\ bufs_to_lap' = BufsToLap
  /\ num_to_scan' = BufsToLap
  /\ saved' = [valid |-> TRUE, buf_id |-> StrategyBuf, passes |-> StrategyPasses,
               next_to_clean |-> IF Keeps THEN saved.next_to_clean ELSE StrategyBuf,
               next_passes |-> IF Keeps THEN saved.next_passes ELSE StrategyPasses]
  /\ bgpc' = "scan"
  /\ idleCall' = (saved.valid /\ num_to_scan = 0 /\ quiet)
  /\ UNCHANGED can_hibernate

\* bgwriter_lru_maxpages is 0: no scan, and the saved state is void.
BgBufferSyncDisabled ==
  /\ bgpc = "idle"
  /\ SyncStart
  /\ saved' = [saved EXCEPT !.valid = FALSE]
  /\ can_hibernate' = TRUE
  /\ idleCall' = FALSE
  /\ UNCHANGED <<bgpc, bufs_to_lap, num_to_scan, strategy_delta>>

\* Mutant: next_to_clean runs one past the last buffer.
CleanPastEnd ==
  /\ bgpc = "scan" /\ num_to_scan > 0
  /\ num_to_scan' = num_to_scan - 1
  /\ saved' = IF saved.next_to_clean + 1 > NBuffers
              THEN [saved EXCEPT !.next_to_clean = 0,
                                 !.next_passes = (@ + 1) % UInt32]
              ELSE [saved EXCEPT !.next_to_clean = @ + 1]
  /\ UNCHANGED <<handVars, numBufferAllocs, sweeping, ticks, lagged, quiet, bgpc,
                 recent_alloc, bufs_to_lap, strategy_delta, can_hibernate,
                 bgw_sync_seq, calls, idleCall>>

\* Mutant: the wrap of next_to_clean does not count as a pass.
CleanSamePass ==
  /\ bgpc = "scan" /\ num_to_scan > 0
  /\ num_to_scan' = num_to_scan - 1
  /\ saved' = [saved EXCEPT !.next_to_clean = (@ + 1) % NBuffers]
  /\ UNCHANGED <<handVars, numBufferAllocs, sweeping, ticks, lagged, quiet, bgpc,
                 recent_alloc, bufs_to_lap, strategy_delta, can_hibernate,
                 bgw_sync_seq, calls, idleCall>>

(***************************************************************************)
(* One round of the scan: SyncOneBuffer(next_to_clean) and step on.        *)
(***************************************************************************)
CleanOne ==
  /\ bgpc = "scan" /\ num_to_scan > 0
  /\ num_to_scan' = num_to_scan - 1
  /\ saved' = IF saved.next_to_clean + 1 >= NBuffers
              THEN [saved EXCEPT !.next_to_clean = 0,
                                 !.next_passes = (@ + 1) % UInt32]
              ELSE [saved EXCEPT !.next_to_clean = @ + 1]
  /\ UNCHANGED <<handVars, numBufferAllocs, sweeping, ticks, lagged, quiet, bgpc,
                 recent_alloc, bufs_to_lap, strategy_delta, can_hibernate,
                 bgw_sync_seq, calls, idleCall>>

(***************************************************************************)
(* The loop ends: nothing left before the lap, enough reusable buffers     *)
(* found, or bgwriter_lru_maxpages written.                                *)
(***************************************************************************)
FinishSync ==
  /\ bgpc = "scan"
  /\ bgpc' = "idle"
  /\ can_hibernate' = (bufs_to_lap = 0 /\ recent_alloc = 0)
  /\ UNCHANGED <<handVars, numBufferAllocs, sweeping, ticks, lagged, quiet, saved,
                 recent_alloc, bufs_to_lap, num_to_scan, strategy_delta,
                 bgw_sync_seq, calls, idleCall>>

Next ==
  /\ \/ BgBufferSync \/ BgBufferSyncDisabled \/ CleanOne \/ FinishSync
     \/ \E p \in Backends : CountAlloc(p) \/ Tick(p) \/ Wrap(p) \/ Leave(p)
  /\ UNCHANGED usesClock

Spec == Init /\ [][Next]_vars

-----------------------------------------------------------------------------
TypeOK ==
  /\ usesClock \in BOOLEAN
  /\ HandTypeOK(Backends)
  /\ numBufferAllocs \in 0 .. MaxAllocs /\ recent_alloc \in 0 .. MaxAllocs
  /\ bgw_sync_seq \in UInts
  /\ sweeping \in SUBSET Backends
  /\ bgpc \in {"idle", "scan"}
  /\ saved \in [valid : BOOLEAN, buf_id : Buf, passes : UInts,
                next_to_clean : Buf, next_passes : UInts]
  /\ bufs_to_lap \in Int /\ num_to_scan \in Int /\ strategy_delta \in Int
  /\ can_hibernate \in BOOLEAN
  /\ ticks \in 0 .. MaxTicks /\ calls \in 0 .. MaxCalls
  /\ lagged \in BOOLEAN /\ quiet \in BOOLEAN /\ idleCall \in BOOLEAN

(***************************************************************************)
(* However the backends that cause wraparounds are delayed, what a reader  *)
(* under buffer_strategy_lock sees is never ahead of the real sweep, and   *)
(* the hand always points at the right buffer: a pass may be recorded late *)
(* but none is counted twice (ClockSweepTick).                             *)
(***************************************************************************)
HandNeverAhead ==
  /\ completePasses * NBuffers + nextVictimBuffer <= ticks
  /\ nextVictimBuffer % NBuffers = ticks % NBuffers

\* How far the background writer is ahead of the strategy point.
Lead ==
  SignedDiff(saved.next_passes, saved.passes) * NBuffers
    + saved.next_to_clean - saved.buf_id

(***************************************************************************)
(* The background writer is never behind the strategy point it read and    *)
(* never more than one lap ahead, and it scans exactly what is left of the *)
(* lap: the three cases of BgBufferSync agree with one another and with    *)
(* the scan that steps both counters, as long as the hand does not lag.    *)
(***************************************************************************)
WithinOneLap ==
  saved.valid /\ ~lagged =>
    /\ 0 <= Lead /\ Lead <= NBuffers
    /\ bgpc = "scan" => num_to_scan = NBuffers - Lead

(***************************************************************************)
(* What BgBufferSync asserts, that the strategy point never moves back,    *)
(* can fail only after ClockSweepTick brought a hand that was two laps     *)
(* ahead back and counted one pass; the other is counted later.            *)
(***************************************************************************)
DeltaNotNegative == strategy_delta >= 0 \/ lagged

(***************************************************************************)
(* BgBufferSync lets the background writer hibernate, as its comment says, *)
(* when the last call ended with the strategy point lapped and nothing has *)
(* been allocated since.  That is so for the clock sweep only: the other   *)
(* policies' strategy point moves with every call of StrategySyncStart.    *)
(***************************************************************************)
HibernatesWhenIdle ==
  usesClock /\ bgpc = "scan" /\ idleCall => bufs_to_lap = 0
=============================================================================
