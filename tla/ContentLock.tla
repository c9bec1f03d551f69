---------------------------- MODULE ContentLock ----------------------------
(***************************************************************************)
(* The content lock of one shared buffer (bufmgr.c, BufferLockAcquire and  *)
(* what it calls) and the cleanup lock built on it (LockBufferForCleanup). *)
(* The lock lives in the state word of the buffer header and is taken and  *)
(* released by atomic operations; the wait queue and the pin-count waiter  *)
(* are protected by the header spinlock, which those operations ignore.    *)
(***************************************************************************)
EXTENDS Naturals, FiniteSets, Sequences

CONSTANTS
  Procs,      \* the processes
  Asks,       \* how each of them may lock the page
  Stray,      \* those whose semaphore has a post left over from elsewhere
  Rounds,     \* bound on the pins and locks each process asks for
  MaxLatches, \* bound on latches set for another reason
  None

Modes == {"share", "share_exclusive", "exclusive"}

ASSUME ContentLockAssumption ==
  /\ Asks \in [Procs -> SUBSET (Modes \cup {"cleanup", "conditional"})]
  /\ IsFiniteSet(Procs) /\ Stray \subseteq Procs
  /\ Rounds \in Nat /\ MaxLatches \in Nat
  /\ None \notin Procs \cup Modes

VARIABLES
  held,            \* the mode each process has taken in the state word
  hasWaiters,      \* BM_LOCK_HAS_WAITERS
  wakeInProgress,  \* BM_LOCK_WAKE_IN_PROGRESS
  queue,           \* lock_waiters
  pins,            \* the processes counted in the refcount
  pinWaiter,       \* BM_PIN_COUNT_WAITER and wait_backend_pgprocno
  header,          \* who keeps the header spinlock from one step to the next
  lwWaiting,       \* MyProc->lwWaiting
  mode,            \* MyProc->lwWaitMode
  sem,             \* the count of MyProc->sem
  extraWaits,      \* posts that were meant for something else
  wakeup,          \* the list of BufferLockWakeup
  latch,           \* MyLatch
  pc,
  goal,            \* what a process wants the lock for
  left,            \* the pins and locks each process may still ask for
  latches,         \* the latches still to be set for another reason
  looked           \* history: who has locked the page since it pinned it

lockVars == <<held, hasWaiters, wakeInProgress, queue, lwWaiting, mode>>
semVars == <<sem, extraWaits, wakeup>>
pinVars == <<pins, pinWaiter, header, latch, looked>>
vars == <<lockVars, semVars, pinVars, pc, goal, left, latches>>

Base(p) == IF p \in Stray THEN 1 ELSE 0

Init ==
  /\ held = [p \in Procs |-> None]
  /\ hasWaiters = FALSE /\ wakeInProgress = FALSE
  /\ queue = <<>>
  /\ pins = {} /\ pinWaiter = None /\ header = None
  /\ lwWaiting = [p \in Procs |-> "no"]
  /\ mode = [p \in Procs |-> "share"]
  /\ sem = [p \in Procs |-> Base(p)]
  /\ extraWaits = [p \in Procs |-> 0]
  /\ wakeup = [p \in Procs |-> <<>>]
  /\ latch = [p \in Procs |-> FALSE]
  /\ pc = [p \in Procs |-> "out"]
  /\ goal = [p \in Procs |-> "lock"]
  /\ left = [p \in Procs |-> Rounds]
  /\ latches = MaxLatches
  /\ looked = {}

Goto(p, l) == pc' = [pc EXCEPT ![p] = l]

Members(s) == {s[i] : i \in DOMAIN s}

\* The members of s that are in W, in the order of s.
Only(s, W) ==
  LET at == {i \in DOMAIN s : s[i] \in W}
      Upto(n) == Cardinality({i \in at : i <= n})
  IN [k \in 1 .. Cardinality(at) |-> s[CHOOSE i \in at : Upto(i) = k]]

-----------------------------------------------------------------------------
(***************************************************************************)
(* Pins.  Pinning waits for the header spinlock, unpinning does not.       *)
(***************************************************************************)
PinBuffer(p) ==
  /\ pc[p] = "out" /\ left[p] > 0 /\ header = None
  /\ left' = [left EXCEPT ![p] = @ - 1]
  /\ pins' = pins \cup {p}
  /\ Goto(p, "pinned")
  /\ UNCHANGED <<lockVars, semVars, pinWaiter, header, latch, looked, goal, latches>>

UnpinBuffer(p) ==
  /\ pc[p] \in {"pinned", "abort"}
  /\ pins' = pins \ {p}
  /\ looked' = looked \ {p}
  /\ Goto(p, IF pinWaiter # None THEN "wakepin" ELSE "out")
  /\ goal' = [goal EXCEPT ![p] = "lock"]
  /\ UNCHANGED <<lockVars, semVars, pinWaiter, header, latch, left, latches>>

\* Mutant: the pin count is compared with what it was before the unpin.
WakeAfterTwo(p) ==
  /\ pc[p] = "wakepin" /\ header = None
  /\ IF pinWaiter # None /\ Cardinality(pins) = 2
     THEN /\ pinWaiter' = None
          /\ wakeup' = [wakeup EXCEPT ![p] = <<pinWaiter>>]
          /\ Goto(p, "signal")
     ELSE /\ Goto(p, "out")
          /\ UNCHANGED <<pinWaiter, wakeup>>
  /\ UNCHANGED <<lockVars, sem, extraWaits, pins, header, latch, looked, goal,
                 left, latches>>

\* In a critical section of the header spinlock; the signal is sent after it.
WakePinCountWaiter(p) ==
  /\ pc[p] = "wakepin" /\ header = None
  /\ IF pinWaiter # None /\ Cardinality(pins) = 1
     THEN /\ pinWaiter' = None
          /\ wakeup' = [wakeup EXCEPT ![p] = <<pinWaiter>>]
          /\ Goto(p, "signal")
     ELSE /\ Goto(p, "out")
          /\ UNCHANGED <<pinWaiter, wakeup>>
  /\ UNCHANGED <<lockVars, sem, extraWaits, pins, header, latch, looked, goal,
                 left, latches>>

ProcSendSignal(p) ==
  /\ pc[p] = "signal"
  /\ latch' = [latch EXCEPT ![Head(wakeup[p])] = TRUE]
  /\ wakeup' = [wakeup EXCEPT ![p] = <<>>]
  /\ Goto(p, "out")
  /\ UNCHANGED <<lockVars, sem, extraWaits, pins, pinWaiter, header, looked, goal,
                 left, latches>>

-----------------------------------------------------------------------------
(***************************************************************************)
(* Taking the lock (BufferLockAcquire).                                    *)
(***************************************************************************)
Free(m) ==
  \A q \in Procs :
    CASE m = "exclusive" -> held[q] = None
      [] m = "share_exclusive" -> held[q] \in {None, "share"}
      [] m = "share" -> held[q] # "exclusive"

\* BufferLockAttempt succeeds.
Take(p) ==
  /\ held' = [held EXCEPT ![p] = mode[p]]

\* The lock is p's; the posts that were meant for something else are given back.
Locked(p, n) ==
  /\ sem' = [sem EXCEPT ![p] = n + extraWaits[p]]
  /\ extraWaits' = [extraWaits EXCEPT ![p] = 0]
  /\ looked' = looked \cup {p}
  /\ Goto(p, "locked")

\* LockBuffer in some mode, or LockBufferForCleanup.
LockBuffer(p) ==
  /\ pc[p] = "pinned" /\ left[p] > 0
  /\ left' = [left EXCEPT ![p] = @ - 1]
  /\ \/ \E m \in Asks[p] \cap Modes :
          mode' = [mode EXCEPT ![p] = m] /\ goal' = [goal EXCEPT ![p] = "lock"]
     \/ /\ "cleanup" \in Asks[p]
        /\ mode' = [mode EXCEPT ![p] = "exclusive"]
        /\ goal' = [goal EXCEPT ![p] = "cleanup"]
  /\ Goto(p, "attempt")
  /\ UNCHANGED <<held, hasWaiters, wakeInProgress, queue, lwWaiting, semVars,
                 pinVars, latches>>

AttemptLock(p) ==
  /\ pc[p] = "attempt"
  /\ \/ /\ Free(mode[p]) /\ Take(p) /\ Locked(p, sem[p])
        /\ UNCHANGED <<wakeup, pins, pinWaiter, header, latch>>
     \/ /\ ~Free(mode[p]) /\ Goto(p, "queue")
        /\ UNCHANGED <<held, semVars, pinVars>>
  /\ UNCHANGED <<hasWaiters, wakeInProgress, queue, lwWaiting, mode, goal, left,
                 latches>>

\* Mutant: straight to sleep, without trying again.
QueueAndSleep(p) ==
  /\ pc[p] = "queue" /\ header = None
  /\ hasWaiters' = TRUE
  /\ lwWaiting' = [lwWaiting EXCEPT ![p] = "waiting"]
  /\ queue' = Append(queue, p)
  /\ Goto(p, "sleep")
  /\ UNCHANGED <<held, wakeInProgress, mode, semVars, pinVars, goal, left, latches>>

QueueSelf(p) ==
  /\ pc[p] = "queue" /\ header = None
  /\ hasWaiters' = TRUE
  /\ lwWaiting' = [lwWaiting EXCEPT ![p] = "waiting"]
  /\ queue' = Append(queue, p)
  /\ Goto(p, "again")
  /\ UNCHANGED <<held, wakeInProgress, mode, semVars, pinVars, goal, left, latches>>

AttemptAgain(p) ==
  /\ pc[p] = "again"
  /\ \/ Free(mode[p]) /\ Take(p) /\ Goto(p, "dequeue")
     \/ ~Free(mode[p]) /\ Goto(p, "sleep") /\ UNCHANGED held
  /\ UNCHANGED <<hasWaiters, wakeInProgress, queue, lwWaiting, mode, semVars,
                 pinVars, goal, left, latches>>

\* Mutant: a wake-up that is under way is not waited for.
DequeueAndGo(p) ==
  /\ pc[p] = "dequeue" /\ header = None
  /\ queue' = Only(queue, Procs \ {p})
  /\ hasWaiters' = (hasWaiters /\ queue' # <<>>)
  /\ lwWaiting' = [lwWaiting EXCEPT ![p] = "no"]
  /\ Locked(p, sem[p])
  /\ UNCHANGED <<held, wakeInProgress, mode, wakeup, pins, pinWaiter, header, latch,
                 goal, left, latches>>

\* Off the queue again, unless somebody has taken p off it to wake it up.
DequeueSelf(p) ==
  /\ pc[p] = "dequeue" /\ header = None
  /\ queue' = Only(queue, Procs \ {p})
  /\ hasWaiters' = (hasWaiters /\ queue' # <<>>)
  /\ \/ /\ lwWaiting[p] = "waiting"
        /\ lwWaiting' = [lwWaiting EXCEPT ![p] = "no"]
        /\ Locked(p, sem[p])
     \/ /\ lwWaiting[p] # "waiting"
        /\ Goto(p, "reopen")
        /\ UNCHANGED <<lwWaiting, sem, extraWaits, looked>>
  /\ UNCHANGED <<held, wakeInProgress, mode, wakeup, pins, pinWaiter, header, latch,
                 goal, left, latches>>

\* A process that was woken lets others be woken, before it tries or waits on.
ClearWakeInProgress(p) ==
  /\ pc[p] \in {"reopen", "retry"}
  /\ wakeInProgress' = FALSE
  /\ Goto(p, IF pc[p] = "reopen" THEN "absorb" ELSE "attempt")
  /\ UNCHANGED <<held, hasWaiters, queue, lwWaiting, mode, semVars, pinVars, goal,
                 left, latches>>

\* PGSemaphoreLock returns, for the wake-up p waits for or for something else.
SemaphoreLock(p) ==
  /\ pc[p] \in {"sleep", "absorb"} /\ sem[p] > 0
  /\ \/ /\ lwWaiting[p] = "no" /\ pc[p] = "absorb"
        /\ Locked(p, sem[p] - 1)
     \/ /\ lwWaiting[p] = "no" /\ pc[p] = "sleep"
        /\ sem' = [sem EXCEPT ![p] = @ - 1]
        /\ Goto(p, "retry")
        /\ UNCHANGED <<extraWaits, looked>>
     \/ /\ lwWaiting[p] # "no"
        /\ sem' = [sem EXCEPT ![p] = @ - 1]
        /\ extraWaits' = [extraWaits EXCEPT ![p] = @ + 1]
        /\ UNCHANGED <<pc, looked>>
  /\ UNCHANGED <<lockVars, wakeup, pins, pinWaiter, header, latch, goal, left,
                 latches>>

-----------------------------------------------------------------------------
(***************************************************************************)
(* Releasing it (BufferLockUnlock).                                        *)
(***************************************************************************)
\* Where p goes on after it has released the lock.
After(p) ==
  CASE goal[p] = "wait" -> "wait"
    [] goal[p] = "abort" -> "abort"
    [] OTHER -> "pinned"

Others(p) == {q \in Procs \ {p} : held[q] # None}

\* BufferLockReleaseSub, the atomic subtraction and BufferLockProcessRelease.
Release(p) ==
  /\ held' = [held EXCEPT ![p] = None]
  /\ Goto(p, IF ~hasWaiters \/ wakeInProgress THEN After(p)
             ELSE IF Others(p) = {} THEN "wakeany"
             ELSE IF held[p] = "share_exclusive" THEN "wakeshare"
             ELSE After(p))

Unlock(p) ==
  /\ \/ pc[p] \in {"clean", "unlock"}
     \/ pc[p] = "locked" /\ goal[p] = "lock"
  /\ Release(p)
  /\ UNCHANGED <<hasWaiters, wakeInProgress, queue, lwWaiting, mode, semVars,
                 pinVars, goal, left, latches>>

\* Whom the walk through the queue takes: the first waiter alone if it is to
\* have the lock exclusively; else all that want to share it, with the first
\* that wants it share-exclusively.
Woken(wake_exclusive) ==
  IF queue # <<>> /\ wake_exclusive /\ mode[Head(queue)] = "exclusive"
  THEN {Head(queue)}
  ELSE {queue[i] : i \in {j \in DOMAIN queue :
          \/ mode[queue[j]] = "share"
          \/ /\ mode[queue[j]] = "share_exclusive"
             /\ \A k \in 1 .. j - 1 : mode[queue[k]] # "share_exclusive"}}

\* In a critical section of the header spinlock.
BufferLockWakeup(p) ==
  /\ pc[p] \in {"wakeany", "wakeshare"} /\ header = None
  /\ LET woken == Woken(pc[p] = "wakeany")
     IN /\ queue' = Only(queue, Procs \ woken)
        /\ hasWaiters' = (hasWaiters /\ queue' # <<>>)
        /\ wakeInProgress' = (woken # {})
        /\ wakeup' = [wakeup EXCEPT ![p] = Only(queue, woken)]
        /\ lwWaiting' = [q \in Procs |-> IF q \in woken THEN "pending"
                                         ELSE lwWaiting[q]]
        /\ Goto(p, IF woken = {} THEN After(p) ELSE "wake")
  /\ UNCHANGED <<held, mode, sem, extraWaits, pinVars, goal, left, latches>>

\* The waiter may see this before the post, if its semaphore has another one.
WakeWaiter(p) ==
  /\ pc[p] = "wake"
  /\ lwWaiting' = [lwWaiting EXCEPT ![Head(wakeup[p])] = "no"]
  /\ Goto(p, "post")
  /\ UNCHANGED <<held, hasWaiters, wakeInProgress, queue, mode, semVars, pinVars,
                 goal, left, latches>>

SemaphoreUnlock(p) ==
  /\ pc[p] = "post"
  /\ sem' = [sem EXCEPT ![Head(wakeup[p])] = @ + 1]
  /\ wakeup' = [wakeup EXCEPT ![p] = Tail(@)]
  /\ Goto(p, IF Tail(wakeup[p]) = <<>> THEN After(p) ELSE "wake")
  /\ UNCHANGED <<lockVars, extraWaits, pinVars, goal, left, latches>>

-----------------------------------------------------------------------------
(***************************************************************************)
(* Locking without waiting.                                                *)
(***************************************************************************)
\* ConditionalLockBuffer, and ConditionalLockBufferForCleanup up to its check.
ConditionalLock(p) ==
  /\ pc[p] = "pinned" /\ left[p] > 0 /\ "conditional" \in Asks[p]
  /\ left' = [left EXCEPT ![p] = @ - 1]
  /\ \/ /\ Free("exclusive")
        /\ held' = [held EXCEPT ![p] = "exclusive"]
        /\ \E g \in {"lock", "try"} : goal' = [goal EXCEPT ![p] = g]
        /\ looked' = looked \cup {p}
        /\ Goto(p, "locked")
     \/ /\ ~Free("exclusive")
        /\ UNCHANGED <<held, goal, looked, pc>>
  /\ UNCHANGED <<hasWaiters, wakeInProgress, queue, lwWaiting, mode, semVars, pins,
                 pinWaiter, header, latch, latches>>

\* The rest of ConditionalLockBufferForCleanup, and IsBufferCleanupOK.
CheckPinsOnce(p) ==
  /\ pc[p] = "locked" /\ header = None
  /\ \/ goal[p] = "try"
     \/ goal[p] = "lock" /\ held[p] = "exclusive" /\ Cardinality(pins) = 1
  /\ Goto(p, IF Cardinality(pins) = 1 THEN "clean" ELSE "unlock")
  /\ UNCHANGED <<lockVars, semVars, pinVars, goal, left, latches>>

-----------------------------------------------------------------------------
(***************************************************************************)
(* LockBufferForCleanup, once it has the exclusive lock.                   *)
(***************************************************************************)
\* Mutant: a second pin is taken for an earlier one of the same process.
CheckPinsLoosely(p) ==
  /\ pc[p] = "locked" /\ goal[p] = "cleanup" /\ header = None
  /\ \/ /\ Cardinality(pins) <= 2
        /\ Goto(p, "clean")
        /\ UNCHANGED <<goal, header>>
     \/ /\ Cardinality(pins) > 2 /\ pinWaiter # None
        /\ Goto(p, "unlock")
        /\ goal' = [goal EXCEPT ![p] = "abort"]
        /\ UNCHANGED header
     \/ /\ Cardinality(pins) > 2 /\ pinWaiter = None
        /\ Goto(p, "mark")
        /\ header' = p
        /\ UNCHANGED goal
  /\ UNCHANGED <<lockVars, semVars, pins, pinWaiter, latch, looked, left, latches>>

\* The pin count is read when the header spinlock is taken.
CheckPins(p) ==
  /\ pc[p] = "locked" /\ goal[p] = "cleanup" /\ header = None
  /\ \/ /\ Cardinality(pins) = 1
        /\ Goto(p, "clean")
        /\ UNCHANGED <<goal, header>>
     \/ /\ Cardinality(pins) > 1 /\ pinWaiter # None
        /\ Goto(p, "unlock")
        /\ goal' = [goal EXCEPT ![p] = "abort"]
        /\ UNCHANGED header
     \/ /\ Cardinality(pins) > 1 /\ pinWaiter = None
        /\ Goto(p, "mark")
        /\ header' = p
        /\ UNCHANGED goal
  /\ UNCHANGED <<lockVars, semVars, pins, pinWaiter, latch, looked, left, latches>>

\* The flag is set, for whatever the pin count is now, when it is given up.
SetPinWaiter(p) ==
  /\ pc[p] = "mark"
  /\ pinWaiter' = p
  /\ header' = None
  /\ goal' = [goal EXCEPT ![p] = "wait"]
  /\ Goto(p, "unlock")
  /\ UNCHANGED <<lockVars, semVars, pins, latch, looked, left, latches>>

ProcWaitForSignal(p) ==
  /\ pc[p] = "wait" /\ latch[p]
  /\ latch' = [latch EXCEPT ![p] = FALSE]
  /\ Goto(p, "woken")
  /\ UNCHANGED <<lockVars, semVars, pins, pinWaiter, header, looked, goal, left,
                 latches>>

\* An interrupt instead: the error handler calls UnlockBuffers.  One that comes
\* after the latch was reset leaves it set.
CancelWait(p) ==
  /\ pc[p] = "wait"
  /\ \E set \in BOOLEAN : latch' = [latch EXCEPT ![p] = set]
  /\ goal' = [goal EXCEPT ![p] = "abort"]
  /\ Goto(p, "woken")
  /\ UNCHANGED <<lockVars, semVars, pins, pinWaiter, header, looked, left, latches>>

\* Another waiter's flag is left alone.
ClearFlag(p) == pinWaiter' = IF pinWaiter = p THEN None ELSE pinWaiter

ForgetPinWaiter(p) ==
  /\ pc[p] = "woken" /\ goal[p] = "wait" /\ header = None
  /\ ClearFlag(p)
  /\ goal' = [goal EXCEPT ![p] = "cleanup"]
  /\ Goto(p, "attempt")
  /\ UNCHANGED <<lockVars, semVars, pins, header, latch, looked, left, latches>>

UnlockBuffers(p) ==
  /\ pc[p] = "woken" /\ goal[p] = "abort" /\ header = None
  /\ ClearFlag(p)
  /\ Goto(p, "abort")
  /\ UNCHANGED <<lockVars, semVars, pins, header, latch, looked, goal, left, latches>>

\* A latch is set for another reason.
StrayLatch(p) ==
  /\ pc[p] = "wait" /\ ~latch[p] /\ latches > 0
  /\ latch' = [latch EXCEPT ![p] = TRUE]
  /\ latches' = latches - 1
  /\ UNCHANGED <<lockVars, semVars, pins, pinWaiter, header, looked, pc, goal, left>>

-----------------------------------------------------------------------------
\* The steps a process takes once it has begun something.
Goes(p) ==
  \/ UnpinBuffer(p) \/ WakePinCountWaiter(p) \/ ProcSendSignal(p)
  \/ AttemptLock(p) \/ QueueSelf(p) \/ AttemptAgain(p) \/ DequeueSelf(p)
  \/ ClearWakeInProgress(p) \/ SemaphoreLock(p)
  \/ Unlock(p) \/ BufferLockWakeup(p) \/ WakeWaiter(p) \/ SemaphoreUnlock(p)
  \/ CheckPinsOnce(p) \/ CheckPins(p) \/ SetPinWaiter(p)
  \/ ProcWaitForSignal(p) \/ ForgetPinWaiter(p) \/ UnlockBuffers(p)

\* And those that begin something, or come from outside.
Begins(p) ==
  PinBuffer(p) \/ LockBuffer(p) \/ ConditionalLock(p) \/ CancelWait(p) \/ StrayLatch(p)

Next == \E p \in Procs : Goes(p) \/ Begins(p)

Spec == Init /\ [][Next]_vars

(***************************************************************************)
(* Every process that has begun something goes on with it; in particular   *)
(* nobody keeps a content lock or a pin for ever.                          *)
(***************************************************************************)
FairSpec == Spec /\ \A p \in Procs : WF_vars(Goes(p))

-----------------------------------------------------------------------------
(***************************************************************************)
(* Who holds the cleanup lock is the only one that may have a pointer into *)
(* the page: nobody else has both looked at it and kept its pin, although  *)
(* others may pin it at any time ("It's OK if a pin is added after the     *)
(* cleanup starts").                                                       *)
(***************************************************************************)
CleanupAlone ==
  \A p \in Procs : pc[p] = "clean" => held[p] = "exclusive" /\ looked = {p}

\* Posts still owed to p by wakers that have already reset its lwWaiting.
Owed(p) == Cardinality({q \in Procs : pc[q] = "post" /\ Head(wakeup[q]) = p})

Acquiring == {"queue", "again", "dequeue", "reopen", "absorb", "sleep", "retry", "attempt"}

(***************************************************************************)
(* Whoever is not acquiring the lock is in no wait queue and on nobody's   *)
(* list, and its semaphore has the posts it had before: whatever races     *)
(* with the second attempt, BufferLockDequeueSelf and BufferLockAcquire    *)
(* absorb one post for each wake-up and give back the others.  The flag    *)
(* BM_LOCK_HAS_WAITERS says whether the queue is empty, and nobody enters  *)
(* the queue while it waits already (the PANIC of BufferLockQueueSelf).    *)
(***************************************************************************)
WakeupsBalanced ==
  /\ hasWaiters <=> queue # <<>>
  /\ \A p \in Procs : p \in Members(queue) <=> lwWaiting[p] = "waiting"
  /\ \A p \in Procs : pc[p] = "queue" => lwWaiting[p] = "no"
  /\ \A p \in Procs : pc[p] \notin Acquiring =>
       /\ lwWaiting[p] = "no"
       /\ sem[p] + Owed(p) = Base(p)

(***************************************************************************)
(* No lost wake-up: who sleeps for the content lock gets it, although a    *)
(* release leaves waiters alone while BM_LOCK_WAKE_IN_PROGRESS is set and  *)
(* woken waiters compete with newcomers.                                   *)
(***************************************************************************)
SleepersGetLock == \A p \in Procs : pc[p] = "sleep" ~> pc[p] = "locked"

(***************************************************************************)
(* A process that waits for the cleanup lock while another one has the     *)
(* page pinned is woken (UnpinBuffer, WakePinCountWaiter).                 *)
(***************************************************************************)
CleanupWoken ==
  \A p \in Procs : (pc[p] = "wait" /\ pins # {p}) ~> pc[p] # "wait"

(***************************************************************************)
(* LockBufferForCleanup waits "to be signaled by UnpinBuffer()": if no     *)
(* other pin is left, the signal has been sent or is about to be.          *)
(***************************************************************************)
CleanupSignalled ==
  \A p \in Procs :
    pc[p] = "wait" /\ pins = {p}
      => latch[p] \/ \E q \in Procs : pc[q] \in {"wakepin", "signal"}
=============================================================================
