------------------------- MODULE ContentLockProofs -------------------------
(***************************************************************************)
(* The content lock excludes whom it must, whoever holds the cleanup lock  *)
(* is alone with the page, and every wake-up is absorbed exactly once: for *)
(* any number of processes, whatever they ask for and whatever posts are   *)
(* left over in their semaphores.                                          *)
(***************************************************************************)
EXTENDS ContentLock, FiniteSetTheorems, TLAPS

USE ContentLockAssumption

Places == Acquiring \cup
  {"out", "pinned", "wakepin", "signal", "locked", "clean", "unlock", "mark",
   "wakeany", "wakeshare", "wake", "post", "wait", "woken", "abort"}

TypeOK ==
  /\ held \in [Procs -> Modes \cup {None}]
  /\ hasWaiters \in BOOLEAN
  /\ queue \in Seq(Procs)
  /\ lwWaiting \in [Procs -> {"no", "waiting", "pending"}]
  /\ mode \in [Procs -> Modes]
  /\ sem \in [Procs -> Nat] /\ extraWaits \in [Procs -> Nat]
  /\ wakeup \in [Procs -> Seq(Procs)]
  /\ pins \subseteq Procs /\ pinWaiter \in Procs \cup {None}
  /\ pc \in [Procs -> Places]
  /\ goal \in [Procs -> {"lock", "cleanup", "try", "wait", "abort"}]

\* Where a process has the lock: from a successful attempt to the release.
Holding == {"dequeue", "reopen", "absorb", "locked", "clean", "unlock", "mark"}

\* An exclusive lock excludes every other.
LockInv ==
  /\ \A p \in Procs : held[p] # None <=> pc[p] \in Holding
  /\ \A p, q \in Procs : held[p] = "exclusive" /\ held[q] # None => p = q

\* Who has locked the page and has its pin still is in looked.
PinInv ==
  /\ pins = {p \in Procs : pc[p] \notin {"out", "wakepin", "signal"}}
  /\ looked \subseteq pins
  /\ \A p \in Procs : pc[p] \in {"locked", "clean", "unlock", "mark"} => p \in looked

\* Who checks the pin count has the lock exclusively.
GoalInv ==
  \A p \in Procs :
    /\ goal[p] \in {"cleanup", "wait"} => mode[p] = "exclusive"
    /\ pc[p] \in Acquiring => goal[p] \in {"lock", "cleanup"}
    /\ pc[p] \in {"dequeue", "reopen", "absorb"} => held[p] = mode[p]
    /\ pc[p] = "locked" /\ goal[p] \in {"cleanup", "try"} => held[p] = "exclusive"
    /\ pc[p] = "mark" => goal[p] = "cleanup"

CleanupInv == TypeOK /\ LockInv /\ PinInv /\ GoalInv /\ CleanupAlone

-----------------------------------------------------------------------------
\* Between BufferLockQueueSelf and the last PGSemaphoreLock.
Waits == {"again", "dequeue", "reopen", "absorb", "sleep"}

\* The waiters on q's list whose lwWaiting q has still to reset.
Pending(q) ==
  IF pc[q] = "wake" THEN DOMAIN wakeup[q]
  ELSE IF pc[q] = "post" THEN DOMAIN wakeup[q] \ {1}
  ELSE {}

QueueInv ==
  /\ hasWaiters <=> queue # <<>>
  /\ \A p \in Procs : p \in Members(queue) <=> lwWaiting[p] = "waiting"
  /\ \A i, j \in DOMAIN queue : queue[i] = queue[j] => i = j
  /\ \A p \in Procs : lwWaiting[p] # "no" => pc[p] \in Waits

\* Who is taken off the queue is on one list, once.
ListInv ==
  /\ \A q \in Procs : pc[q] \in {"wake", "post", "signal"} => wakeup[q] # <<>>
  /\ \A q \in Procs : \A i \in Pending(q) : lwWaiting[wakeup[q][i]] = "pending"
  /\ \A q, r \in Procs : \A i \in Pending(q), j \in Pending(r) :
       wakeup[q][i] = wakeup[r][j] => q = r /\ i = j

Posts == [p \in Procs |-> Owed(p)]

\* One post too many, made or owed, for a wake-up seen and not yet absorbed.
Seen(p) == IF lwWaiting[p] = "no" /\ pc[p] \in Waits THEN 1 ELSE 0

CountInv ==
  \A p \in Procs :
    /\ sem[p] + extraWaits[p] + Posts[p] = Base(p) + Seen(p)
    /\ pc[p] \notin Acquiring => extraWaits[p] = 0

WakeupInv == QueueInv /\ ListInv /\ CountInv

IInv == CleanupInv /\ WakeupInv

-----------------------------------------------------------------------------
(***************************************************************************)
(* Only.                                                                   *)
(***************************************************************************)
\* Taking members off a queue (proclist_delete in a walk through it) keeps
\* exactly the others, once each.
LEMMA OnlyKeeps ==
  ASSUME NEW s \in Seq(Procs), NEW W
  PROVE  /\ Only(s, W) \in Seq(Procs)
         /\ Members(Only(s, W)) = Members(s) \cap W
         /\ (\A i, j \in DOMAIN s : s[i] = s[j] => i = j)
              => \A i, j \in DOMAIN Only(s, W) :
                   Only(s, W)[i] = Only(s, W)[j] => i = j
<1> DEFINE at == {i \in DOMAIN s : s[i] \in W}
           Upto(n) == Cardinality({i \in at : i <= n})
           N == Cardinality(at)
           f == [i \in at |-> Upto(i)]
           Place(k) == CHOOSE i \in at : Upto(i) = k
           r == [k \in 1 .. N |-> s[Place(k)]]
<1>1. Only(s, W) = r
  BY DEF Only
<1>2. DOMAIN s = 1 .. Len(s) /\ Len(s) \in Nat
  OBVIOUS
<1>3. at \subseteq 1 .. Len(s) /\ at \subseteq Nat
  BY <1>2
<1>4. IsFiniteSet(at) /\ N \in Nat
  <2>1. IsFiniteSet(1 .. Len(s))
    BY <1>2, FS_Interval
  <2>2. IsFiniteSet(at)
    BY <2>1, <1>3, FS_Subset
  <2> QED BY <2>2, FS_CardinalityType
<1>5. \A i \in at : Upto(i) \in 1 .. N
  <2> SUFFICES ASSUME NEW i \in at PROVE Upto(i) \in 1 .. N
    OBVIOUS
  <2> DEFINE U == {j \in at : j <= i}
  <2>1. U \in SUBSET at /\ i \in U
    BY <1>3
  <2>2. IsFiniteSet(U) /\ Cardinality(U) <= N /\ Cardinality(U) \in Nat
    BY <2>1, <1>4, FS_Subset, FS_CardinalityType
  <2>3. Cardinality(U) # 0
    BY <2>1, <2>2, FS_EmptySet
  <2> QED BY <2>2, <2>3, <1>4
<1>6. \A i, j \in at : i < j => Upto(i) < Upto(j)
  <2> SUFFICES ASSUME NEW i \in at, NEW j \in at, i < j
               PROVE  Upto(i) < Upto(j)
    OBVIOUS
  <2> DEFINE U == {k \in at : k <= i}
             V == {k \in at : k <= j}
  <2>1. U \in SUBSET at /\ V \in SUBSET at /\ j \notin U
    BY <1>3
  <2>2. IsFiniteSet(U) /\ IsFiniteSet(V)
    BY <2>1, <1>4, FS_Subset
  <2>3. U \cup {j} \in SUBSET V
    BY <1>3
  <2>4. Cardinality(U \cup {j}) = Cardinality(U) + 1
    BY <2>1, <2>2, FS_AddElement, Zenon
  <2>5. Cardinality(U \cup {j}) <= Cardinality(V)
    BY <2>2, <2>3, FS_Subset
  <2>6. Cardinality(U) \in Nat /\ Cardinality(V) \in Nat
    BY <2>2, FS_CardinalityType
  <2> QED BY <2>4, <2>5, <2>6
<1> HIDE DEF Upto, N
<1>7. f \in [at -> 1 .. N]
  BY <1>5
<1>8. f \in Injection(at, 1 .. N)
  <2>1. \A i, j \in at : f[i] = f[j] => i = j
    BY <1>3, <1>5, <1>6
  <2> QED BY <2>1, <1>7 DEF Injection, IsInjective
<1>9. f \in Surjection(at, 1 .. N)
  <2>1. IsFiniteSet(1 .. N) /\ Cardinality(1 .. N) = N
    BY <1>4, FS_Interval
  <2> QED BY <2>1, <1>8, FS_Injection DEF N
<1>10. \A k \in 1 .. N : \E i \in at : Upto(i) = k
  BY <1>9, Zenon DEF Surjection
<1>11. \A k \in 1 .. N : Place(k) \in at /\ Upto(Place(k)) = k
  BY <1>10
<1>12. \A i \in at : Place(Upto(i)) = i
  <2> SUFFICES ASSUME NEW i \in at PROVE Place(Upto(i)) = i
    OBVIOUS
  <2>1. Place(Upto(i)) \in at /\ Upto(Place(Upto(i))) = Upto(i)
    BY <1>5, <1>11
  <2> HIDE DEF Place
  <2> QED BY <2>1, <1>3, <1>5, <1>6
<1> HIDE DEF Place
<1>13. \A k \in 1 .. N : s[Place(k)] \in Procs \cap W
  BY <1>11
<1>14. r \in Seq(Procs) /\ DOMAIN r = 1 .. N
  BY <1>13, <1>4
<1>15. Members(r) = Members(s) \cap W
  <2>1. ASSUME NEW x \in Members(r) PROVE x \in Members(s) \cap W
    BY <2>1, <1>11, <1>13 DEF Members
  <2>2. ASSUME NEW x \in Members(s) \cap W PROVE x \in Members(r)
    <3>1. PICK i \in at : x = s[i]
      BY DEF Members
    <3>2. Upto(i) \in 1 .. N /\ r[Upto(i)] = x
      BY <3>1, <1>5, <1>12
    <3> QED BY <3>2, <1>14 DEF Members
  <2> QED BY <2>1, <2>2
<1>16. ASSUME \A i, j \in DOMAIN s : s[i] = s[j] => i = j
       PROVE  \A i, j \in DOMAIN r : r[i] = r[j] => i = j
  BY <1>16, <1>11, <1>14
<1> QED BY <1>1, <1>14, <1>15, <1>16

(***************************************************************************)
(* A sequence is empty if and only if it has no members.                   *)
(***************************************************************************)
LEMMA EmptyMembers ==
  ASSUME NEW s \in Seq(Procs)
  PROVE  s = <<>> <=> Members(s) = {}
<1>1. DOMAIN s = 1 .. Len(s) /\ Len(s) \in Nat
  OBVIOUS
<1>2. ASSUME Members(s) = {} PROVE s = <<>>
  <2>1. ~(1 \in DOMAIN s)
    BY <1>2 DEF Members
  <2>2. Len(s) = 0
    BY <2>1, <1>1
  <2> QED BY <2>2
<1>3. ASSUME s = <<>> PROVE Members(s) = {}
  BY <1>3, <1>1 DEF Members
<1> QED BY <1>2, <1>3

-----------------------------------------------------------------------------
(***************************************************************************)
(* What a step leaves alone.                                               *)
(***************************************************************************)
LEMMA PostsType == Posts \in [Procs -> Nat]
<1>1. \A x \in Procs : IsFiniteSet({q \in Procs : pc[q] = "post" /\ Head(wakeup[q]) = x})
  BY FS_Subset
<1> QED BY <1>1, FS_CardinalityType DEF Posts, Owed

\* No post is owed or made by a process that is not between the two halves of
\* a wake-up.
LEMMA PostsSame ==
  ASSUME \A q \in Procs : /\ pc'[q] = "post" <=> pc[q] = "post"
                          /\ pc[q] = "post" => wakeup'[q] = wakeup[q]
  PROVE  Posts' = Posts
<1>1. \A x \in Procs :
        {q \in Procs : pc'[q] = "post" /\ Head(wakeup'[q]) = x}
          = {q \in Procs : pc[q] = "post" /\ Head(wakeup[q]) = x}
  OBVIOUS
<1> QED BY <1>1, Zenon DEF Posts, Owed

(***************************************************************************)
(* A step away from the queue, the wake-up lists and the semaphores keeps  *)
(* the account of posts, if it moves no process into or out of the places  *)
(* where one waits or wakes.                                               *)
(***************************************************************************)
LEMMA WakeupFrame ==
  ASSUME TypeOK, WakeupInv, NEW p \in Procs, NEW l \in Places,
         pc' = [pc EXCEPT ![p] = l],
         UNCHANGED <<hasWaiters, queue, lwWaiting, sem, extraWaits>>,
         \A q \in Procs \ {p} : wakeup'[q] = wakeup[q],
         pc[p] \notin {"wake", "post"}, l \notin {"wake", "post"},
         l = "signal" => wakeup'[p] # <<>>,
         l \in Waits <=> pc[p] \in Waits,
         l \notin Acquiring => extraWaits[p] = 0
  PROVE  WakeupInv'
<1>1. \A q \in Procs : pc'[q] = IF q = p THEN l ELSE pc[q]
  BY DEF TypeOK
<1>2. QueueInv'
  BY <1>1 DEF WakeupInv, QueueInv
<1>3. ListInv'
  <2>1. \A q \in Procs : Pending(q)' = Pending(q)
    BY <1>1, Zenon DEF Pending
  <2>2. \A q \in Procs \ {p} : wakeup'[q] = wakeup[q]
    OBVIOUS
  <2>3. Pending(p) = {} /\ \A q \in Procs : Pending(q) # {} => wakeup'[q] = wakeup[q]
    BY <2>2 DEF Pending
  <2>4. (\A q \in Procs : \A i \in Pending(q) : lwWaiting[wakeup[q][i]] = "pending")'
    BY <2>1, <2>3 DEF WakeupInv, ListInv, Pending
  <2>5. (\A q, r \in Procs : \A i \in Pending(q), j \in Pending(r) :
           wakeup[q][i] = wakeup[r][j] => q = r /\ i = j)'
    BY <2>1, <2>3 DEF WakeupInv, ListInv, Pending
  <2>6. (\A q \in Procs : pc[q] \in {"wake", "post", "signal"} => wakeup[q] # <<>>)'
    BY <1>1 DEF WakeupInv, ListInv
  <2> QED BY <2>4, <2>5, <2>6 DEF ListInv
<1>4. CountInv'
  <2>1. Posts' = Posts
    BY <1>1, PostsSame
  <2> QED BY <2>1, <1>1 DEF WakeupInv, CountInv, Seen
<1> QED BY <1>2, <1>3, <1>4 DEF WakeupInv

(***************************************************************************)
(* A step that neither takes nor gives up the lock, a pin or a purpose     *)
(* keeps what is said of holders, pins and the cleanup lock.               *)
(***************************************************************************)
LEMMA CleanupFrame ==
  ASSUME CleanupInv, NEW p \in Procs, NEW l \in Places,
         pc' = [pc EXCEPT ![p] = l],
         UNCHANGED <<held, mode, goal, pins, looked>>,
         l \in Holding <=> pc[p] \in Holding,
         l \in {"out", "wakepin", "signal"} <=> pc[p] \in {"out", "wakepin", "signal"},
         l \in Acquiring => pc[p] \in Acquiring,
         l \in {"dequeue", "reopen", "absorb"} => pc[p] \in {"dequeue", "reopen", "absorb"},
         l \in {"locked", "clean", "unlock", "mark"} => pc[p] = l
  PROVE  (LockInv /\ PinInv /\ GoalInv /\ CleanupAlone)'
<1>1. \A q \in Procs : pc'[q] = IF q = p THEN l ELSE pc[q]
  BY DEF CleanupInv, TypeOK
<1>2. LockInv'
  BY <1>1 DEF CleanupInv, LockInv
<1>3. PinInv'
  BY <1>1 DEF CleanupInv, PinInv
<1>4. GoalInv'
  BY <1>1 DEF CleanupInv, GoalInv
<1>5. CleanupAlone'
  BY <1>1 DEF CleanupInv, CleanupAlone
<1> QED BY <1>2, <1>3, <1>4, <1>5

-----------------------------------------------------------------------------
(***************************************************************************)
(* The steps of a process by itself.                                       *)
(***************************************************************************)
\* A lock is granted if nobody has it exclusively, an exclusive one if nobody
\* has it at all.
LEMMA FreeExcludes ==
  ASSUME TypeOK, NEW m \in Modes, Free(m)
  PROVE  /\ \A q \in Procs : held[q] # "exclusive"
         /\ m = "exclusive" => \A q \in Procs : held[q] = None
<1>1. CASE m = "exclusive"
  BY <1>1 DEF Free, Modes
<1>2. CASE m = "share_exclusive"
  BY <1>2 DEF Free, Modes
<1>3. CASE m = "share"
  BY <1>3 DEF Free, Modes
<1> QED BY <1>1, <1>2, <1>3 DEF Modes

(***************************************************************************)
(* A lock taken when BufferLockAttempt finds it free keeps an exclusive    *)
(* one alone.                                                              *)
(***************************************************************************)
LEMMA Grant ==
  ASSUME CleanupInv, NEW p \in Procs, NEW m \in Modes, Free(m),
         NEW l \in Holding, l # "clean",
         held' = [held EXCEPT ![p] = m], pc' = [pc EXCEPT ![p] = l]
  PROVE  LockInv' /\ CleanupAlone'
<1>1. TypeOK
  BY DEF CleanupInv
<1>2. \A q \in Procs : held[q] # "exclusive" /\ (m = "exclusive" => held[q] = None)
  BY <1>1, FreeExcludes, Zenon
<1>3. m # None /\ \A q \in Procs : /\ held'[q] = IF q = p THEN m ELSE held[q]
                                   /\ pc'[q] = IF q = p THEN l ELSE pc[q]
  BY <1>1 DEF TypeOK
<1>4. LockInv'
  BY <1>2, <1>3 DEF CleanupInv, LockInv
<1>5. CleanupAlone'
  BY <1>2, <1>3 DEF CleanupInv, CleanupAlone
<1> QED BY <1>4, <1>5

\* If the page is pinned once, it is by whoever has it locked, and nobody else
\* has looked at it.
LEMMA OnlyPin ==
  ASSUME CleanupInv, NEW p \in Procs, pc[p] = "locked", Cardinality(pins) = 1
  PROVE  looked = {p}
<1>1. p \in looked /\ looked \subseteq pins /\ pins \subseteq Procs
  BY DEF CleanupInv, PinInv, TypeOK
<1>2. IsFiniteSet(pins)
  BY <1>1, FS_Subset
<1>3. \E x : pins = {x}
  BY <1>2, FS_Singleton, Zenon
<1> QED BY <1>1, <1>3


(***************************************************************************)
(* PinBuffer adds no one who has looked at the page.                       *)
(***************************************************************************)
LEMMA PinBufferStep ==
  ASSUME IInv, NEW p \in Procs, PinBuffer(p)
  PROVE  IInv'
<1> DEFINE l == "pinned"
<1>1. CleanupInv /\ WakeupInv /\ TypeOK
  BY Zenon DEF IInv, CleanupInv
<1>2. pc' = [pc EXCEPT ![p] = l] /\ l \in Places
  BY <1>1, Zenon DEF PinBuffer, Goto, lockVars, semVars, pinVars, TypeOK, Places, Acquiring
<1>3. TypeOK'
  BY <1>1, <1>2 DEF PinBuffer, Goto, lockVars, semVars, pinVars, TypeOK
<1>4. (LockInv /\ PinInv /\ GoalInv /\ CleanupAlone)'
  <2>1. LockInv'
    BY <1>1, <1>2 DEF PinBuffer, Goto, lockVars, semVars, pinVars, CleanupInv, TypeOK, LockInv, Holding
  <2>2. PinInv'
    BY <1>1, <1>2 DEF PinBuffer, Goto, lockVars, semVars, pinVars, CleanupInv, TypeOK, PinInv
  <2>3. GoalInv'
    BY <1>1, <1>2 DEF PinBuffer, Goto, lockVars, semVars, pinVars, CleanupInv, TypeOK, GoalInv, Acquiring
  <2>4. CleanupAlone'
    BY <1>1, <1>2 DEF PinBuffer, Goto, lockVars, semVars, pinVars, CleanupInv, TypeOK, CleanupAlone
  <2> QED BY <2>1, <2>2, <2>3, <2>4, Zenon
<1>5. WakeupInv'
  <2>1. pc[p] \notin Acquiring => extraWaits[p] = 0
    BY <1>1, Zenon DEF WakeupInv, CountInv
  <2> QED BY <2>1, <1>1, <1>2, WakeupFrame, Zenon DEF PinBuffer, Goto, lockVars, semVars, pinVars, TypeOK, Acquiring, Waits
<1> QED BY <1>3, <1>4, <1>5 DEF IInv, CleanupInv

(***************************************************************************)
(* Who unpins the page in UnpinBufferNoOwner keeps no pointer into it.     *)
(***************************************************************************)
LEMMA UnpinBufferStep ==
  ASSUME IInv, NEW p \in Procs, UnpinBuffer(p)
  PROVE  IInv'
<1> DEFINE l == (IF pinWaiter # None THEN "wakepin" ELSE "out")
<1>1. CleanupInv /\ WakeupInv /\ TypeOK
  BY DEF IInv, CleanupInv
<1>2. pc' = [pc EXCEPT ![p] = l] /\ l \in Places
  BY <1>1, Zenon DEF UnpinBuffer, Goto, lockVars, semVars, pinVars, TypeOK, Places, Acquiring
<1>3. TypeOK'
  BY <1>1, <1>2 DEF UnpinBuffer, Goto, lockVars, semVars, pinVars, TypeOK
<1>4. (LockInv /\ PinInv /\ GoalInv /\ CleanupAlone)'
  <2>1. LockInv'
    BY <1>1, <1>2 DEF UnpinBuffer, Goto, lockVars, semVars, pinVars, CleanupInv, TypeOK, LockInv, Holding
  <2>2. PinInv'
    BY <1>1, <1>2, Zenon DEF UnpinBuffer, Goto, lockVars, semVars, pinVars, CleanupInv, TypeOK, PinInv
  <2>3. GoalInv'
    BY <1>1, <1>2 DEF UnpinBuffer, Goto, lockVars, semVars, pinVars, CleanupInv, TypeOK, GoalInv, Acquiring
  <2>4. CleanupAlone'
    BY <1>1, <1>2 DEF UnpinBuffer, Goto, lockVars, semVars, pinVars, CleanupInv, TypeOK, CleanupAlone
  <2> QED BY <2>1, <2>2, <2>3, <2>4
<1>5. WakeupInv'
  <2>1. pc[p] \notin Acquiring => extraWaits[p] = 0
    BY <1>1 DEF WakeupInv, CountInv
  <2> QED BY <2>1, <1>1, <1>2, WakeupFrame, Zenon DEF UnpinBuffer, Goto, lockVars, semVars, pinVars, TypeOK, Acquiring, Waits
<1> QED BY <1>3, <1>4, <1>5 DEF IInv, CleanupInv

(***************************************************************************)
(* WakePinCountWaiter takes the waiter's name and hands it to the signal;  *)
(* nobody's lock or pin changes.                                           *)
(***************************************************************************)
LEMMA WakePinCountWaiterStep ==
  ASSUME IInv, NEW p \in Procs, WakePinCountWaiter(p)
  PROVE  IInv'
<1> DEFINE l == (IF pinWaiter # None /\ Cardinality(pins) = 1 THEN "signal" ELSE "out")
<1>1. CleanupInv /\ WakeupInv /\ TypeOK
  BY DEF IInv, CleanupInv
<1>2. pc' = [pc EXCEPT ![p] = l] /\ l \in Places
  BY <1>1, Zenon DEF WakePinCountWaiter, Goto, lockVars, semVars, pinVars, TypeOK, Places, Acquiring
<1>3. TypeOK'
  <2>1. pinWaiter' \in Procs \cup {None}
    BY <1>1 DEF WakePinCountWaiter, TypeOK
  <2>2. wakeup' \in [Procs -> Seq(Procs)]
    <3>1. CASE pinWaiter # None
      <4>1. <<pinWaiter>> \in Seq(Procs)
        BY <3>1, <1>1 DEF TypeOK
      <4> QED BY <4>1, <1>1, Zenon DEF WakePinCountWaiter, TypeOK
    <3>2. CASE pinWaiter = None
      BY <3>2, <1>1 DEF WakePinCountWaiter, TypeOK
    <3> QED BY <3>1, <3>2
  <2> QED BY <1>1, <1>2, <2>1, <2>2, Zenon DEF WakePinCountWaiter, TypeOK, lockVars
<1>4. (LockInv /\ PinInv /\ GoalInv /\ CleanupAlone)'
  BY <1>1, <1>2, CleanupFrame, Zenon DEF WakePinCountWaiter, Goto, lockVars, semVars, pinVars, Holding, Acquiring
<1>5. WakeupInv'
  <2>1. pc[p] \notin Acquiring => extraWaits[p] = 0
    BY <1>1 DEF WakeupInv, CountInv
  <2>2. \A q \in Procs \ {p} : wakeup'[q] = wakeup[q]
    BY <1>1 DEF WakePinCountWaiter, TypeOK
  <2>3. l = "signal" => wakeup'[p] # <<>>
    <3>1. l = "signal" => wakeup'[p] = <<pinWaiter>>
      BY <1>1 DEF WakePinCountWaiter, TypeOK
    <3>2. <<pinWaiter>> # <<>>
      BY Zenon
    <3> HIDE DEF l
    <3> QED BY <3>1, <3>2, Zenon
  <2> QED BY <2>1, <2>2, <2>3, <1>1, <1>2, WakeupFrame, Zenon
          DEF WakePinCountWaiter, lockVars, Acquiring, Waits
<1> QED BY <1>3, <1>4, <1>5 DEF IInv, CleanupInv

(***************************************************************************)
(* The signal to the pin-count waiter sets a latch and touches no          *)
(* semaphore.                                                              *)
(***************************************************************************)
LEMMA ProcSendSignalStep ==
  ASSUME IInv, NEW p \in Procs, ProcSendSignal(p)
  PROVE  IInv'
<1> DEFINE l == "out"
<1>1. CleanupInv /\ WakeupInv /\ TypeOK
  BY DEF IInv, CleanupInv
<1>2. pc' = [pc EXCEPT ![p] = l] /\ l \in Places
  BY <1>1 DEF ProcSendSignal, Goto, lockVars, semVars, pinVars, TypeOK, Places, Acquiring
<1>3. TypeOK'
  <2>1. wakeup' \in [Procs -> Seq(Procs)]
    <3>1. <<>> \in Seq(Procs)
      OBVIOUS
    <3> QED BY <1>1, <3>1, Zenon DEF ProcSendSignal, TypeOK
  <2> QED BY <1>1, <1>2, <2>1, Zenon DEF ProcSendSignal, lockVars, TypeOK
<1>4. (LockInv /\ PinInv /\ GoalInv /\ CleanupAlone)'
  BY <1>1, <1>2, CleanupFrame, Zenon DEF ProcSendSignal, Goto, lockVars, semVars, pinVars, Holding, Acquiring
<1>5. WakeupInv'
  <2>1. pc[p] \notin Acquiring => extraWaits[p] = 0
    BY <1>1 DEF WakeupInv, CountInv
  <2> QED BY <2>1, <1>1, <1>2, WakeupFrame, Zenon DEF ProcSendSignal, Goto, lockVars, semVars, pinVars, TypeOK, Acquiring, Waits
<1> QED BY <1>3, <1>4, <1>5 DEF IInv, CleanupInv

(***************************************************************************)
(* LockBuffer and LockBufferForCleanup begin an attempt in the mode they   *)
(* are asked for, exclusive for a cleanup.                                 *)
(***************************************************************************)
LEMMA LockBufferStep ==
  ASSUME IInv, NEW p \in Procs, LockBuffer(p)
  PROVE  IInv'
<1> DEFINE l == "attempt"
<1>1. CleanupInv /\ WakeupInv /\ TypeOK
  BY DEF IInv, CleanupInv
<1>2. pc' = [pc EXCEPT ![p] = l] /\ l \in Places
  BY <1>1, Zenon DEF LockBuffer, Goto, lockVars, semVars, pinVars, TypeOK, Places, Acquiring
<1>3. TypeOK'
  <2>1. PICK m \in Modes, g \in {"lock", "cleanup"} :
          mode' = [mode EXCEPT ![p] = m] /\ goal' = [goal EXCEPT ![p] = g]
    BY DEF LockBuffer, Modes
  <2>2. mode' \in [Procs -> Modes]
    BY <1>1, <2>1 DEF TypeOK
  <2>3. goal' \in [Procs -> {"lock", "cleanup", "try", "wait", "abort"}]
    BY <1>1, <2>1, Zenon DEF TypeOK
  <2> QED BY <1>1, <1>2, <2>2, <2>3, Zenon DEF LockBuffer, TypeOK, semVars, pinVars
<1>4. (LockInv /\ PinInv /\ GoalInv /\ CleanupAlone)'
  <2>1. LockInv'
    BY <1>1, <1>2 DEF LockBuffer, Goto, lockVars, semVars, pinVars, CleanupInv, TypeOK, LockInv, Holding
  <2>2. PinInv'
    BY <1>1, <1>2 DEF LockBuffer, Goto, lockVars, semVars, pinVars, CleanupInv, TypeOK, PinInv
  <2>3. GoalInv'
    BY <1>1, <1>2 DEF LockBuffer, Goto, lockVars, semVars, pinVars, CleanupInv, TypeOK, GoalInv, Acquiring
  <2>4. CleanupAlone'
    BY <1>1, <1>2 DEF LockBuffer, Goto, lockVars, semVars, pinVars, CleanupInv, TypeOK, CleanupAlone
  <2> QED BY <2>1, <2>2, <2>3, <2>4
<1>5. WakeupInv'
  <2>1. pc[p] \notin Acquiring => extraWaits[p] = 0
    BY <1>1 DEF WakeupInv, CountInv
  <2> QED BY <2>1, <1>1, <1>2, WakeupFrame, Zenon DEF LockBuffer, Goto, lockVars, semVars, pinVars, TypeOK, Acquiring, Waits
<1> QED BY <1>3, <1>4, <1>5 DEF IInv, CleanupInv

(***************************************************************************)
(* The second attempt of BufferLockAcquire, made from the queue, takes the *)
(* lock or goes to sleep; the place in the queue stays.                    *)
(***************************************************************************)
LEMMA AttemptAgainStep ==
  ASSUME IInv, NEW p \in Procs, AttemptAgain(p)
  PROVE  IInv'
<1> DEFINE l == (IF Free(mode[p]) THEN "dequeue" ELSE "sleep")
<1>1. CleanupInv /\ WakeupInv /\ TypeOK
  BY DEF IInv, CleanupInv
<1>2. pc' = [pc EXCEPT ![p] = l] /\ l \in Places
  BY <1>1 DEF AttemptAgain, Goto, lockVars, semVars, pinVars, Take, TypeOK, Places, Acquiring
<1>3. TypeOK'
  <2>1. held' \in [Procs -> Modes \cup {None}]
    BY <1>1, Zenon DEF AttemptAgain, Take, TypeOK
  <2> QED BY <1>1, <1>2, <2>1, Zenon DEF AttemptAgain, TypeOK, semVars, pinVars
<1>4. (LockInv /\ PinInv /\ GoalInv /\ CleanupAlone)'
  <2>1. LockInv'
    <3>1. CASE Free(mode[p])
      BY <3>1, <1>1, <1>2, Grant, Zenon DEF AttemptAgain, Take, TypeOK, Holding
    <3>2. CASE ~Free(mode[p])
      BY <3>2, <1>1, <1>2, Zenon DEF AttemptAgain, CleanupInv, TypeOK, LockInv, Holding
    <3> QED BY <3>1, <3>2
  <2>2. PinInv'
    BY <1>1, <1>2, Zenon DEF AttemptAgain, Goto, lockVars, semVars, pinVars, Take, CleanupInv, TypeOK, PinInv
  <2>3. GoalInv'
    BY <1>1, <1>2 DEF AttemptAgain, Goto, lockVars, semVars, pinVars, Take, CleanupInv, TypeOK, GoalInv, Acquiring
  <2>4. CleanupAlone'
    BY <1>1, <1>2 DEF AttemptAgain, Goto, lockVars, semVars, pinVars, Take, CleanupInv, TypeOK, CleanupAlone
  <2> QED BY <2>1, <2>2, <2>3, <2>4
<1>5. WakeupInv'
  <2>1. pc[p] \notin Acquiring => extraWaits[p] = 0
    BY <1>1 DEF WakeupInv, CountInv
  <2> QED BY <2>1, <1>1, <1>2, WakeupFrame, Zenon DEF AttemptAgain, Goto, lockVars, semVars, pinVars, Take, TypeOK, Acquiring, Waits
<1> QED BY <1>3, <1>4, <1>5 DEF IInv, CleanupInv

(***************************************************************************)
(* A woken process resets BM_LOCK_WAKE_IN_PROGRESS and changes nothing the *)
(* invariant speaks of.                                                    *)
(***************************************************************************)
LEMMA ClearWakeInProgressStep ==
  ASSUME IInv, NEW p \in Procs, ClearWakeInProgress(p)
  PROVE  IInv'
<1> DEFINE l == (IF pc[p] = "reopen" THEN "absorb" ELSE "attempt")
<1>1. CleanupInv /\ WakeupInv /\ TypeOK
  BY DEF IInv, CleanupInv
<1>2. pc' = [pc EXCEPT ![p] = l] /\ l \in Places
  BY <1>1 DEF ClearWakeInProgress, Goto, lockVars, semVars, pinVars, TypeOK, Places, Acquiring
<1>3. TypeOK'
  BY <1>1, <1>2 DEF ClearWakeInProgress, Goto, lockVars, semVars, pinVars, TypeOK
<1>4. (LockInv /\ PinInv /\ GoalInv /\ CleanupAlone)'
  BY <1>1, <1>2, CleanupFrame, Zenon DEF ClearWakeInProgress, Goto, lockVars, semVars, pinVars, Holding, Acquiring
<1>5. WakeupInv'
  <2>1. pc[p] \notin Acquiring => extraWaits[p] = 0
    BY <1>1 DEF WakeupInv, CountInv
  <2> QED BY <2>1, <1>1, <1>2, WakeupFrame, Zenon DEF ClearWakeInProgress, Goto, lockVars, semVars, pinVars, TypeOK, Acquiring, Waits
<1> QED BY <1>3, <1>4, <1>5 DEF IInv, CleanupInv

(***************************************************************************)
(* A conditional lock is taken at once or not at all, without the queue.   *)
(***************************************************************************)
LEMMA ConditionalLockStep ==
  ASSUME IInv, NEW p \in Procs, ConditionalLock(p)
  PROVE  IInv'
<1> DEFINE l == (IF Free("exclusive") THEN "locked" ELSE "pinned")
<1>1. CleanupInv /\ WakeupInv /\ TypeOK
  BY DEF IInv, CleanupInv
<1>2. pc' = [pc EXCEPT ![p] = l] /\ l \in Places
  BY <1>1 DEF ConditionalLock, Goto, lockVars, semVars, pinVars, TypeOK, Places, Acquiring
<1>3. TypeOK'
  <2>1. held' \in [Procs -> Modes \cup {None}]
    BY <1>1, Zenon DEF ConditionalLock, TypeOK, Modes
  <2>2. goal' \in [Procs -> {"lock", "cleanup", "try", "wait", "abort"}]
    BY <1>1, Zenon DEF ConditionalLock, TypeOK
  <2> QED BY <1>1, <1>2, <2>1, <2>2, Zenon DEF ConditionalLock, TypeOK, semVars
<1>4. (LockInv /\ PinInv /\ GoalInv /\ CleanupAlone)'
  <2>1. LockInv'
    <3>1. CASE Free("exclusive")
      BY <3>1, <1>1, <1>2, Grant, Zenon DEF ConditionalLock, Holding, Modes
    <3>2. CASE ~Free("exclusive")
      BY <3>2, <1>1, <1>2, Zenon DEF ConditionalLock, CleanupInv, TypeOK, LockInv, Holding
    <3> QED BY <3>1, <3>2
  <2>2. PinInv'
    <3>1. CASE Free("exclusive")
      BY <3>1, <1>1, <1>2, Zenon DEF ConditionalLock, CleanupInv, TypeOK, PinInv
    <3>2. CASE ~Free("exclusive")
      BY <3>2, <1>1, Zenon DEF ConditionalLock, CleanupInv, PinInv
    <3> QED BY <3>1, <3>2, Zenon
  <2>3. GoalInv'
    <3>1. CASE Free("exclusive")
      <4>1. \A q \in Procs \ {p} :
              pc'[q] = pc[q] /\ goal'[q] = goal[q] /\ held'[q] = held[q]
        BY <3>1, <1>1, <1>2, Zenon DEF ConditionalLock, TypeOK
      <4>2. /\ pc'[p] = "locked" /\ goal'[p] \in {"lock", "try"}
            /\ held'[p] = "exclusive" /\ UNCHANGED mode
        BY <3>1, <1>1, Zenon DEF ConditionalLock, Goto, TypeOK
      <4> QED BY <1>1, <4>1, <4>2, Zenon DEF CleanupInv, GoalInv, Acquiring
    <3>2. CASE ~Free("exclusive")
      BY <3>2, <1>1, Zenon DEF ConditionalLock, CleanupInv, GoalInv
    <3> QED BY <3>1, <3>2, Zenon
  <2>4. CleanupAlone'
    <3>1. CASE Free("exclusive")
      BY <3>1, <1>1, <1>2, Grant, Zenon DEF ConditionalLock, Holding, Modes
    <3>2. CASE ~Free("exclusive")
      BY <3>2, <1>1, <1>2 DEF ConditionalLock, CleanupInv, TypeOK, CleanupAlone
    <3> QED BY <3>1, <3>2
  <2> QED BY <2>1, <2>2, <2>3, <2>4
<1>5. WakeupInv'
  <2>1. pc[p] \notin Acquiring => extraWaits[p] = 0
    BY <1>1 DEF WakeupInv, CountInv
  <2> QED BY <2>1, <1>1, <1>2, WakeupFrame, ZenonT(60) DEF ConditionalLock, Goto, lockVars, semVars, pinVars, TypeOK, Acquiring, Waits
<1> QED BY <1>3, <1>4, <1>5 DEF IInv, CleanupInv

(***************************************************************************)
(* ConditionalLockBufferForCleanup has the cleanup lock if its pin is the  *)
(* only one, and else releases.                                            *)
(***************************************************************************)
LEMMA CheckPinsOnceStep ==
  ASSUME IInv, NEW p \in Procs, CheckPinsOnce(p)
  PROVE  IInv'
<1> DEFINE l == (IF Cardinality(pins) = 1 THEN "clean" ELSE "unlock")
<1>1. CleanupInv /\ WakeupInv /\ TypeOK
  BY DEF IInv, CleanupInv
<1>2. pc' = [pc EXCEPT ![p] = l] /\ l \in Places
  BY <1>1, Zenon DEF CheckPinsOnce, Goto, lockVars, semVars, pinVars, TypeOK, Places, Acquiring
<1>3. TypeOK'
  BY <1>1, <1>2 DEF CheckPinsOnce, Goto, lockVars, semVars, pinVars, TypeOK
<1>4. (LockInv /\ PinInv /\ GoalInv /\ CleanupAlone)'
  <2>1. LockInv'
    BY <1>1, <1>2 DEF CheckPinsOnce, Goto, lockVars, semVars, pinVars, CleanupInv, TypeOK, LockInv, Holding
  <2>2. PinInv'
    BY <1>1, <1>2 DEF CheckPinsOnce, Goto, lockVars, semVars, pinVars, CleanupInv, TypeOK, PinInv
  <2>3. GoalInv'
    BY <1>1, <1>2 DEF CheckPinsOnce, Goto, lockVars, semVars, pinVars, CleanupInv, TypeOK, GoalInv, Acquiring
  <2>4. CleanupAlone'
    <3>1. l = "clean" => held[p] = "exclusive" /\ looked = {p}
      BY <1>1, OnlyPin DEF CheckPinsOnce, CleanupInv, GoalInv
    <3>2. \A q \in Procs : pc'[q] = IF q = p THEN l ELSE pc[q]
      BY <1>1, <1>2 DEF TypeOK
    <3>3. UNCHANGED <<held, looked>>
      BY DEF CheckPinsOnce, lockVars, pinVars
    <3> QED BY <1>1, <3>1, <3>2, <3>3, Zenon DEF CleanupInv, CleanupAlone
  <2> QED BY <2>1, <2>2, <2>3, <2>4
<1>5. WakeupInv'
  <2>1. extraWaits[p] = 0
    BY <1>1 DEF CheckPinsOnce, WakeupInv, CountInv, Acquiring
  <2>2. l \in {"clean", "unlock"}
    BY Zenon
  <2> HIDE DEF l
  <2> QED BY <2>1, <2>2, <1>1, <1>2, WakeupFrame, Zenon
          DEF CheckPinsOnce, lockVars, semVars, Acquiring, Waits
<1> QED BY <1>3, <1>4, <1>5 DEF IInv, CleanupInv

(***************************************************************************)
(* LockBufferForCleanup has the cleanup lock if its pin is the only one;   *)
(* else it goes on to register as the waiter, or gives up when somebody    *)
(* else waits already.                                                     *)
(***************************************************************************)
LEMMA CheckPinsStep ==
  ASSUME IInv, NEW p \in Procs, CheckPins(p)
  PROVE  IInv'
<1> DEFINE l == (IF Cardinality(pins) = 1 THEN "clean" ELSE IF pinWaiter # None THEN "unlock" ELSE "mark")
<1>1. CleanupInv /\ WakeupInv /\ TypeOK
  BY DEF IInv, CleanupInv
<1>2. pc' = [pc EXCEPT ![p] = l] /\ l \in Places
  BY <1>1 DEF CheckPins, Goto, lockVars, semVars, pinVars, TypeOK, Places, Acquiring
<1>3. TypeOK'
  <2>1. goal' \in [Procs -> {"lock", "cleanup", "try", "wait", "abort"}]
    BY <1>1, ZenonT(60) DEF CheckPins, TypeOK
  <2> QED BY <1>1, <1>2, <2>1, Zenon DEF CheckPins, TypeOK, lockVars, semVars
<1>4. (LockInv /\ PinInv /\ GoalInv /\ CleanupAlone)'
  <2>1. LockInv'
    BY <1>1, <1>2, Zenon DEF CheckPins, Goto, lockVars, semVars, pinVars, CleanupInv, TypeOK, LockInv, Holding
  <2>2. PinInv'
    BY <1>1, <1>2 DEF CheckPins, Goto, lockVars, semVars, pinVars, CleanupInv, TypeOK, PinInv
  <2>3. GoalInv'
    <3>1. /\ pc[p] = "locked" /\ goal[p] = "cleanup" /\ UNCHANGED <<mode, held>>
          /\ \A q \in Procs \ {p} : pc'[q] = pc[q] /\ goal'[q] = goal[q]
      <4>1. goal' = goal \/ goal' = [goal EXCEPT ![p] = "abort"]
        BY Zenon DEF CheckPins
      <4>2. \A q \in Procs \ {p} : goal'[q] = goal[q]
        BY <1>1, <4>1, Zenon DEF TypeOK
      <4>3. \A q \in Procs \ {p} : pc'[q] = pc[q]
        BY <1>1, <1>2, Zenon DEF TypeOK
      <4> QED BY <4>2, <4>3, Zenon DEF CheckPins, lockVars
    <3>2. /\ pc'[p] \in {"clean", "unlock", "mark"} /\ goal'[p] \in {"cleanup", "abort"}
          /\ pc'[p] = "mark" => goal'[p] = "cleanup"
      BY <1>1, <3>1, Zenon DEF CheckPins, Goto, TypeOK
    <3> QED BY <1>1, <3>1, <3>2, Zenon DEF CleanupInv, GoalInv, Acquiring
  <2>4. CleanupAlone'
    <3>1. l = "clean" => held[p] = "exclusive" /\ looked = {p}
      BY <1>1, OnlyPin DEF CheckPins, CleanupInv, GoalInv
    <3>2. \A q \in Procs : pc'[q] = IF q = p THEN l ELSE pc[q]
      BY <1>1, <1>2 DEF TypeOK
    <3>3. UNCHANGED <<held, looked>>
      BY DEF CheckPins, lockVars, pinVars
    <3> QED BY <1>1, <3>1, <3>2, <3>3 DEF CleanupInv, CleanupAlone
  <2> QED BY <2>1, <2>2, <2>3, <2>4
<1>5. WakeupInv'
  <2>1. pc[p] \notin Acquiring => extraWaits[p] = 0
    BY <1>1 DEF WakeupInv, CountInv
  <2> QED BY <2>1, <1>1, <1>2, WakeupFrame, ZenonT(60) DEF CheckPins, Goto, lockVars, semVars, pinVars, TypeOK, Acquiring, Waits
<1> QED BY <1>3, <1>4, <1>5 DEF IInv, CleanupInv

(***************************************************************************)
(* The process registers as the waiter for the last other pin; it still    *)
(* has the exclusive lock.                                                 *)
(***************************************************************************)
LEMMA SetPinWaiterStep ==
  ASSUME IInv, NEW p \in Procs, SetPinWaiter(p)
  PROVE  IInv'
<1> DEFINE l == "unlock"
<1>1. CleanupInv /\ WakeupInv /\ TypeOK
  BY DEF IInv, CleanupInv
<1>2. pc' = [pc EXCEPT ![p] = l] /\ l \in Places
  BY <1>1 DEF SetPinWaiter, Goto, lockVars, semVars, pinVars, TypeOK, Places, Acquiring
<1>3. TypeOK'
  BY <1>1, <1>2 DEF SetPinWaiter, Goto, lockVars, semVars, pinVars, TypeOK
<1>4. (LockInv /\ PinInv /\ GoalInv /\ CleanupAlone)'
  <2>1. LockInv'
    BY <1>1, <1>2 DEF SetPinWaiter, Goto, lockVars, semVars, pinVars, CleanupInv, TypeOK, LockInv, Holding
  <2>2. PinInv'
    BY <1>1, <1>2 DEF SetPinWaiter, Goto, lockVars, semVars, pinVars, CleanupInv, TypeOK, PinInv
  <2>3. GoalInv'
    BY <1>1, <1>2 DEF SetPinWaiter, Goto, lockVars, semVars, pinVars, CleanupInv, TypeOK, GoalInv, Acquiring
  <2>4. CleanupAlone'
    BY <1>1, <1>2 DEF SetPinWaiter, Goto, lockVars, semVars, pinVars, CleanupInv, TypeOK, CleanupAlone
  <2> QED BY <2>1, <2>2, <2>3, <2>4
<1>5. WakeupInv'
  <2>1. pc[p] \notin Acquiring => extraWaits[p] = 0
    BY <1>1 DEF WakeupInv, CountInv
  <2> QED BY <2>1, <1>1, <1>2, WakeupFrame, Zenon DEF SetPinWaiter, Goto, lockVars, semVars, pinVars, TypeOK, Acquiring, Waits
<1> QED BY <1>3, <1>4, <1>5 DEF IInv, CleanupInv

(***************************************************************************)
(* The wait for the signal ends with the latch, which is not the semaphore *)
(* of the content lock.                                                    *)
(***************************************************************************)
LEMMA ProcWaitForSignalStep ==
  ASSUME IInv, NEW p \in Procs, ProcWaitForSignal(p)
  PROVE  IInv'
<1> DEFINE l == "woken"
<1>1. CleanupInv /\ WakeupInv /\ TypeOK
  BY DEF IInv, CleanupInv
<1>2. pc' = [pc EXCEPT ![p] = l] /\ l \in Places
  BY <1>1, Zenon DEF ProcWaitForSignal, Goto, lockVars, semVars, pinVars, TypeOK, Places, Acquiring
<1>3. TypeOK'
  BY <1>1, <1>2 DEF ProcWaitForSignal, Goto, lockVars, semVars, pinVars, TypeOK
<1>4. (LockInv /\ PinInv /\ GoalInv /\ CleanupAlone)'
  BY <1>1, <1>2, CleanupFrame, Zenon DEF ProcWaitForSignal, Goto, lockVars, semVars, pinVars, Holding, Acquiring
<1>5. WakeupInv'
  <2>1. pc[p] \notin Acquiring => extraWaits[p] = 0
    BY <1>1 DEF WakeupInv, CountInv
  <2> QED BY <2>1, <1>1, <1>2, WakeupFrame, Zenon DEF ProcWaitForSignal, Goto, lockVars, semVars, pinVars, TypeOK, Acquiring, Waits
<1> QED BY <1>3, <1>4, <1>5 DEF IInv, CleanupInv

(***************************************************************************)
(* An interrupt that ends the wait for the signal leaves locks and pins as *)
(* they are.                                                               *)
(***************************************************************************)
LEMMA CancelWaitStep ==
  ASSUME IInv, NEW p \in Procs, CancelWait(p)
  PROVE  IInv'
<1> DEFINE l == "woken"
<1>1. CleanupInv /\ WakeupInv /\ TypeOK
  BY DEF IInv, CleanupInv
<1>2. pc' = [pc EXCEPT ![p] = l] /\ l \in Places
  BY <1>1, Zenon DEF CancelWait, Goto, lockVars, semVars, pinVars, TypeOK, Places, Acquiring
<1>3. TypeOK'
  BY <1>1, <1>2 DEF CancelWait, Goto, lockVars, semVars, pinVars, TypeOK
<1>4. (LockInv /\ PinInv /\ GoalInv /\ CleanupAlone)'
  <2>1. LockInv'
    BY <1>1, <1>2 DEF CancelWait, Goto, lockVars, semVars, pinVars, CleanupInv, TypeOK, LockInv, Holding
  <2>2. PinInv'
    BY <1>1, <1>2 DEF CancelWait, Goto, lockVars, semVars, pinVars, CleanupInv, TypeOK, PinInv
  <2>3. GoalInv'
    BY <1>1, <1>2 DEF CancelWait, Goto, lockVars, semVars, pinVars, CleanupInv, TypeOK, GoalInv, Acquiring
  <2>4. CleanupAlone'
    BY <1>1, <1>2 DEF CancelWait, Goto, lockVars, semVars, pinVars, CleanupInv, TypeOK, CleanupAlone
  <2> QED BY <2>1, <2>2, <2>3, <2>4
<1>5. WakeupInv'
  <2>1. pc[p] \notin Acquiring => extraWaits[p] = 0
    BY <1>1 DEF WakeupInv, CountInv
  <2> QED BY <2>1, <1>1, <1>2, WakeupFrame, ZenonT(60) DEF CancelWait, Goto, lockVars, semVars, pinVars, TypeOK, Acquiring, Waits
<1> QED BY <1>3, <1>4, <1>5 DEF IInv, CleanupInv

(***************************************************************************)
(* After the wait, and in UnlockBuffers, the registration is taken back.   *)
(***************************************************************************)
LEMMA ForgetPinWaiterStep ==
  ASSUME IInv, NEW p \in Procs, ForgetPinWaiter(p)
  PROVE  IInv'
<1> DEFINE l == "attempt"
<1>1. CleanupInv /\ WakeupInv /\ TypeOK
  BY DEF IInv, CleanupInv
<1>2. pc' = [pc EXCEPT ![p] = l] /\ l \in Places
  BY <1>1, Zenon DEF ForgetPinWaiter, Goto, lockVars, semVars, pinVars, ClearFlag, TypeOK, Places, Acquiring
<1>3. TypeOK'
  BY <1>1, <1>2 DEF ForgetPinWaiter, Goto, lockVars, semVars, pinVars, ClearFlag, TypeOK
<1>4. (LockInv /\ PinInv /\ GoalInv /\ CleanupAlone)'
  <2>1. LockInv'
    BY <1>1, <1>2 DEF ForgetPinWaiter, Goto, lockVars, semVars, pinVars, ClearFlag, CleanupInv, TypeOK, LockInv, Holding
  <2>2. PinInv'
    BY <1>1, <1>2, Zenon DEF ForgetPinWaiter, Goto, lockVars, semVars, pinVars, ClearFlag, CleanupInv, TypeOK, PinInv
  <2>3. GoalInv'
    BY <1>1, <1>2 DEF ForgetPinWaiter, Goto, lockVars, semVars, pinVars, ClearFlag, CleanupInv, TypeOK, GoalInv, Acquiring
  <2>4. CleanupAlone'
    BY <1>1, <1>2 DEF ForgetPinWaiter, Goto, lockVars, semVars, pinVars, ClearFlag, CleanupInv, TypeOK, CleanupAlone
  <2> QED BY <2>1, <2>2, <2>3, <2>4
<1>5. WakeupInv'
  <2>1. pc[p] \notin Acquiring => extraWaits[p] = 0
    BY <1>1 DEF WakeupInv, CountInv
  <2> QED BY <2>1, <1>1, <1>2, WakeupFrame, Zenon DEF ForgetPinWaiter, Goto, lockVars, semVars, pinVars, ClearFlag, TypeOK, Acquiring, Waits
<1> QED BY <1>3, <1>4, <1>5 DEF IInv, CleanupInv

(***************************************************************************)
(* The clean-up after an error goes on to the unpin without a content      *)
(* lock.                                                                   *)
(***************************************************************************)
LEMMA UnlockBuffersStep ==
  ASSUME IInv, NEW p \in Procs, UnlockBuffers(p)
  PROVE  IInv'
<1> DEFINE l == "abort"
<1>1. CleanupInv /\ WakeupInv /\ TypeOK
  BY DEF IInv, CleanupInv
<1>2. pc' = [pc EXCEPT ![p] = l] /\ l \in Places
  BY <1>1, Zenon DEF UnlockBuffers, Goto, lockVars, semVars, pinVars, ClearFlag, TypeOK, Places, Acquiring
<1>3. TypeOK'
  BY <1>1, <1>2 DEF UnlockBuffers, Goto, lockVars, semVars, pinVars, ClearFlag, TypeOK
<1>4. (LockInv /\ PinInv /\ GoalInv /\ CleanupAlone)'
  BY <1>1, <1>2, CleanupFrame, Zenon DEF UnlockBuffers, Goto, lockVars, semVars, pinVars, ClearFlag, Holding, Acquiring
<1>5. WakeupInv'
  <2>1. pc[p] \notin Acquiring => extraWaits[p] = 0
    BY <1>1 DEF WakeupInv, CountInv
  <2> QED BY <2>1, <1>1, <1>2, WakeupFrame, Zenon DEF UnlockBuffers, Goto, lockVars, semVars, pinVars, ClearFlag, TypeOK, Acquiring, Waits
<1> QED BY <1>3, <1>4, <1>5 DEF IInv, CleanupInv

(***************************************************************************)
(* A latch that is set for another reason changes nothing here.            *)
(***************************************************************************)
LEMMA StrayLatchStep ==
  ASSUME IInv, NEW p \in Procs, StrayLatch(p)
  PROVE  IInv'
<1> DEFINE l == "wait"
<1>1. CleanupInv /\ WakeupInv /\ TypeOK
  BY DEF IInv, CleanupInv
<1>2. pc' = [pc EXCEPT ![p] = l] /\ l \in Places
  BY <1>1 DEF StrayLatch, Goto, lockVars, semVars, pinVars, TypeOK, Places, Acquiring
<1>3. TypeOK'
  BY <1>1, <1>2, Zenon DEF StrayLatch, Goto, lockVars, semVars, pinVars, TypeOK
<1>4. (LockInv /\ PinInv /\ GoalInv /\ CleanupAlone)'
  BY <1>1, <1>2, CleanupFrame, Zenon DEF StrayLatch, Goto, lockVars, semVars, pinVars, Holding, Acquiring
<1>5. WakeupInv'
  <2>1. pc[p] \notin Acquiring => extraWaits[p] = 0
    BY <1>1 DEF WakeupInv, CountInv
  <2> QED BY <2>1, <1>1, <1>2, WakeupFrame, Zenon DEF StrayLatch, Goto, lockVars, semVars, pinVars, TypeOK, Acquiring, Waits
<1> QED BY <1>3, <1>4, <1>5 DEF IInv, CleanupInv

(***************************************************************************)
(* BufferLockUnlock gives up the lock and nothing else.                    *)
(***************************************************************************)
LEMMA UnlockStep ==
  ASSUME IInv, NEW p \in Procs, Unlock(p)
  PROVE  IInv'
<1>1. CleanupInv /\ WakeupInv /\ TypeOK
  BY DEF IInv, CleanupInv
<1>2. PICK l \in {"wait", "abort", "pinned", "wakeany", "wakeshare"} :
        pc' = [pc EXCEPT ![p] = l]
  BY Zenon DEF Unlock, Release, Goto, After
<1>3. pc[p] \in {"clean", "unlock", "locked"} /\ held' = [held EXCEPT ![p] = None]
  BY DEF Unlock, Release
<1>4. TypeOK'
  <2>1. held' \in [Procs -> Modes \cup {None}]
    BY <1>1, <1>3 DEF TypeOK
  <2>2. pc' \in [Procs -> Places]
    BY <1>1, <1>2 DEF TypeOK, Places
  <2> QED BY <1>1, <2>1, <2>2 DEF Unlock, TypeOK, semVars, pinVars
<1>5. (LockInv /\ PinInv /\ GoalInv /\ CleanupAlone)'
  <2>1. LockInv'
    <3>1. \A q \in Procs : /\ held'[q] = IF q = p THEN None ELSE held[q]
                           /\ pc'[q] = IF q = p THEN l ELSE pc[q]
      BY <1>1, <1>2, <1>3 DEF TypeOK
    <3>2. (\A q \in Procs : held[q] # None <=> pc[q] \in Holding)'
      BY <1>1, <3>1 DEF CleanupInv, LockInv, Holding
    <3>3. \A q \in Procs : held'[q] # None => held'[q] = held[q]
      BY <3>1
    <3>4. (\A q, r \in Procs : held[q] = "exclusive" /\ held[r] # None => q = r)'
      BY <1>1, <3>1, <3>3 DEF CleanupInv, LockInv, Modes
    <3> QED BY <3>2, <3>4 DEF LockInv
  <2>2. PinInv'
    BY <1>1, <1>2, <1>3, ZenonT(60) DEF Unlock, pinVars, CleanupInv, TypeOK, PinInv
  <2>3. GoalInv'
    BY <1>1, <1>2, <1>3, ZenonT(60) DEF Unlock, CleanupInv, TypeOK, GoalInv, Acquiring
  <2>4. CleanupAlone'
    BY <1>1, <1>2, <1>3 DEF Unlock, pinVars, CleanupInv, TypeOK, CleanupAlone
  <2> QED BY <2>1, <2>2, <2>3, <2>4
<1>6. WakeupInv'
  <2>1. extraWaits[p] = 0
    BY <1>1, <1>3 DEF WakeupInv, CountInv, Acquiring
  <2>2. l \in Places
    BY Zenon DEF Places
  <2> QED BY <2>1, <2>2, <1>1, <1>2, <1>3, WakeupFrame, Zenon
          DEF Unlock, semVars, Acquiring, Waits
<1> QED BY <1>4, <1>5, <1>6 DEF IInv, CleanupInv

-----------------------------------------------------------------------------
(***************************************************************************)
(* The steps that move posts and wake-ups.                                 *)
(***************************************************************************)
\* The lists stay as they are for a step that is not about them.
LEMMA ListFrame ==
  ASSUME TypeOK, ListInv, NEW p \in Procs, NEW l,
         pc' = [pc EXCEPT ![p] = l], UNCHANGED wakeup,
         pc[p] \notin {"wake", "post"}, l \notin {"wake", "post", "signal"},
         \A q \in Procs : lwWaiting[q] = "pending" => lwWaiting'[q] = "pending"
  PROVE  ListInv' /\ Posts' = Posts
<1>1. \A q \in Procs : pc'[q] = IF q = p THEN l ELSE pc[q]
  BY DEF TypeOK
<1>2. \A q \in Procs : Pending(q)' = Pending(q)
  BY <1>1, Zenon DEF Pending
<1>3. \A q \in Procs : \A i \in Pending(q) : wakeup[q][i] \in Procs
  BY DEF TypeOK, Pending
<1>4. (\A q \in Procs : \A i \in Pending(q) : lwWaiting[wakeup[q][i]] = "pending")'
  BY <1>2, <1>3, Zenon DEF ListInv, Pending
<1>5. (\A q, r \in Procs : \A i \in Pending(q), j \in Pending(r) :
         wakeup[q][i] = wakeup[r][j] => q = r /\ i = j)'
  BY <1>2 DEF ListInv, Pending
<1>6. (\A q \in Procs : pc[q] \in {"wake", "post", "signal"} => wakeup[q] # <<>>)'
  BY <1>1 DEF ListInv
<1>7. Posts' = Posts
  BY <1>1, PostsSame
<1> QED BY <1>4, <1>5, <1>6, <1>7, Zenon DEF ListInv

\* Whoever gets the lock gives back the posts it absorbed for others: its
\* semaphore is as it was.
LEMMA LockedCounts ==
  ASSUME TypeOK, CountInv, NEW p \in Procs, NEW n \in Nat, Locked(p, n),
         Posts' = Posts, \A q \in Procs \ {p} : lwWaiting'[q] = lwWaiting[q],
         n + extraWaits[p] + Posts[p] = Base(p)
  PROVE  /\ CountInv'
         /\ sem' \in [Procs -> Nat] /\ extraWaits' \in [Procs -> Nat]
         /\ pc' = [pc EXCEPT ![p] = "locked"] /\ pc' \in [Procs -> Places]
         /\ looked' = looked \cup {p}
<1>1. sem' \in [Procs -> Nat] /\ extraWaits' \in [Procs -> Nat]
  BY DEF TypeOK, Locked
<1>2. pc' = [pc EXCEPT ![p] = "locked"] /\ pc' \in [Procs -> Places]
  BY DEF TypeOK, Locked, Goto, Places
<1>3. \A q \in Procs \ {p} : /\ sem'[q] = sem[q] /\ extraWaits'[q] = extraWaits[q]
                             /\ pc'[q] = pc[q]
  BY DEF TypeOK, Locked, Goto
<1>4. sem'[p] = n + extraWaits[p] /\ extraWaits'[p] = 0 /\ pc'[p] = "locked"
  BY DEF TypeOK, Locked, Goto
<1>5. CountInv'
  <2> SUFFICES ASSUME NEW q \in Procs
               PROVE  /\ sem'[q] + extraWaits'[q] + Posts'[q] = Base(q) + Seen(q)'
                      /\ pc'[q] \notin Acquiring => extraWaits'[q] = 0
    BY DEF CountInv
  <2>1. CASE q = p
    BY <2>1, <1>4, PostsType DEF Seen, Waits, TypeOK, Base
  <2>2. CASE q # p
    BY <2>2, <1>3 DEF CountInv, Seen
  <2> QED BY <2>1, <2>2, Zenon
<1> QED BY <1>1, <1>2, <1>5, Zenon DEF Locked

(***************************************************************************)
(* The first attempt of BufferLockAcquire takes a free lock and gives back *)
(* the posts absorbed by mistake, or goes on to the queue.                 *)
(***************************************************************************)
LEMMA AttemptLockStep ==
  ASSUME IInv, NEW p \in Procs, AttemptLock(p)
  PROVE  IInv'
<1>1. CleanupInv /\ WakeupInv /\ TypeOK /\ CountInv /\ ListInv /\ QueueInv
  BY DEF IInv, CleanupInv, WakeupInv
<1>2. CASE Free(mode[p])
  <2>1. /\ Take(p) /\ Locked(p, sem[p]) /\ pc[p] = "attempt"
        /\ UNCHANGED <<wakeup, pins, pinWaiter, hasWaiters, queue, lwWaiting, mode, goal>>
    BY <1>2 DEF AttemptLock
  <2>2. pc' = [pc EXCEPT ![p] = "locked"]
    BY <2>1 DEF Locked, Goto
  <2>3. ListInv' /\ Posts' = Posts
    BY <1>1, <2>1, <2>2, ListFrame, Zenon
  <2>4. sem[p] + extraWaits[p] + Posts[p] = Base(p)
    <3>1. Seen(p) = 0 /\ Base(p) \in Nat
      BY <2>1 DEF Seen, Waits, Base
    <3> QED BY <1>1, <3>1 DEF CountInv
  <2>5. /\ CountInv' /\ sem' \in [Procs -> Nat] /\ extraWaits' \in [Procs -> Nat]
        /\ pc' \in [Procs -> Places] /\ looked' = looked \cup {p}
    BY <1>1, <2>1, <2>3, <2>4, LockedCounts, Zenon DEF TypeOK
  <2>6. TypeOK'
    <3>1. held' \in [Procs -> Modes \cup {None}]
      BY <1>1, <2>1 DEF Take, TypeOK
    <3> QED BY <1>1, <2>1, <2>5, <3>1, Zenon DEF TypeOK
  <2>7. LockInv' /\ CleanupAlone'
    BY <1>1, <1>2, <2>1, <2>2, Grant, Zenon DEF Take, TypeOK, Holding
  <2>8. PinInv'
    BY <1>1, <2>1, <2>2, <2>5, Zenon DEF CleanupInv, TypeOK, PinInv
  <2>9. GoalInv'
    BY <1>1, <2>1, <2>2, Zenon DEF CleanupInv, TypeOK, GoalInv, Acquiring, Take
  <2>10. QueueInv'
    BY <1>1, <2>1, <2>2, Zenon DEF TypeOK, QueueInv, Waits
  <2> QED BY <2>3, <2>5, <2>6, <2>7, <2>8, <2>9, <2>10, Zenon DEF IInv, CleanupInv, WakeupInv
<1>3. CASE ~Free(mode[p])
  <2>1. /\ pc[p] = "attempt" /\ pc' = [pc EXCEPT ![p] = "queue"]
        /\ UNCHANGED <<held, semVars, pinVars, hasWaiters, queue, lwWaiting, mode, goal>>
    BY <1>3 DEF AttemptLock, Goto
  <2>2. "queue" \in Places
    BY Zenon DEF Places, Acquiring
  <2>3. TypeOK'
    BY <1>1, <2>1, <2>2 DEF TypeOK, semVars, pinVars
  <2>4. (LockInv /\ PinInv /\ GoalInv /\ CleanupAlone)'
    BY <1>1, <2>1, <2>2, CleanupFrame, Zenon DEF pinVars, Holding, Acquiring
  <2>5. WakeupInv'
    BY <1>1, <2>1, <2>2, WakeupFrame, Zenon DEF semVars, Acquiring, Waits
  <2> QED BY <2>3, <2>4, <2>5 DEF IInv, CleanupInv
<1> QED BY <1>2, <1>3

(***************************************************************************)
(* BufferLockQueueSelf adds one member at the end, who was not in the      *)
(* queue.                                                                  *)
(***************************************************************************)
LEMMA AppendMembers ==
  ASSUME NEW s \in Seq(Procs), NEW x \in Procs
  PROVE  /\ Append(s, x) \in Seq(Procs) /\ Append(s, x) # <<>>
         /\ Members(Append(s, x)) = Members(s) \cup {x}
         /\ (x \notin Members(s) /\ \A i, j \in DOMAIN s : s[i] = s[j] => i = j)
              => \A i, j \in DOMAIN Append(s, x) :
                   Append(s, x)[i] = Append(s, x)[j] => i = j
<1> DEFINE t == Append(s, x)
<1>1. /\ t \in Seq(Procs) /\ Len(t) = Len(s) + 1 /\ Len(s) \in Nat
      /\ DOMAIN t = 1 .. Len(s) + 1 /\ DOMAIN s = 1 .. Len(s)
      /\ \A i \in 1 .. Len(s) : t[i] = s[i]
      /\ t[Len(s) + 1] = x
  OBVIOUS
<1> HIDE DEF t
<1>2. Members(t) = Members(s) \cup {x}
  <2>1. Members(t) \subseteq Members(s) \cup {x}
    BY <1>1 DEF Members
  <2>2. Members(s) \subseteq Members(t)
    BY <1>1 DEF Members
  <2>3. x \in Members(t)
    BY <1>1 DEF Members
  <2> QED BY <2>1, <2>2, <2>3
<1>3. t # <<>>
  BY <1>1
<1>4. ASSUME x \notin Members(s), \A i, j \in DOMAIN s : s[i] = s[j] => i = j
      PROVE  \A i, j \in DOMAIN t : t[i] = t[j] => i = j
  <2>1. \A i \in 1 .. Len(s) : s[i] # x
    BY <1>4, <1>1, Zenon DEF Members
  <2> QED BY <2>1, <1>4, <1>1
<1> QED BY <1>1, <1>2, <1>3, <1>4, Zenon DEF t

(***************************************************************************)
(* A process that queues has no wake-up on the way, so it enters the queue *)
(* once and no post is owed to it.                                         *)
(***************************************************************************)
LEMMA QueueSelfStep ==
  ASSUME IInv, NEW p \in Procs, QueueSelf(p)
  PROVE  IInv'
<1>1. CleanupInv /\ WakeupInv /\ TypeOK /\ CountInv /\ ListInv /\ QueueInv
  BY DEF IInv, CleanupInv, WakeupInv
<1>2. /\ pc[p] = "queue" /\ pc' = [pc EXCEPT ![p] = "again"]
      /\ hasWaiters' = TRUE /\ queue' = Append(queue, p)
      /\ lwWaiting' = [lwWaiting EXCEPT ![p] = "waiting"]
      /\ UNCHANGED <<held, mode, semVars, pinVars, goal>>
  BY DEF QueueSelf, Goto
<1>3. "again" \in Places /\ queue \in Seq(Procs)
  BY <1>1, Zenon DEF Places, Acquiring, TypeOK
<1>4. TypeOK'
  <2>1. queue' \in Seq(Procs)
    BY <1>2, <1>3, AppendMembers
  <2> QED BY <1>1, <1>2, <1>3, <2>1, Zenon DEF TypeOK, semVars, pinVars
<1>5. (LockInv /\ PinInv /\ GoalInv /\ CleanupAlone)'
  BY <1>1, <1>2, <1>3, CleanupFrame, Zenon DEF pinVars, Holding, Acquiring
<1>6. lwWaiting[p] = "no" /\ p \notin Members(queue)
  BY <1>1, <1>2, Zenon DEF QueueInv, Waits
<1>7. QueueInv'
  <2>1. /\ Members(queue') = Members(queue) \cup {p} /\ queue' # <<>>
        /\ \A i, j \in DOMAIN queue' : queue'[i] = queue'[j] => i = j
    <3>1. \A i, j \in DOMAIN queue : queue[i] = queue[j] => i = j
      BY <1>1, Zenon DEF QueueInv
    <3> QED BY <3>1, <1>2, <1>3, <1>6, AppendMembers, Zenon
  <2>2. \A q \in Procs : /\ lwWaiting'[q] = IF q = p THEN "waiting" ELSE lwWaiting[q]
                         /\ pc'[q] = IF q = p THEN "again" ELSE pc[q]
    BY <1>1, <1>2, Zenon DEF TypeOK
  <2>3. (\A q \in Procs : q \in Members(queue) <=> lwWaiting[q] = "waiting")'
    BY <1>1, <2>1, <2>2, Zenon DEF QueueInv
  <2>4. (\A q \in Procs : lwWaiting[q] # "no" => pc[q] \in Waits)'
    BY <1>1, <2>2 DEF QueueInv, Waits
  <2> QED BY <1>2, <2>1, <2>3, <2>4, Zenon DEF QueueInv
<1>8. ListInv' /\ Posts' = Posts
  BY <1>1, <1>2, <1>6, ListFrame, Zenon DEF semVars, TypeOK
<1>9. CountInv'
  BY <1>1, <1>2, <1>6, <1>8 DEF CountInv, Seen, Waits, Acquiring, semVars, TypeOK
<1> QED BY <1>4, <1>5, <1>7, <1>8, <1>9, Zenon DEF IInv, CleanupInv, WakeupInv

(***************************************************************************)
(* Taking waiters off the queue leaves the others in it, once each.        *)
(***************************************************************************)
LEMMA QueueWithout ==
  ASSUME TypeOK, QueueInv, NEW W, queue' = Only(queue, Procs \ W),
         hasWaiters' = (hasWaiters /\ queue' # <<>>)
  PROVE  /\ queue' \in Seq(Procs) /\ hasWaiters' \in BOOLEAN
         /\ Members(queue') = Members(queue) \ W
         /\ \A i, j \in DOMAIN queue' : queue'[i] = queue'[j] => i = j
         /\ hasWaiters' <=> queue' # <<>>
<1>1. queue \in Seq(Procs) /\ hasWaiters \in BOOLEAN
  BY DEF TypeOK
<1>2. /\ queue' \in Seq(Procs)
      /\ Members(queue') = Members(queue) \cap (Procs \ W)
      /\ \A i, j \in DOMAIN queue' : queue'[i] = queue'[j] => i = j
  <2>1. \A i, j \in DOMAIN queue : queue[i] = queue[j] => i = j
    BY Zenon DEF QueueInv
  <2> QED BY <1>1, <2>1, OnlyKeeps, Zenon
<1>3. Members(queue) \subseteq Procs
  BY <1>1 DEF Members
<1>4. Members(queue') = Members(queue) \ W
  BY <1>2, <1>3, Zenon
<1>5. queue' # <<>> => queue # <<>>
  BY <1>1, <1>2, EmptyMembers, Zenon
<1> QED BY <1>1, <1>2, <1>4, <1>5, Zenon DEF QueueInv

(***************************************************************************)
(* A process that got the lock from the queue takes itself off it; if      *)
(* somebody was quicker, a post is on its way and it waits for it.         *)
(***************************************************************************)
LEMMA DequeueSelfStep ==
  ASSUME IInv, NEW p \in Procs, DequeueSelf(p)
  PROVE  IInv'
<1>1. CleanupInv /\ WakeupInv /\ TypeOK /\ CountInv /\ ListInv /\ QueueInv
  BY DEF IInv, CleanupInv, WakeupInv
<1>2. /\ pc[p] = "dequeue" /\ queue' = Only(queue, Procs \ {p})
      /\ hasWaiters' = (hasWaiters /\ queue' # <<>>)
      /\ UNCHANGED <<held, mode, wakeup, pins, pinWaiter, goal>>
  BY DEF DequeueSelf
<1>3. /\ queue' \in Seq(Procs) /\ hasWaiters' \in BOOLEAN
      /\ Members(queue') = Members(queue) \ {p}
      /\ \A i, j \in DOMAIN queue' : queue'[i] = queue'[j] => i = j
      /\ hasWaiters' <=> queue' # <<>>
  BY <1>1, <1>2, QueueWithout, Zenon
<1>4. CASE lwWaiting[p] = "waiting"
  <2>1. Locked(p, sem[p]) /\ lwWaiting' = [lwWaiting EXCEPT ![p] = "no"]
    BY <1>4 DEF DequeueSelf
  <2>2. pc' = [pc EXCEPT ![p] = "locked"]
    BY <2>1, Zenon DEF Locked, Goto
  <2>3. \A q \in Procs : /\ lwWaiting'[q] = IF q = p THEN "no" ELSE lwWaiting[q]
                         /\ pc'[q] = IF q = p THEN "locked" ELSE pc[q]
    BY <1>1, <2>1, <2>2 DEF TypeOK
  <2>4. ListInv' /\ Posts' = Posts
    BY <1>1, <1>2, <1>4, <2>2, <2>3, ListFrame, Zenon
  <2>5. sem[p] + extraWaits[p] + Posts[p] = Base(p)
    <3>1. Seen(p) = 0 /\ Base(p) \in Nat
      BY <1>4, Zenon DEF Seen, Base
    <3> QED BY <1>1, <3>1 DEF CountInv
  <2>6. /\ CountInv' /\ sem' \in [Procs -> Nat] /\ extraWaits' \in [Procs -> Nat]
        /\ pc' \in [Procs -> Places] /\ looked' = looked \cup {p}
    BY <1>1, <2>1, <2>3, <2>4, <2>5, LockedCounts, Zenon DEF TypeOK
  <2>7. TypeOK'
    BY <1>1, <1>2, <1>3, <2>1, <2>6, Zenon DEF TypeOK
  <2>8. LockInv'
    BY <1>1, <1>2, <2>3, Zenon DEF CleanupInv, LockInv, Holding
  <2>9. PinInv'
    BY <1>1, <1>2, <2>3, <2>6, Zenon DEF CleanupInv, TypeOK, PinInv
  <2>10. GoalInv'
    BY <1>1, <1>2, <2>3 DEF CleanupInv, GoalInv, Acquiring
  <2>11. CleanupAlone'
    <3>1. held[p] # None
      BY <1>1, <1>2, Zenon DEF CleanupInv, LockInv, Holding
    <3> QED BY <1>1, <1>2, <2>3, <3>1, Zenon DEF CleanupInv, CleanupAlone, LockInv
  <2>12. QueueInv'
    <3>1. (\A q \in Procs : q \in Members(queue) <=> lwWaiting[q] = "waiting")'
      BY <1>1, <1>3, <2>3, Zenon DEF QueueInv
    <3>2. (\A q \in Procs : lwWaiting[q] # "no" => pc[q] \in Waits)'
      BY <1>1, <2>3, Zenon DEF QueueInv
    <3> QED BY <1>3, <3>1, <3>2, Zenon DEF QueueInv
  <2> QED BY <2>4, <2>6, <2>7, <2>8, <2>9, <2>10, <2>11, <2>12, Zenon
          DEF IInv, CleanupInv, WakeupInv
<1>5. CASE lwWaiting[p] # "waiting"
  <2>1. pc' = [pc EXCEPT ![p] = "reopen"] /\ UNCHANGED <<lwWaiting, sem, extraWaits, looked>>
    BY <1>5 DEF DequeueSelf, Goto
  <2>2. "reopen" \in Places
    BY Zenon DEF Places, Acquiring
  <2>3. TypeOK'
    BY <1>1, <1>2, <1>3, <2>1, <2>2 DEF TypeOK
  <2>4. (LockInv /\ PinInv /\ GoalInv /\ CleanupAlone)'
    BY <1>1, <1>2, <2>1, <2>2, CleanupFrame, Zenon DEF Holding, Acquiring
  <2>5. ListInv' /\ Posts' = Posts
    BY <1>1, <1>2, <2>1, ListFrame, Zenon
  <2>6. \A q \in Procs : pc'[q] = IF q = p THEN "reopen" ELSE pc[q]
    BY <1>1, <2>1, Zenon DEF TypeOK
  <2>7. QueueInv'
    <3>1. (\A q \in Procs : q \in Members(queue) <=> lwWaiting[q] = "waiting")'
      BY <1>1, <1>3, <1>5, <2>1, Zenon DEF QueueInv
    <3>2. (\A q \in Procs : lwWaiting[q] # "no" => pc[q] \in Waits)'
      BY <1>1, <2>1, <2>6, Zenon DEF QueueInv, Waits
    <3> QED BY <1>3, <3>1, <3>2 DEF QueueInv
  <2>8. CountInv'
    BY <1>1, <1>2, <2>1, <2>5, <2>6, Zenon DEF CountInv, Seen, Waits, Acquiring
  <2> QED BY <2>3, <2>4, <2>5, <2>7, <2>8, Zenon DEF IInv, CleanupInv, WakeupInv
<1> QED BY <1>4, <1>5, Zenon

\* PGSemaphoreLock takes a post: for the wake-up that was seen, or to be given
\* back.
LEMMA SemaphoreLockStep ==
  ASSUME IInv, NEW p \in Procs, SemaphoreLock(p)
  PROVE  IInv'
<1>1. CleanupInv /\ WakeupInv /\ TypeOK /\ CountInv /\ ListInv /\ QueueInv
  BY DEF IInv, CleanupInv, WakeupInv
<1>2. /\ pc[p] \in {"sleep", "absorb"} /\ sem[p] > 0
      /\ UNCHANGED <<lockVars, wakeup, pins, pinWaiter, goal>>
  BY Zenon DEF SemaphoreLock
<1>3. CASE lwWaiting[p] = "no" /\ pc[p] = "absorb"
  <2>1. Locked(p, sem[p] - 1)
    BY <1>3, Zenon DEF SemaphoreLock
  <2>2. pc' = [pc EXCEPT ![p] = "locked"]
    BY <2>1, Zenon DEF Locked, Goto
  <2>3. \A q \in Procs : pc'[q] = IF q = p THEN "locked" ELSE pc[q]
    BY <1>1, <2>2 DEF TypeOK
  <2>4. ListInv' /\ Posts' = Posts
    BY <1>1, <1>2, <2>2, ListFrame, Zenon DEF lockVars
  <2>5. sem[p] - 1 \in Nat /\ sem[p] - 1 + extraWaits[p] + Posts[p] = Base(p)
    <3>1. Seen(p) = 1 /\ Base(p) \in Nat
      BY <1>3, Zenon DEF Seen, Waits, Base
    <3>2. sem[p] \in Nat /\ extraWaits[p] \in Nat /\ Posts[p] \in Nat
      BY <1>1, PostsType, Zenon DEF TypeOK
    <3>3. sem[p] + extraWaits[p] + Posts[p] = Base(p) + 1
      BY <1>1, <3>1, Zenon DEF CountInv
    <3> QED BY <1>2, <3>1, <3>2, <3>3
  <2>6. /\ CountInv' /\ sem' \in [Procs -> Nat] /\ extraWaits' \in [Procs -> Nat]
        /\ pc' \in [Procs -> Places] /\ looked' = looked \cup {p}
    BY <1>1, <1>2, <2>1, <2>4, <2>5, LockedCounts, Zenon DEF lockVars
  <2>7. TypeOK'
    BY <1>1, <1>2, <2>6, Zenon DEF TypeOK, lockVars
  <2>8. LockInv'
    BY <1>1, <1>2, <1>3, <2>3 DEF CleanupInv, LockInv, Holding, lockVars
  <2>9. PinInv'
    BY <1>1, <1>2, <1>3, <2>3, <2>6, Zenon DEF CleanupInv, TypeOK, PinInv
  <2>10. GoalInv'
    BY <1>1, <1>2, <1>3, <2>3 DEF CleanupInv, GoalInv, Acquiring, lockVars
  <2>11. CleanupAlone'
    <3>1. held[p] # None
      BY <1>1, <1>3, Zenon DEF CleanupInv, LockInv, Holding
    <3> QED BY <1>1, <1>2, <2>3, <3>1, Zenon DEF CleanupInv, CleanupAlone, LockInv, lockVars
  <2>12. QueueInv'
    BY <1>1, <1>2, <1>3, <2>3, Zenon DEF QueueInv, lockVars
  <2> QED BY <2>4, <2>6, <2>7, <2>8, <2>9, <2>10, <2>11, <2>12
          DEF IInv, CleanupInv, WakeupInv
<1>4. CASE lwWaiting[p] = "no" /\ pc[p] = "sleep"
  <2>1. /\ sem' = [sem EXCEPT ![p] = @ - 1] /\ pc' = [pc EXCEPT ![p] = "retry"]
        /\ UNCHANGED <<extraWaits, looked>>
    BY <1>4 DEF SemaphoreLock, Goto
  <2>2. "retry" \in Places
    BY Zenon DEF Places, Acquiring
  <2>3. \A q \in Procs : /\ pc'[q] = IF q = p THEN "retry" ELSE pc[q]
                         /\ sem'[q] = IF q = p THEN sem[q] - 1 ELSE sem[q]
    BY <1>1, <2>1, Zenon DEF TypeOK
  <2>4. TypeOK'
    <3>1. sem' \in [Procs -> Nat]
      BY <1>1, <1>2, <2>1 DEF TypeOK
    <3> QED BY <1>1, <1>2, <2>1, <2>2, <3>1, Zenon DEF TypeOK, lockVars
  <2>5. (LockInv /\ PinInv /\ GoalInv /\ CleanupAlone)'
    BY <1>1, <1>2, <1>4, <2>1, <2>2, CleanupFrame, Zenon DEF lockVars, Holding, Acquiring
  <2>6. ListInv' /\ Posts' = Posts
    BY <1>1, <1>2, <2>1, ListFrame, Zenon DEF lockVars
  <2>7. QueueInv'
    BY <1>1, <1>2, <1>4, <2>3, Zenon DEF QueueInv, lockVars
  <2>8. CountInv'
    <3> SUFFICES ASSUME NEW q \in Procs
                 PROVE  /\ sem'[q] + extraWaits'[q] + Posts'[q] = Base(q) + Seen(q)'
                        /\ pc'[q] \notin Acquiring => extraWaits'[q] = 0
      BY Zenon DEF CountInv
    <3>1. CASE q # p
      BY <3>1, <1>1, <1>2, <2>1, <2>3, <2>6, Zenon DEF CountInv, Seen, lockVars
    <3>2. CASE q = p
      <4>1. Seen(p) = 1 /\ Seen(p)' = 0 /\ Base(p) \in Nat
        BY <1>4, <2>3, Zenon DEF Seen, Waits, Base
      <4>2. sem[p] \in Nat /\ extraWaits[p] \in Nat /\ Posts[p] \in Nat
        BY <1>1, PostsType, Zenon DEF TypeOK
      <4>3. sem[p] + extraWaits[p] + Posts[p] = Base(p) + 1
        BY <1>1, <4>1, Zenon DEF CountInv
      <4>4. sem'[p] = sem[p] - 1 /\ pc'[p] \in Acquiring
        BY <2>3, Zenon DEF Acquiring
      <4> QED BY <3>2, <2>1, <2>6, <4>1, <4>2, <4>3, <4>4
    <3> QED BY <3>1, <3>2, Zenon
  <2> QED BY <2>4, <2>5, <2>6, <2>7, <2>8, Zenon DEF IInv, CleanupInv, WakeupInv
<1>5. CASE lwWaiting[p] # "no"
  <2>1. /\ sem' = [sem EXCEPT ![p] = @ - 1]
        /\ extraWaits' = [extraWaits EXCEPT ![p] = @ + 1]
        /\ UNCHANGED <<pc, looked>>
    BY <1>5, Zenon DEF SemaphoreLock
  <2>2. TypeOK'
    <3>1. sem' \in [Procs -> Nat]
      BY <1>1, <1>2, <2>1 DEF TypeOK
    <3>2. extraWaits' \in [Procs -> Nat]
      <4>1. extraWaits \in [Procs -> Nat] /\ extraWaits[p] \in Nat
        BY <1>1, Zenon DEF TypeOK
      <4>2. extraWaits[p] + 1 \in Nat
        BY <4>1
      <4> QED BY <2>1, <4>1, <4>2, Zenon
    <3> QED BY <1>1, <1>2, <2>1, <3>1, <3>2, Zenon DEF TypeOK, lockVars
  <2>3. LockInv' /\ PinInv' /\ GoalInv' /\ CleanupAlone'
    <3>1. /\ LockInv /\ PinInv /\ GoalInv /\ CleanupAlone
          /\ UNCHANGED <<held, mode, pins, looked, pc, goal>>
      BY <1>1, <1>2, <2>1, Zenon DEF CleanupInv, lockVars
    <3>2. LockInv' /\ PinInv'
      BY <3>1, Zenon DEF LockInv, PinInv
    <3>3. GoalInv' /\ CleanupAlone'
      BY <3>1, Zenon DEF GoalInv, CleanupAlone
    <3> QED BY <3>2, <3>3, Zenon
  <2>4. QueueInv'
    BY <1>1, <1>2, <2>1, Zenon DEF QueueInv, lockVars
  <2>5. ListInv'
    BY <1>1, <1>2, <2>1 DEF ListInv, Pending, lockVars
  <2>6. Posts' = Posts
    BY <1>2, <2>1, PostsSame, Zenon
  <2>7. CountInv'
    <3>1. \A q \in Procs : Seen(q)' = Seen(q)
      BY <1>2, <2>1, Zenon DEF Seen, lockVars
    <3>2. \A q \in Procs : sem'[q] + extraWaits'[q] = sem[q] + extraWaits[q]
      BY <1>1, <1>2, <2>1 DEF TypeOK
    <3>3. \A q \in Procs : pc[q] \notin Acquiring => extraWaits'[q] = extraWaits[q]
      BY <1>1, <1>2, <2>1, Zenon DEF TypeOK, Acquiring
    <3> QED BY <1>1, <2>1, <2>6, <3>1, <3>2, <3>3, Zenon DEF CountInv
  <2> QED BY <2>2, <2>3, <2>4, <2>5, <2>7, Zenon DEF IInv, CleanupInv, WakeupInv
<1> QED BY <1>2, <1>3, <1>4, <1>5, Zenon

(***************************************************************************)
(* The lists of BufferLockWakeup are lists of processes.                   *)
(***************************************************************************)
LEMMA PendingType ==
  ASSUME TypeOK, NEW q \in Procs, NEW i \in Pending(q)
  PROVE  wakeup[q][i] \in Procs
<1>1. wakeup[q] \in Seq(Procs) /\ i \in DOMAIN wakeup[q]
  BY Zenon DEF TypeOK, Pending
<1> QED BY <1>1

(***************************************************************************)
(* A process is on one list of BufferLockWakeup, once.                     *)
(***************************************************************************)
LEMMA ListedOnce ==
  ASSUME ListInv, NEW q \in Procs, NEW r \in Procs, NEW i \in Pending(q),
         NEW j \in Pending(r), wakeup[q][i] = wakeup[r][j]
  PROVE  q = r /\ i = j
  BY DEF ListInv

(***************************************************************************)
(* BufferLockWakeup moves waiters from the queue to the list of one        *)
(* process, each to one list only.                                         *)
(***************************************************************************)
LEMMA BufferLockWakeupStep ==
  ASSUME IInv, NEW p \in Procs, BufferLockWakeup(p)
  PROVE  IInv'
<1> DEFINE woken == Woken(pc[p] = "wakeany")
           l == IF woken = {} THEN After(p) ELSE "wake"
           new == Only(queue, woken)
<1>1. CleanupInv /\ WakeupInv /\ TypeOK /\ CountInv /\ ListInv /\ QueueInv
  BY DEF IInv, CleanupInv, WakeupInv
<1>2. /\ pc[p] \in {"wakeany", "wakeshare"}
      /\ queue' = Only(queue, Procs \ woken)
      /\ hasWaiters' = (hasWaiters /\ queue' # <<>>)
      /\ wakeup' = [wakeup EXCEPT ![p] = new]
      /\ lwWaiting' = [q \in Procs |-> IF q \in woken THEN "pending" ELSE lwWaiting[q]]
      /\ pc' = [pc EXCEPT ![p] = l]
      /\ UNCHANGED <<held, mode, sem, extraWaits, pinVars, goal>>
  BY DEF BufferLockWakeup, Goto
<1>3. woken \subseteq Members(queue)
  <2>1. queue \in Seq(Procs)
    BY <1>1 DEF TypeOK
  <2>2. queue # <<>> => 1 \in DOMAIN queue /\ Head(queue) = queue[1]
    BY <2>1
  <2> QED BY <2>2, Zenon DEF Woken, Members
<1>4. l \in {"wait", "abort", "pinned", "wake"} /\ (woken = {} <=> l # "wake")
  BY DEF After
<1>5. /\ new \in Seq(Procs) /\ Members(new) = woken
      /\ \A i, j \in DOMAIN new : new[i] = new[j] => i = j
  <2>1. \A i, j \in DOMAIN queue : queue[i] = queue[j] => i = j
    BY <1>1 DEF QueueInv
  <2>2. queue \in Seq(Procs) /\ Members(queue) \cap woken = woken
    BY <1>1, <1>3, Zenon DEF TypeOK
  <2> HIDE DEF woken
  <2> QED BY <2>1, <2>2, OnlyKeeps, Zenon
<1> HIDE DEF woken, l, new
<1>6. new # <<>> <=> l = "wake"
  BY <1>4, <1>5, EmptyMembers, Zenon
<1>7. \A q \in Procs : q \in woken => lwWaiting[q] = "waiting"
  BY <1>1, <1>3, Zenon DEF QueueInv
<1>8. \A q \in Procs : /\ lwWaiting'[q] = IF q \in woken THEN "pending" ELSE lwWaiting[q]
                       /\ pc'[q] = IF q = p THEN l ELSE pc[q]
                       /\ wakeup'[q] = IF q = p THEN new ELSE wakeup[q]
  BY <1>1, <1>2 DEF TypeOK
<1>9. /\ queue' \in Seq(Procs) /\ hasWaiters' \in BOOLEAN
      /\ Members(queue') = Members(queue) \ woken
      /\ \A i, j \in DOMAIN queue' : queue'[i] = queue'[j] => i = j
      /\ hasWaiters' <=> queue' # <<>>
  BY <1>1, <1>2, QueueWithout, ZenonT(60)
<1>10. TypeOK'
  <2>1. lwWaiting' \in [Procs -> {"no", "waiting", "pending"}]
    BY <1>1, <1>2, Zenon DEF TypeOK
  <2>2. wakeup' \in [Procs -> Seq(Procs)]
    BY <1>1, <1>2, <1>5, Zenon DEF TypeOK
  <2>3. pc' \in [Procs -> Places]
    BY <1>1, <1>2, <1>4 DEF TypeOK, Places
  <2> QED BY <1>1, <1>2, <1>9, <2>1, <2>2, <2>3, Zenon DEF TypeOK, pinVars
<1>11. (LockInv /\ PinInv /\ GoalInv /\ CleanupAlone)'
  <2>1. l \in Places
    BY <1>4, Zenon DEF Places
  <2> QED BY <1>1, <1>2, <1>4, <2>1, CleanupFrame, Zenon DEF pinVars, Holding, Acquiring
<1>12. QueueInv'
  <2>1. (\A q \in Procs : q \in Members(queue) <=> lwWaiting[q] = "waiting")'
    BY <1>1, <1>8, <1>9 DEF QueueInv
  <2>2. (\A q \in Procs : lwWaiting[q] # "no" => pc[q] \in Waits)'
    BY <1>1, <1>2, <1>7, <1>8, ZenonT(60) DEF QueueInv, Waits
  <2> QED BY <1>9, <2>1, <2>2, Zenon DEF QueueInv
<1>13. ListInv'
  <2>1. \A q \in Procs \ {p} : Pending(q)' = Pending(q) /\ wakeup'[q] = wakeup[q]
    BY <1>8, Zenon DEF Pending
  <2>2. /\ Pending(p)' = IF l = "wake" THEN DOMAIN new ELSE {}
        /\ wakeup'[p] = new
    BY <1>4, <1>8, Zenon DEF Pending
  <2>3. \A i \in DOMAIN new : new[i] \in woken
    BY <1>5, Zenon DEF Members
  <2>4. \A q \in Procs : \A i \in Pending(q) :
          wakeup[q][i] \in Procs /\ lwWaiting[wakeup[q][i]] = "pending"
    BY <1>1, PendingType, Zenon DEF ListInv
  <2>5. \A q \in Procs : \A i \in Pending(q)' :
          /\ wakeup'[q][i] \in Procs
          /\ lwWaiting'[wakeup'[q][i]] = "pending"
    <3> SUFFICES ASSUME NEW q \in Procs, NEW i \in Pending(q)'
                 PROVE  wakeup'[q][i] \in Procs /\ lwWaiting'[wakeup'[q][i]] = "pending"
      BY Zenon
    <3>1. CASE q = p
      <4>1. i \in DOMAIN new /\ wakeup'[q][i] = new[i]
        BY <3>1, <2>2, Zenon
      <4>2. new[i] \in woken /\ new[i] \in Procs
        <5>1. new \in Seq(Procs) /\ new[i] \in woken
          BY <4>1, <2>3, <1>5, Zenon
        <5> QED BY <4>1, <5>1
      <4> QED BY <4>1, <4>2, <1>8, Zenon
    <3>2. CASE q # p
      BY <3>2, <2>1, <2>4, <1>8
    <3> QED BY <3>1, <3>2, Zenon
  <2>6. ASSUME NEW q \in Procs, NEW r \in Procs, NEW i \in Pending(q)',
               NEW j \in Pending(r)', wakeup'[q][i] = wakeup'[r][j]
        PROVE  q = r /\ i = j
    <3>1. ASSUME NEW x \in Procs \ {p}, NEW k \in Pending(x)
          PROVE  wakeup[x][k] \notin woken
      BY <2>4, <1>7
    <3>2. CASE q = p /\ r = p
      BY <3>2, <2>2, <2>6, <1>5, Zenon
    <3>3. CASE q = p /\ r # p
      <4>1. wakeup'[q][i] \in woken
        BY <3>3, <2>2, <2>3, Zenon
      <4>2. wakeup'[r][j] \notin woken
        BY <3>1, <3>3, <2>1, Zenon
      <4> QED BY <4>1, <4>2, <2>6, Zenon
    <3>4. CASE q # p /\ r = p
      <4>1. wakeup'[r][j] \in woken
        BY <3>4, <2>2, <2>3, Zenon
      <4>2. wakeup'[q][i] \notin woken
        BY <3>1, <3>4, <2>1, Zenon
      <4> QED BY <4>1, <4>2, <2>6, Zenon
    <3>5. CASE q # p /\ r # p
      BY <3>5, <2>1, <2>6, <1>1 DEF ListInv
    <3> QED BY <3>2, <3>3, <3>4, <3>5, Zenon
  <2>7. (\A q \in Procs : pc[q] \in {"wake", "post", "signal"} => wakeup[q] # <<>>)'
    BY <1>1, <1>4, <1>6, <1>8, ZenonT(60) DEF ListInv
  <2>8. (\A q \in Procs : \A i \in Pending(q) : lwWaiting[wakeup[q][i]] = "pending")'
    BY <2>5, Zenon
  <2>9. (\A q, r \in Procs : \A i \in Pending(q), j \in Pending(r) :
           wakeup[q][i] = wakeup[r][j] => q = r /\ i = j)'
    BY <2>6, Zenon
  <2> QED BY <2>7, <2>8, <2>9, ZenonT(60) DEF ListInv
<1>14. CountInv'
  <2>1. Posts' = Posts
    BY <1>2, <1>4, <1>8, PostsSame, Zenon
  <2>2. \A q \in Procs : Seen(q)' = Seen(q)
    BY <1>2, <1>4, <1>7, <1>8 DEF Seen, Waits
  <2>3. \A q \in Procs : pc'[q] \in Acquiring <=> pc[q] \in Acquiring
    BY <1>2, <1>4, <1>8, Zenon DEF Acquiring
  <2> QED BY <1>1, <1>2, <2>1, <2>2, <2>3, Zenon DEF CountInv
<1> QED BY <1>10, <1>11, <1>12, <1>13, <1>14, Zenon DEF IInv, CleanupInv, WakeupInv

(***************************************************************************)
(* The first half of a wake-up: lwWaiting is reset, and from now on a post *)
(* is owed to the waiter.                                                  *)
(***************************************************************************)
LEMMA WakeWaiterStep ==
  ASSUME IInv, NEW p \in Procs, WakeWaiter(p)
  PROVE  IInv'
<1>1. CleanupInv /\ WakeupInv /\ TypeOK /\ CountInv /\ ListInv /\ QueueInv
  BY DEF IInv, CleanupInv, WakeupInv
<1>2. /\ pc[p] = "wake" /\ pc' = [pc EXCEPT ![p] = "post"]
      /\ lwWaiting' = [lwWaiting EXCEPT ![Head(wakeup[p])] = "no"]
      /\ UNCHANGED <<held, hasWaiters, queue, mode, semVars, pinVars, goal>>
  BY Zenon DEF WakeWaiter, Goto
<1>3. PICK x \in Procs :
        1 \in DOMAIN wakeup[p] /\ x = wakeup[p][1] /\ x = Head(wakeup[p])
  <2>1. wakeup[p] \in Seq(Procs) /\ wakeup[p] # <<>>
    BY <1>1, <1>2, Zenon DEF TypeOK, ListInv
  <2> QED BY <2>1
<1>4. lwWaiting[x] = "pending" /\ pc[x] \in Waits /\ x # p
  <2>1. 1 \in Pending(p)
    BY <1>2, <1>3, Zenon DEF Pending
  <2>2. lwWaiting[x] = "pending"
    <3>1. \A i \in Pending(p) : lwWaiting[wakeup[p][i]] = "pending"
      BY <1>1, Zenon DEF ListInv
    <3> QED BY <1>3, <2>1, <3>1, Zenon
  <2>3. pc[x] \in Waits
    BY <1>1, <2>2, Zenon DEF QueueInv
  <2> QED BY <1>2, <2>2, <2>3, Zenon DEF Waits
<1>5. \A q \in Procs : /\ lwWaiting'[q] = IF q = x THEN "no" ELSE lwWaiting[q]
                       /\ pc'[q] = IF q = p THEN "post" ELSE pc[q]
                       /\ wakeup'[q] = wakeup[q]
  BY <1>1, <1>2, <1>3 DEF TypeOK, semVars
<1>6. "post" \in Places
  BY DEF Places
<1>7. TypeOK'
  BY <1>1, <1>2, <1>3, <1>6, Zenon DEF TypeOK, semVars, pinVars
<1>8. (LockInv /\ PinInv /\ GoalInv /\ CleanupAlone)'
  BY <1>1, <1>2, <1>6, CleanupFrame, ZenonT(60) DEF pinVars, Holding, Acquiring
<1>9. QueueInv'
  BY <1>1, <1>2, <1>4, <1>5 DEF QueueInv, Waits
<1>10. ListInv'
  <2>1. \A q \in Procs : Pending(q)' = IF q = p THEN Pending(q) \ {1} ELSE Pending(q)
    <3>1. Pending(p) = DOMAIN wakeup[p] /\ Pending(p)' = DOMAIN wakeup[p] \ {1}
      BY <1>2, <1>5 DEF Pending
    <3>2. \A q \in Procs \ {p} : Pending(q)' = Pending(q)
      BY <1>5, ZenonT(60) DEF Pending
    <3> QED BY <3>1, <3>2, Zenon
  <2>2. \A q \in Procs : \A i \in Pending(q) : wakeup[q][i] \in Procs
    BY <1>1, PendingType, Zenon
  <2>3. 1 \in Pending(p)
    BY <1>2, <1>3, Zenon DEF Pending
  <2>4. ASSUME NEW q \in Procs, NEW i \in Pending(q)'
        PROVE  i \in Pending(q) /\ wakeup[q][i] # x
    BY <2>1, <2>3, <1>1, <1>3 DEF ListInv
  <2>5. (\A q \in Procs : \A i \in Pending(q) : lwWaiting[wakeup[q][i]] = "pending")'
    <3>1. ASSUME NEW q \in Procs, NEW i \in Pending(q)'
          PROVE  lwWaiting'[wakeup'[q][i]] = "pending"
      <4>1. i \in Pending(q) /\ wakeup[q][i] # x
        BY <2>4, Zenon
      <4>2. wakeup[q][i] \in Procs /\ lwWaiting[wakeup[q][i]] = "pending"
        BY <4>1, <2>2, <1>1, Zenon DEF ListInv
      <4>3. wakeup'[q] = wakeup[q]
        BY <1>5, Zenon
      <4> QED BY <4>1, <4>2, <4>3, <1>5, Zenon
    <3> QED BY <3>1, Zenon
  <2>6. (\A q, r \in Procs : \A i \in Pending(q), j \in Pending(r) :
           wakeup[q][i] = wakeup[r][j] => q = r /\ i = j)'
    <3>1. ASSUME NEW q \in Procs, NEW r \in Procs, NEW i \in Pending(q)',
                 NEW j \in Pending(r)', wakeup'[q][i] = wakeup'[r][j]
          PROVE  q = r /\ i = j
      <4>1. i \in Pending(q) /\ j \in Pending(r)
        BY <2>4, Zenon
      <4>2. wakeup'[q] = wakeup[q] /\ wakeup'[r] = wakeup[r]
        BY <1>5, Zenon
      <4>3. wakeup[q][i] = wakeup[r][j]
        BY <3>1, <4>2, Zenon
      <4> QED BY <4>1, <4>3, <1>1, ListedOnce, Zenon
    <3> QED BY <3>1, Zenon
  <2>7. (\A q \in Procs : pc[q] \in {"wake", "post", "signal"} => wakeup[q] # <<>>)'
    BY <1>1, <1>2, <1>5 DEF ListInv
  <2> QED BY <2>5, <2>6, <2>7, Zenon DEF ListInv
<1>11. Posts'[x] = Posts[x] + 1 /\ \A q \in Procs \ {x} : Posts'[q] = Posts[q]
  <2> DEFINE B(q) == {r \in Procs : pc[r] = "post" /\ Head(wakeup[r]) = q}
             C(q) == {r \in Procs : pc'[r] = "post" /\ Head(wakeup'[r]) = q}
  <2>1. C(x) = B(x) \cup {p} /\ p \notin B(x)
    <3>1. \A r \in Procs \ {p} : pc'[r] = pc[r] /\ wakeup'[r] = wakeup[r]
      BY <1>5, Zenon
    <3>2. pc'[p] = "post" /\ pc[p] # "post" /\ Head(wakeup'[p]) = x
      BY <1>2, <1>3, <1>5, Zenon
    <3> QED BY <3>1, <3>2
  <2>2. \A q \in Procs \ {x} : C(q) = B(q)
    <3>1. \A r \in Procs \ {p} : pc'[r] = pc[r] /\ wakeup'[r] = wakeup[r]
      BY <1>5, Zenon
    <3>2. pc[p] # "post" /\ Head(wakeup'[p]) = x
      BY <1>2, <1>3, <1>5, Zenon
    <3> QED BY <3>1, <3>2, Zenon
  <2>3. IsFiniteSet(B(x))
    BY FS_Subset
  <2>4. Cardinality(C(x)) = Cardinality(B(x)) + 1
    <3> HIDE DEF B, C
    <3> QED BY <2>1, <2>3, FS_AddElement, Zenon
  <2> QED BY <2>2, <2>4, <1>3, ZenonT(60) DEF Posts, Owed
<1>12. CountInv'
  <2> SUFFICES ASSUME NEW q \in Procs
               PROVE  /\ sem'[q] + extraWaits'[q] + Posts'[q] = Base(q) + Seen(q)'
                      /\ pc'[q] \notin Acquiring => extraWaits'[q] = 0
    BY Zenon DEF CountInv
  <2>1. UNCHANGED <<sem, extraWaits>> /\ (pc'[q] \in Acquiring <=> pc[q] \in Acquiring)
    BY <1>2, <1>5 DEF semVars, Acquiring
  <2>2. CASE q = x
    <3>1. Seen(x) = 0 /\ Seen(x)' = 1 /\ Base(x) \in Nat
      BY <1>3, <1>4, <1>5, Zenon DEF Seen, Base
    <3>2. sem[x] \in Nat /\ extraWaits[x] \in Nat /\ Posts[x] \in Nat
      BY <1>1, <1>3, PostsType, Zenon DEF TypeOK
    <3>3. sem[x] + extraWaits[x] + Posts[x] = Base(x) + 0
      BY <1>1, <1>3, <3>1, Zenon DEF CountInv
    <3>4. pc[x] \in Acquiring
      BY <1>4 DEF Waits, Acquiring
    <3>5. sem[x] + extraWaits[x] + (Posts[x] + 1) = Base(x) + 1
      BY <3>1, <3>2, <3>3
    <3> QED BY <2>1, <2>2, <1>11, <3>1, <3>4, <3>5, Zenon
  <2>3. CASE q # x
    <3>1. Seen(q)' = Seen(q)
      BY <2>3, <1>2, <1>5 DEF Seen, Waits
    <3> QED BY <2>1, <2>3, <3>1, <1>1, <1>11, ZenonT(60) DEF CountInv
  <2> QED BY <2>2, <2>3, Zenon
<1> QED BY <1>7, <1>8, <1>9, <1>10, <1>12, Zenon DEF IInv, CleanupInv, WakeupInv

(***************************************************************************)
(* The second half of a wake-up: the post that was owed is made.           *)
(***************************************************************************)
LEMMA SemaphoreUnlockStep ==
  ASSUME IInv, NEW p \in Procs, SemaphoreUnlock(p)
  PROVE  IInv'
<1> DEFINE l == IF Tail(wakeup[p]) = <<>> THEN After(p) ELSE "wake"
<1>1. CleanupInv /\ WakeupInv /\ TypeOK /\ CountInv /\ ListInv /\ QueueInv
  BY DEF IInv, CleanupInv, WakeupInv
<1>2. /\ pc[p] = "post" /\ pc' = [pc EXCEPT ![p] = l]
      /\ sem' = [sem EXCEPT ![Head(wakeup[p])] = @ + 1]
      /\ wakeup' = [wakeup EXCEPT ![p] = Tail(wakeup[p])]
      /\ UNCHANGED <<lockVars, extraWaits, pinVars, goal>>
  BY Zenon DEF SemaphoreUnlock, Goto
<1>3. PICK x \in Procs :
      /\ x = Head(wakeup[p]) /\ Tail(wakeup[p]) \in Seq(Procs)
      /\ \A i \in DOMAIN Tail(wakeup[p]) :
           i + 1 \in DOMAIN wakeup[p] \ {1} /\ Tail(wakeup[p])[i] = wakeup[p][i + 1]
           /\ i \in Nat
  <2>1. wakeup[p] \in Seq(Procs) /\ wakeup[p] # <<>>
    BY <1>1, <1>2 DEF TypeOK, ListInv
  <2> QED BY <2>1
<1>4. l \in {"wait", "abort", "pinned", "wake"} /\ (l = "wake" => Tail(wakeup[p]) # <<>>)
  BY Zenon DEF After
<1> HIDE DEF l
<1>5. \A q \in Procs : /\ sem'[q] = IF q = x THEN sem[q] + 1 ELSE sem[q]
                       /\ pc'[q] = IF q = p THEN l ELSE pc[q]
                       /\ wakeup'[q] = IF q = p THEN Tail(wakeup[p]) ELSE wakeup[q]
  BY <1>1, <1>2, <1>3, Zenon DEF TypeOK
<1>6. l \in Places
  BY <1>4 DEF Places
<1>7. TypeOK'
  <2>1. sem' \in [Procs -> Nat]
    <3>1. sem \in [Procs -> Nat] /\ sem[x] + 1 \in Nat
      <4>1. sem \in [Procs -> Nat] /\ x \in Procs
        BY <1>1, <1>3, Zenon DEF TypeOK
      <4> QED BY <4>1
    <3>2. sem' = [sem EXCEPT ![x] = sem[x] + 1]
      BY <1>2, <1>3, Zenon
    <3> QED BY <3>1, <3>2
  <2>2. wakeup' \in [Procs -> Seq(Procs)]
    BY <1>1, <1>2, <1>3, Zenon DEF TypeOK
  <2> QED BY <1>1, <1>2, <1>6, <2>1, <2>2, Zenon DEF TypeOK, lockVars, pinVars
<1>8. (LockInv /\ PinInv /\ GoalInv /\ CleanupAlone)'
  BY <1>1, <1>2, <1>4, <1>6, CleanupFrame, Zenon DEF lockVars, pinVars, Holding, Acquiring
<1>9. QueueInv'
  BY <1>1, <1>2, <1>5, ZenonT(60) DEF QueueInv, Waits, lockVars
<1>10. ListInv'
  <2>1. \A q \in Procs \ {p} : Pending(q)' = Pending(q) /\ wakeup'[q] = wakeup[q]
    BY <1>5, ZenonT(60) DEF Pending
  <2>2. \A i \in Pending(p)' : /\ i + 1 \in Pending(p) /\ i \in Nat
                               /\ wakeup'[p][i] = wakeup[p][i + 1]
    <3>1. /\ Pending(p)' \subseteq DOMAIN Tail(wakeup[p])
          /\ Pending(p) = DOMAIN wakeup[p] \ {1}
          /\ wakeup'[p] = Tail(wakeup[p])
      BY <1>2, <1>4, <1>5, ZenonT(60) DEF Pending
    <3> QED BY <3>1, <1>3
  <2>3. (\A q \in Procs : \A i \in Pending(q) : lwWaiting[wakeup[q][i]] = "pending")'
    <3>1. UNCHANGED lwWaiting
      BY <1>2, Zenon DEF lockVars
    <3>2. \A i \in Pending(p)' : lwWaiting'[wakeup'[p][i]] = "pending"
      <4>1. \A i \in Pending(p) : lwWaiting[wakeup[p][i]] = "pending"
        BY <1>1, Zenon DEF ListInv
      <4> QED BY <2>2, <3>1, <4>1
    <3>3. \A q \in Procs \ {p} : \A i \in Pending(q)' : lwWaiting'[wakeup'[q][i]] = "pending"
      <4>1. \A q \in Procs : \A i \in Pending(q) : lwWaiting[wakeup[q][i]] = "pending"
        BY <1>1, Zenon DEF ListInv
      <4> QED BY <2>1, <3>1, <4>1
    <3> QED BY <3>2, <3>3, Zenon
  <2>4. ASSUME NEW q \in Procs, NEW r \in Procs, NEW i \in Pending(q)',
               NEW j \in Pending(r)', wakeup'[q][i] = wakeup'[r][j]
        PROVE  q = r /\ i = j
    <3>0. ASSUME NEW k \in Pending(q), NEW m \in Pending(r), wakeup[q][k] = wakeup[r][m]
          PROVE  q = r /\ k = m
      BY <3>0, <1>1, ListedOnce, Zenon
    <3>1. CASE q = p /\ r = p
      <4>1. /\ i + 1 \in Pending(q) /\ wakeup[q][i + 1] = wakeup'[q][i] /\ i \in Nat
            /\ j + 1 \in Pending(r) /\ wakeup[r][j + 1] = wakeup'[r][j] /\ j \in Nat
        BY <3>1, <2>2, Zenon
      <4>2. i + 1 = j + 1
        BY <2>4, <3>0, <4>1, Zenon
      <4> QED BY <3>1, <4>1, <4>2
    <3>2. CASE q = p /\ r # p
      <4>1. /\ i + 1 \in Pending(q) /\ wakeup[q][i + 1] = wakeup'[q][i]
            /\ j \in Pending(r) /\ wakeup[r][j] = wakeup'[r][j]
        BY <3>2, <2>1, <2>2, Zenon
      <4> QED BY <2>4, <3>0, <3>2, <4>1, Zenon
    <3>3. CASE q # p /\ r = p
      <4>1. /\ i \in Pending(q) /\ wakeup[q][i] = wakeup'[q][i]
            /\ j + 1 \in Pending(r) /\ wakeup[r][j + 1] = wakeup'[r][j]
        BY <3>3, <2>1, <2>2, Zenon
      <4> QED BY <2>4, <3>0, <3>3, <4>1, Zenon
    <3>4. CASE q # p /\ r # p
      <4>1. /\ i \in Pending(q) /\ wakeup[q][i] = wakeup'[q][i]
            /\ j \in Pending(r) /\ wakeup[r][j] = wakeup'[r][j]
        BY <3>4, <2>1, Zenon
      <4> QED BY <2>4, <3>0, <4>1, Zenon
    <3> QED BY <3>1, <3>2, <3>3, <3>4, Zenon
  <2>5. (\A q, r \in Procs : \A i \in Pending(q), j \in Pending(r) :
           wakeup[q][i] = wakeup[r][j] => q = r /\ i = j)'
    BY <2>4
  <2>6. (\A q \in Procs : pc[q] \in {"wake", "post", "signal"} => wakeup[q] # <<>>)'
    BY <1>1, <1>4, <1>5, Zenon DEF ListInv
  <2> QED BY <2>3, <2>5, <2>6 DEF ListInv
<1>11. Posts'[x] = Posts[x] - 1 /\ \A q \in Procs \ {x} : Posts'[q] = Posts[q]
  <2> DEFINE B(q) == {r \in Procs : pc[r] = "post" /\ Head(wakeup[r]) = q}
             C(q) == {r \in Procs : pc'[r] = "post" /\ Head(wakeup'[r]) = q}
  <2>1. C(x) = B(x) \ {p} /\ p \in B(x)
    <3>1. \A r \in Procs \ {p} : pc'[r] = pc[r] /\ wakeup'[r] = wakeup[r]
      BY <1>5, Zenon
    <3>2. pc'[p] # "post" /\ pc[p] = "post" /\ Head(wakeup[p]) = x
      BY <1>2, <1>3, <1>4, <1>5, Zenon
    <3> QED BY <3>1, <3>2, Zenon
  <2>2. \A q \in Procs \ {x} : C(q) = B(q)
    <3>1. \A r \in Procs \ {p} : pc'[r] = pc[r] /\ wakeup'[r] = wakeup[r]
      BY <1>5, Zenon
    <3>2. pc'[p] # "post" /\ Head(wakeup[p]) = x
      BY <1>3, <1>4, <1>5, Zenon
    <3> QED BY <3>1, <3>2, Zenon
  <2>3. IsFiniteSet(B(x))
    BY FS_Subset
  <2>4. Cardinality(C(x)) = Cardinality(B(x)) - 1
    <3> HIDE DEF B, C
    <3> QED BY <2>1, <2>3, FS_RemoveElement, ZenonT(60)
  <2> QED BY <2>2, <2>4, <1>3, ZenonT(60) DEF Posts, Owed
<1>12. CountInv'
  <2> SUFFICES ASSUME NEW q \in Procs
               PROVE  /\ sem'[q] + extraWaits'[q] + Posts'[q] = Base(q) + Seen(q)'
                      /\ pc'[q] \notin Acquiring => extraWaits'[q] = 0
    BY DEF CountInv
  <2>1. /\ extraWaits'[q] = extraWaits[q] /\ Seen(q)' = Seen(q)
        /\ pc'[q] \in Acquiring <=> pc[q] \in Acquiring
    BY <1>2, <1>4, <1>5, Zenon DEF lockVars, Acquiring, Seen, Waits
  <2>2. sem[q] \in Nat /\ extraWaits[q] \in Nat /\ Posts[q] \in Nat
    BY <1>1, PostsType, Zenon DEF TypeOK
  <2>3. sem'[q] + extraWaits[q] + Posts'[q] = sem[q] + extraWaits[q] + Posts[q]
    BY <2>2, <1>5, <1>11
  <2> QED BY <2>1, <2>3, <1>1, Zenon DEF CountInv
<1> QED BY <1>7, <1>8, <1>9, <1>10, <1>12 DEF IInv, CleanupInv, WakeupInv

-----------------------------------------------------------------------------
(***************************************************************************)
(* Every behaviour.                                                        *)
(***************************************************************************)
LEMMA InitEstablishes == Init => IInv
<1> SUFFICES ASSUME Init PROVE IInv
  OBVIOUS
<1>1. TypeOK
  <2>1. <<>> \in Seq(Procs)
    OBVIOUS
  <2>2. wakeup \in [Procs -> Seq(Procs)] /\ queue \in Seq(Procs)
    BY <2>1, Zenon DEF Init
  <2>3. sem \in [Procs -> Nat] /\ extraWaits \in [Procs -> Nat]
    BY Zenon DEF Init, Base
  <2>4. held \in [Procs -> Modes \cup {None}] /\ mode \in [Procs -> Modes]
    BY Zenon DEF Init, Modes
  <2> QED BY <2>2, <2>3, <2>4, Zenon DEF Init, TypeOK, Places
<1>2. LockInv /\ PinInv /\ GoalInv /\ CleanupAlone
  BY Zenon DEF Init, LockInv, PinInv, GoalInv, CleanupAlone, Holding, Acquiring
<1>3. QueueInv
  <2>1. Members(queue) = {}
    BY <1>1, EmptyMembers, Zenon DEF Init, TypeOK
  <2> QED BY <2>1 DEF Init, QueueInv
<1>4. ListInv
  BY Zenon DEF Init, ListInv, Pending
<1>5. CountInv
  <2>1. \A p \in Procs : {q \in Procs : pc[q] = "post" /\ Head(wakeup[q]) = p} = {}
    BY DEF Init
  <2>2. \A p \in Procs : Posts[p] = 0
    BY <2>1, FS_EmptySet, Zenon DEF Posts, Owed
  <2> QED BY <2>2 DEF Init, CountInv, Seen, Waits, Base
<1> QED BY <1>1, <1>2, <1>3, <1>4, <1>5, Zenon DEF IInv, CleanupInv, WakeupInv

(***************************************************************************)
(* Every step keeps the invariant, action by action.                       *)
(***************************************************************************)
LEMMA NextPreserves == IInv /\ [Next]_vars => IInv'
<1> SUFFICES ASSUME IInv, [Next]_vars PROVE IInv'
  BY Zenon
<1>1. CASE UNCHANGED vars
  <2>1. UNCHANGED <<held, hasWaiters, queue, lwWaiting, mode, sem, extraWaits, wakeup,
                    pins, pinWaiter, looked, pc, goal>>
    BY <1>1, Zenon DEF vars, lockVars, semVars, pinVars
  <2>2. CleanupInv'
    <3>1. TypeOK'
      BY <2>1, Zenon DEF IInv, CleanupInv, TypeOK
    <3>2. LockInv' /\ PinInv'
      BY <2>1, Zenon DEF IInv, CleanupInv, LockInv, PinInv
    <3>3. GoalInv' /\ CleanupAlone'
      BY <2>1, Zenon DEF IInv, CleanupInv, GoalInv, CleanupAlone
    <3> QED BY <3>1, <3>2, <3>3, Zenon DEF CleanupInv
  <2>3. QueueInv' /\ ListInv'
    <3>1. QueueInv'
      <4>1. QueueInv /\ UNCHANGED <<hasWaiters, queue, lwWaiting, pc>>
        BY <2>1, Zenon DEF IInv, WakeupInv
      <4> QED BY <4>1, Zenon DEF QueueInv
    <3>2. ListInv'
      <4>1. ListInv /\ UNCHANGED <<lwWaiting, wakeup, pc>>
        BY <2>1, Zenon DEF IInv, WakeupInv
      <4> QED BY <4>1 DEF ListInv, Pending
    <3> QED BY <3>1, <3>2, Zenon
  <2>4. CountInv'
    <3>1. Posts' = Posts
      BY <2>1, PostsSame
    <3> QED BY <2>1, <3>1 DEF IInv, WakeupInv, CountInv, Seen
  <2> QED BY <2>2, <2>3, <2>4, Zenon DEF IInv, WakeupInv
<1>2. CASE Next
  <2>1. PICK p \in Procs : Goes(p) \/ Begins(p)
    BY <1>2, Zenon DEF Next
  <2>2. CASE Goes(p)
    BY <2>2, UnpinBufferStep, WakePinCountWaiterStep, ProcSendSignalStep,
       AttemptLockStep, QueueSelfStep, AttemptAgainStep, DequeueSelfStep,
       ClearWakeInProgressStep, SemaphoreLockStep, UnlockStep, BufferLockWakeupStep,
       WakeWaiterStep, SemaphoreUnlockStep, CheckPinsOnceStep, CheckPinsStep,
       SetPinWaiterStep, ProcWaitForSignalStep, ForgetPinWaiterStep,
       UnlockBuffersStep DEF Goes
  <2>3. CASE Begins(p)
    BY <2>3, PinBufferStep, LockBufferStep, ConditionalLockStep, CancelWaitStep,
       StrayLatchStep, Zenon DEF Begins
  <2> QED BY <2>1, <2>2, <2>3
<1> QED BY <1>1, <1>2, Zenon

\* An exclusive content lock excludes every other, a waiter is in the queue or
\* on one list, and posts balance wake-ups, in every state of the lock.
THEOREM ContentLockInvariant == Spec => []IInv
BY InitEstablishes, NextPreserves, PTL DEF Spec

\* Whoever holds the cleanup lock (LockBufferForCleanup,
\* ConditionalLockBufferForCleanup, IsBufferCleanupOK) is the only one that has
\* both looked at the page and kept its pin, for any number of processes.
THEOREM CleanupIsAlone == Spec => []CleanupAlone
<1>1. IInv => CleanupAlone
  BY Zenon DEF IInv, CleanupInv
<1> QED BY <1>1, ContentLockInvariant, PTL

\* Whatever races with the second attempt, BufferLockDequeueSelf and
\* BufferLockAcquire absorb one post for each wake-up and give back the others:
\* a process that is not acquiring the lock has its semaphore as it was.
THEOREM WakeupsAlwaysBalanced == Spec => []WakeupsBalanced
<1>1. IInv => WakeupsBalanced
  <2> SUFFICES ASSUME IInv PROVE WakeupsBalanced
    OBVIOUS
  <2>1. QueueInv /\ CountInv /\ TypeOK
    BY Zenon DEF IInv, WakeupInv, CleanupInv
  <2>2. \A p \in Procs : pc[p] = "queue" => lwWaiting[p] = "no"
    BY <2>1, Zenon DEF QueueInv, Waits
  <2>3. ASSUME NEW p \in Procs, pc[p] \notin Acquiring
        PROVE  lwWaiting[p] = "no" /\ sem[p] + Owed(p) = Base(p)
    <3>1. pc[p] \notin Waits
      BY <2>3, Zenon DEF Acquiring, Waits
    <3>2. extraWaits[p] = 0 /\ sem[p] + extraWaits[p] + Posts[p] = Base(p) + 0
      BY <2>1, <2>3, <3>1, Zenon DEF CountInv, Seen
    <3>3. sem[p] \in Nat /\ Posts[p] \in Nat /\ Posts[p] = Owed(p) /\ Base(p) \in Nat
      BY <2>1, PostsType DEF TypeOK, Posts, Base
    <3> QED BY <2>1, <3>1, <3>2, <3>3 DEF QueueInv
  <2> QED BY <2>1, <2>2, <2>3, Zenon DEF QueueInv, WakeupsBalanced
<1> QED BY <1>1, ContentLockInvariant, PTL
=============================================================================
