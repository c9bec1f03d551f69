---------------------------- MODULE BufferQueue ----------------------------
(***************************************************************************)
(* The doubly linked list that SIEVE and LRU keep in two int32 arrays      *)
(* (freelist.c: SieveNext/SievePrev, LRUNext/LRUPrev).  Slot NBuffers is a *)
(* sentinel: next[NBuffers] is the head (newest buffer) and prev[NBuffers] *)
(* the tail (oldest).  next points towards newer buffers, prev towards     *)
(* older ones, and a buffer outside the list has both links at NBuffers.   *)
(* A list is a record q of the two arrays.                                 *)
(***************************************************************************)
EXTENDS Naturals

CONSTANT NBuffers

ASSUME NBuffersAssumption == NBuffers \in Nat \ {0}

Buf == 0 .. NBuffers - 1
Slots == 0 .. NBuffers
Lists == [next : [Slots -> Slots], prev : [Slots -> Slots]]

ListHead(q) == q.next[NBuffers]
ListTail(q) == q.prev[NBuffers]

(***************************************************************************)
(* The initial list: every buffer, in the order of its id.                 *)
(***************************************************************************)
InitList ==
  [next |-> [i \in Slots |-> IF i = NBuffers THEN NBuffers - 1 ELSE i + 1],
   prev |-> [i \in Slots |-> IF i = NBuffers THEN 0
                             ELSE IF i = 0 THEN NBuffers ELSE i - 1]]

(***************************************************************************)
(* The membership test of the code, on the links alone.                    *)
(***************************************************************************)
InList(q, b) == q.next[b] # NBuffers \/ q.prev[b] # NBuffers \/ ListHead(q) = b

(***************************************************************************)
(* Stitch the neighbours of b together and clear its links.                *)
(***************************************************************************)
Unlink(q, b) ==
  LET newer == q.next[b]
      older == q.prev[b]
  IN [next |-> [i \in Slots |->
                  IF i = b THEN NBuffers
                  ELSE IF i = NBuffers
                       THEN IF newer = NBuffers THEN older ELSE q.next[i]
                  ELSE IF i = older THEN newer ELSE q.next[i]],
      prev |-> [i \in Slots |->
                  IF i = b THEN NBuffers
                  ELSE IF i = NBuffers
                       THEN IF older = NBuffers THEN newer ELSE q.prev[i]
                  ELSE IF i = newer THEN older ELSE q.prev[i]]]

(***************************************************************************)
(* Link b in front of the current head.                                    *)
(***************************************************************************)
InsertHead(q, b) ==
  LET old_head == ListHead(q)
  IN [next |-> [i \in Slots |->
                  IF i = b THEN NBuffers
                  ELSE IF i = NBuffers \/ i = old_head THEN b
                  ELSE q.next[i]],
      prev |-> [i \in Slots |->
                  IF i = b THEN old_head
                  ELSE IF i = NBuffers /\ old_head = NBuffers THEN b
                  ELSE q.prev[i]]]

-----------------------------------------------------------------------------
(***************************************************************************)
(* What the arrays are meant to hold: a set S of buffers in a strict total *)
(* order R, where R[b] is the set of the buffers older than b.             *)
(***************************************************************************)
Order == [Buf -> SUBSET Buf]

InitOrder == [b \in Buf |-> 0 .. b - 1]

Without(R, b) == [c \in Buf |-> IF c = b THEN {} ELSE R[c] \ {b}]
WithNewest(R, S, b) == [R EXCEPT ![b] = S]

StrictTotalOrder(S, R) ==
  /\ \A b \in S : R[b] \subseteq S /\ b \notin R[b]
  /\ \A a, b \in S : a # b => a \in R[b] \/ b \in R[a]
  /\ \A a, b, c \in S : a \in R[b] /\ b \in R[c] => a \in R[c]

\* x is the next newer buffer after b, or the sentinel when b is the newest.
IsNext(S, R, b, x) ==
  IF x = NBuffers
  THEN \A c \in S : b \notin R[c]
  ELSE x \in S /\ b \in R[x] /\ \A c \in S : b \in R[c] => c = x \/ x \in R[c]

\* x is the next older buffer before b, or the sentinel when b is the oldest.
IsPrev(S, R, b, x) ==
  IF x = NBuffers
  THEN R[b] = {}
  ELSE x \in R[b] /\ \A c \in R[b] : c = x \/ c \in R[x]

\* x is the newest (oldest) buffer of S, or the sentinel when S is empty.
IsHead(S, R, x) ==
  IF S = {} THEN x = NBuffers ELSE x \in S /\ \A c \in S : x \notin R[c]
IsTail(S, R, x) ==
  IF S = {} THEN x = NBuffers ELSE x \in S /\ R[x] = {}

(***************************************************************************)
(* q represents the buffers of S in the order R.                           *)
(***************************************************************************)
Represents(q, S, R) ==
  /\ StrictTotalOrder(S, R)
  /\ \A b \in S : IsNext(S, R, b, q.next[b]) /\ IsPrev(S, R, b, q.prev[b])
  /\ \A b \in Buf \ S : q.next[b] = NBuffers /\ q.prev[b] = NBuffers
  /\ IsHead(S, R, ListHead(q))
  /\ IsTail(S, R, ListTail(q))
=============================================================================
