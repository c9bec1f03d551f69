------------------------ MODULE PolicyClientProofs --------------------------
(***************************************************************************)
(* The array operations of BufferQueue implement the operations on a       *)
(* totally ordered set of buffers; and the invariant of the buffer headers *)
(* that every policy rests on, which each step of the buffer manager       *)
(* preserves, for all constants.                                           *)
(***************************************************************************)
EXTENDS PolicyClient, FiniteSetTheorems, TLAPS

USE NBuffersAssumption, ClientAssumption

-----------------------------------------------------------------------------
(* The list of buffers                                                     *)


(***************************************************************************)
(* The sentinel NBuffers is a value of the arrays and no buffer.           *)
(***************************************************************************)
LEMMA SentinelIsNoBuffer ==
  NBuffers \notin Buf /\ Buf \subseteq Slots /\ NBuffers \in Slots
  BY DEF Buf, Slots

(***************************************************************************)
(* LRU_IN_LIST and the test in SieveNotifyInsert, which look at links      *)
(* only, decide membership exactly.                                        *)
(***************************************************************************)
LEMMA InListIsMember ==
  ASSUME NEW q \in Lists, NEW S \in SUBSET Buf, NEW R \in Order,
         Represents(q, S, R), NEW b \in Buf
  PROVE  InList(q, b) <=> b \in S
<1>1. CASE b \notin S
  <2>1. q.next[b] = NBuffers /\ q.prev[b] = NBuffers
    BY <1>1 DEF Represents
  <2>2. ListHead(q) # b
    BY <1>1, SentinelIsNoBuffer DEF Represents, IsHead
  <2> QED
    BY <1>1, <2>1, <2>2 DEF InList
<1>2. CASE b \in S
  <2>1. ASSUME q.next[b] = NBuffers, q.prev[b] = NBuffers
        PROVE  ListHead(q) = b
    <3>1. \A c \in S : b \notin R[c] /\ c \notin R[b]
      BY <1>2, <2>1 DEF Represents, IsNext, IsPrev
    <3>2. ListHead(q) \in S
      BY <1>2 DEF Represents, IsHead
    <3> QED
      BY <1>2, <3>1, <3>2 DEF Represents, StrictTotalOrder
  <2> QED
    BY <1>2, <2>1 DEF InList
<1> QED
  BY <1>1, <1>2

(***************************************************************************)
(* SieveInitialize and LRUInitialize link every buffer in the order of ids.*)
(***************************************************************************)
LEMMA InitListRepresents ==
  InitList \in Lists /\ InitOrder \in Order
    /\ Represents(InitList, Buf, InitOrder)
<1>1. InitList \in Lists /\ InitOrder \in Order
  BY DEF InitList, InitOrder, Lists, Slots, Order, Buf
<1>2. \A a, b \in Buf : a \in InitOrder[b] <=> a < b
  BY DEF InitOrder, Buf
<1>3. \A b \in Buf : InitOrder[b] \subseteq Buf
  BY <1>1 DEF Order
<1>4. StrictTotalOrder(Buf, InitOrder)
  <2>1. \A b \in Buf : InitOrder[b] \subseteq Buf /\ b \notin InitOrder[b]
    BY <1>2, <1>3 DEF Buf
  <2>2. \A a, b \in Buf : a # b => a \in InitOrder[b] \/ b \in InitOrder[a]
    BY <1>2 DEF Buf
  <2>3. \A a, b, c \in Buf :
          a \in InitOrder[b] /\ b \in InitOrder[c] => a \in InitOrder[c]
    BY <1>2 DEF Buf
  <2> QED
    BY <2>1, <2>2, <2>3 DEF StrictTotalOrder
<1>5. ASSUME NEW b \in Buf
      PROVE  /\ IsNext(Buf, InitOrder, b, InitList.next[b])
             /\ IsPrev(Buf, InitOrder, b, InitList.prev[b])
  <2>1. /\ InitList.next[b] = b + 1
        /\ InitList.prev[b] = IF b = 0 THEN NBuffers ELSE b - 1
    BY DEF InitList, Buf, Slots
  <2>2. IsNext(Buf, InitOrder, b, b + 1)
    <3>1. CASE b + 1 = NBuffers
      <4>1. \A c \in Buf : ~ (b < c)
        BY <3>1 DEF Buf
      <4> QED
        BY <1>2, <3>1, <4>1 DEF IsNext
    <3>2. CASE b + 1 # NBuffers
      <4>1. b + 1 \in Buf /\ b < b + 1
        BY <3>2 DEF Buf
      <4>2. \A c \in Buf : b < c => c = b + 1 \/ b + 1 < c
        BY DEF Buf
      <4> QED
        BY <1>2, <3>2, <4>1, <4>2 DEF IsNext
    <3> QED
      BY <3>1, <3>2
  <2>3. CASE b = 0
    <3>1. InitOrder[b] = {}
      BY <2>3 DEF InitOrder, Buf
    <3> QED
      BY <2>1, <2>2, <2>3, <3>1 DEF IsPrev
  <2>4. CASE b # 0
    <3>1. b - 1 \in Buf /\ b - 1 # NBuffers /\ b - 1 < b
      BY <2>4 DEF Buf
    <3>2. \A c \in Buf : c < b => c = b - 1 \/ c < b - 1
      BY DEF Buf
    <3>3. IsPrev(Buf, InitOrder, b, b - 1)
      BY <1>2, <1>3, <3>1, <3>2 DEF IsPrev
    <3> QED
      BY <2>1, <2>2, <2>4, <3>3
  <2> QED
    BY <2>3, <2>4
<1>6. IsHead(Buf, InitOrder, ListHead(InitList))
        /\ IsTail(Buf, InitOrder, ListTail(InitList))
  <2>1. ListHead(InitList) = NBuffers - 1 /\ ListTail(InitList) = 0
    BY DEF ListHead, ListTail, InitList, Slots
  <2>2. NBuffers - 1 \in Buf /\ 0 \in Buf /\ \A c \in Buf : ~ (NBuffers - 1 < c)
    BY DEF Buf
  <2>3. InitOrder[0] = {}
    BY <2>2 DEF InitOrder
  <2> QED
    BY <1>2, <2>1, <2>2, <2>3 DEF IsHead, IsTail
<1> QED
  BY <1>1, <1>4, <1>5, <1>6 DEF Represents

(***************************************************************************)
(* LRUUnlink, and SieveUnlinkAndAdvance as far as the links go, take one   *)
(* buffer out and leave the others linked in their order.                  *)
(***************************************************************************)
LEMMA UnlinkRepresents ==
  ASSUME NEW q \in Lists, NEW S \in SUBSET Buf, NEW R \in Order,
         Represents(q, S, R), NEW b \in S
  PROVE  /\ Unlink(q, b) \in Lists
         /\ Without(R, b) \in Order
         /\ Represents(Unlink(q, b), S \ {b}, Without(R, b))
<1> DEFINE T == S \ {b}
           Q == Without(R, b)
           o == q.prev[b]
           n == q.next[b]
           u == Unlink(q, b)
<1>1. b \in Buf /\ b # NBuffers /\ o \in Slots /\ n \in Slots /\ b \in Slots
  BY SentinelIsNoBuffer DEF Lists
<1>2. Q \in Order
  BY DEF Order, Without
<1>3. \A c \in T : Q[c] = R[c] \ {b}
  BY DEF Without
<1>4. u \in Lists
  BY <1>1, SentinelIsNoBuffer DEF Unlink, Lists
<1>5. /\ \A c \in S : R[c] \subseteq S /\ c \notin R[c]
      /\ \A a, c \in S : a # c => a \in R[c] \/ c \in R[a]
      /\ \A a, c, d \in S : a \in R[c] /\ c \in R[d] => a \in R[d]
  BY DEF Represents, StrictTotalOrder
<1>6. StrictTotalOrder(T, Q)
  BY <1>3, <1>5 DEF StrictTotalOrder
<1>7. \A c \in S : IsNext(S, R, c, q.next[c]) /\ IsPrev(S, R, c, q.prev[c])
  BY DEF Represents
<1>8. \A c \in S : c # NBuffers /\ c \in Slots
  BY SentinelIsNoBuffer
<1>9. ASSUME NEW c \in T
      PROVE  IsNext(T, Q, c, u.next[c])
  <2>1. u.next[c] = IF c = o THEN n ELSE q.next[c]
    BY <1>8 DEF Unlink
  <2>2. CASE c = o
    <3>1. o \in R[b] /\ \A d \in R[b] : d = o \/ d \in R[o]
      BY <1>7, <1>8, <2>2 DEF IsPrev
    <3>2. \A d \in T : o \in R[d] => b \in R[d]
      BY <1>5, <2>2, <3>1
    <3>3. n \in T => o \in R[n]
      BY <1>5, <1>7, <1>8, <2>2, <3>1 DEF IsNext
    <3>4. n = NBuffers \/ n \in T
      BY <1>5, <1>7 DEF IsNext
    <3> QED
      BY <1>3, <1>7, <1>8, <2>1, <2>2, <3>1, <3>2, <3>3, <3>4 DEF IsNext
  <2>3. CASE c # o
    <3>1. q.next[c] # b
      <4>1. SUFFICES ASSUME q.next[c] = b PROVE FALSE
        OBVIOUS
      <4>2. c \in R[b] /\ \A d \in S : c \in R[d] => d = b \/ b \in R[d]
        BY <1>7, <1>8, <4>1 DEF IsNext
      <4>3. o \in R[b] /\ c \in R[o]
        BY <1>7, <2>3, <4>2 DEF IsPrev
      <4> QED
        BY <1>5, <4>2, <4>3
    <3> QED
      BY <1>3, <1>7, <2>1, <2>3, <3>1 DEF IsNext
  <2> QED
    BY <2>2, <2>3
<1>10. ASSUME NEW c \in T
       PROVE  IsPrev(T, Q, c, u.prev[c])
  <2>1. u.prev[c] = IF c = n THEN o ELSE q.prev[c]
    BY <1>8 DEF Unlink
  <2>2. CASE c = n
    <3>1. b \in R[n] /\ \A d \in S : b \in R[d] => d = n \/ n \in R[d]
      BY <1>7, <1>8, <2>2 DEF IsNext
    <3>2. \A d \in R[n] : d = b \/ d \in R[b]
      BY <1>5, <2>2, <3>1
    <3>3. CASE o = NBuffers
      <4>1. R[b] = {}
        BY <1>7, <3>3 DEF IsPrev
      <4>2. Q[n] = {}
        BY <1>3, <2>2, <3>2, <4>1, Zenon
      <4> QED
        BY <2>1, <2>2, <3>3, <4>2 DEF IsPrev
    <3>4. CASE o # NBuffers
      <4>1. o \in R[b] /\ \A d \in R[b] : d = o \/ d \in R[o]
        BY <1>7, <3>4 DEF IsPrev
      <4>2. o \in T /\ o \in R[n]
        BY <1>5, <2>2, <3>1, <4>1
      <4> QED
        BY <1>3, <2>1, <2>2, <3>2, <3>4, <4>1, <4>2 DEF IsPrev
    <3> QED
      BY <3>3, <3>4
  <2>3. CASE c # n
    <3>1. q.prev[c] # b
      <4>1. SUFFICES ASSUME q.prev[c] = b PROVE FALSE
        OBVIOUS
      <4>2. b \in R[c] /\ \A d \in R[c] : d = b \/ d \in R[b]
        BY <1>7, <1>8, <4>1 DEF IsPrev
      <4>3. n \in S /\ b \in R[n] /\ n \in R[c]
        BY <1>7, <2>3, <4>2 DEF IsNext
      <4> QED
        BY <1>5, <4>2, <4>3
    <3>2. CASE q.prev[c] = NBuffers
      BY <1>3, <1>7, <2>1, <2>3, <3>2, Zenon DEF IsPrev
    <3>3. CASE q.prev[c] # NBuffers
      <4>1. /\ q.prev[c] \in R[c] /\ q.prev[c] \in T
            /\ \A d \in R[c] : d = q.prev[c] \/ d \in R[q.prev[c]]
        BY <1>5, <1>7, <3>1, <3>3, Zenon DEF IsPrev
      <4> QED
        BY <1>3, <2>1, <2>3, <3>3, <4>1, Zenon DEF IsPrev
    <3> QED
      BY <3>2, <3>3
  <2> QED
    BY <2>2, <2>3
<1>11. \A c \in Buf \ T : u.next[c] = NBuffers /\ u.prev[c] = NBuffers
  <2>1. SUFFICES ASSUME NEW c \in Buf \ T, c # b
                 PROVE  u.next[c] = NBuffers /\ u.prev[c] = NBuffers
    BY <1>1, Zenon DEF Unlink
  <2>2. c \in Slots /\ c # NBuffers /\ c \notin S
    BY <2>1, SentinelIsNoBuffer
  <2>3. q.next[c] = NBuffers /\ q.prev[c] = NBuffers
    BY <2>2 DEF Represents
  <2>4. c # o /\ c # n
    BY <1>5, <1>7, <2>2 DEF IsNext, IsPrev
  <2> QED
    BY <2>1, <2>2, <2>3, <2>4, Zenon DEF Unlink
<1>12. IsHead(T, Q, ListHead(u))
  <2>1. ListHead(u) = IF n = NBuffers THEN o ELSE ListHead(q)
    BY <1>1, SentinelIsNoBuffer DEF Unlink, ListHead
  <2>2. ListHead(q) \in S /\ \A c \in S : ListHead(q) \notin R[c]
    BY DEF Represents, IsHead
  <2>3. CASE n = NBuffers
    <3>1. \A c \in T : c \in R[b]
      BY <1>5, <1>7, <2>3 DEF IsNext
    <3> QED
      BY <1>1, <1>3, <1>5, <1>7, <2>1, <2>3, <3>1 DEF IsHead, IsPrev
  <2>4. CASE n # NBuffers
    <3>1. n \in S /\ b \in R[n]
      BY <1>7, <2>4 DEF IsNext
    <3>2. ListHead(q) \in T
      BY <2>2, <3>1
    <3> QED
      BY <1>3, <2>1, <2>2, <2>4, <3>2, Zenon DEF IsHead
  <2> QED
    BY <2>3, <2>4
<1>13. IsTail(T, Q, ListTail(u))
  <2>1. ListTail(u) = IF o = NBuffers THEN n ELSE ListTail(q)
    BY <1>1, SentinelIsNoBuffer DEF Unlink, ListTail
  <2>2. ListTail(q) \in S /\ R[ListTail(q)] = {}
    BY DEF Represents, IsTail
  <2>3. CASE o = NBuffers
    <3>1. R[b] = {} /\ \A c \in T : b \in R[c]
      BY <1>5, <1>7, <2>3, Zenon DEF IsPrev
    <3>2. CASE n = NBuffers
      BY <1>7, <2>1, <2>3, <3>1, <3>2, Zenon DEF IsTail, IsNext
    <3>3. CASE n # NBuffers
      <4>1. n \in T /\ \A d \in T : d = n \/ n \in R[d]
        BY <1>5, <1>7, <3>1, <3>3 DEF IsNext
      <4>2. Q[n] = {}
        BY <1>3, <1>5, <4>1
      <4> QED
        BY <2>1, <2>3, <4>1, <4>2, Zenon DEF IsTail
    <3> QED
      BY <3>2, <3>3
  <2>4. CASE o # NBuffers
    <3>1. o \in R[b] /\ ListTail(q) # b
      BY <1>7, <2>2, <2>4, Zenon DEF IsPrev
    <3> QED
      BY <1>3, <2>1, <2>2, <2>4, <3>1 DEF IsTail
  <2> QED
    BY <2>3, <2>4
<1> QED
  BY <1>2, <1>4, <1>6, <1>9, <1>10, <1>11, <1>12, <1>13, Zenon DEF Represents

(***************************************************************************)
(* LRUInsertMRU and SieveNotifyInsert put a buffer in front of all others. *)
(***************************************************************************)
LEMMA InsertRepresents ==
  ASSUME NEW q \in Lists, NEW S \in SUBSET Buf, NEW R \in Order,
         Represents(q, S, R), NEW b \in Buf \ S
  PROVE  /\ InsertHead(q, b) \in Lists
         /\ WithNewest(R, S, b) \in Order
         /\ Represents(InsertHead(q, b), S \union {b}, WithNewest(R, S, b))
<1> DEFINE T == S \union {b}
           Q == WithNewest(R, S, b)
           h == ListHead(q)
           u == InsertHead(q, b)
<1>1. b \in Buf /\ b # NBuffers /\ b \in Slots /\ h \in Slots
  BY SentinelIsNoBuffer DEF Lists, ListHead
<1>2. Q \in Order
  BY DEF Order, WithNewest
<1>3. Q[b] = S /\ \A c \in S : Q[c] = R[c]
  BY DEF WithNewest, Order
<1>4. u \in Lists
  BY <1>1, SentinelIsNoBuffer, Zenon DEF InsertHead, Lists
<1>5. /\ \A c \in S : R[c] \subseteq S /\ c \notin R[c]
      /\ \A a, c \in S : a # c => a \in R[c] \/ c \in R[a]
      /\ \A a, c, d \in S : a \in R[c] /\ c \in R[d] => a \in R[d]
  BY DEF Represents, StrictTotalOrder
<1>6. StrictTotalOrder(T, Q)
  BY <1>3, <1>5 DEF StrictTotalOrder
<1>7. \A c \in S : IsNext(S, R, c, q.next[c]) /\ IsPrev(S, R, c, q.prev[c])
  BY DEF Represents
<1>8. \A c \in S : c # NBuffers /\ c \in Slots /\ c # b
  BY SentinelIsNoBuffer, Zenon
<1>9. IF S = {} THEN h = NBuffers ELSE h \in S /\ \A c \in S : h \notin R[c]
  BY Zenon DEF Represents, IsHead
<1>10. ASSUME NEW c \in S
       PROVE  IsNext(T, Q, c, u.next[c]) /\ IsPrev(T, Q, c, u.prev[c])
  <2>1. u.next[c] = (IF c = h THEN b ELSE q.next[c]) /\ u.prev[c] = q.prev[c]
    BY <1>8, Zenon DEF InsertHead
  <2>2. IsPrev(T, Q, c, q.prev[c])
    BY <1>3, <1>5, <1>7 DEF IsPrev
  <2>3. CASE c = h
    BY <1>1, <1>3, <1>9, <2>1, <2>2, <2>3, Zenon DEF IsNext
  <2>4. CASE c # h
    <3>1. q.next[c] # NBuffers
      BY <1>5, <1>7, <1>9, <2>4 DEF IsNext
    <3>2. q.next[c] \in S /\ c \in R[q.next[c]]
      BY <1>7, <3>1, Zenon DEF IsNext
    <3> QED
      BY <1>3, <1>7, <2>1, <2>2, <2>4, <3>1, <3>2, Zenon DEF IsNext
  <2> QED
    BY <2>3, <2>4, Zenon
<1>11. IsNext(T, Q, b, u.next[b]) /\ IsPrev(T, Q, b, u.prev[b])
  <2>1. u.next[b] = NBuffers /\ u.prev[b] = h
    BY <1>1 DEF InsertHead
  <2>2. IsNext(T, Q, b, NBuffers)
    BY <1>3, <1>5, Zenon DEF IsNext
  <2>3. IsPrev(T, Q, b, h)
    BY <1>3, <1>5, <1>8, <1>9, Zenon DEF IsPrev
  <2> QED
    BY <2>1, <2>2, <2>3, Zenon
<1>12. \A c \in Buf \ T : u.next[c] = NBuffers /\ u.prev[c] = NBuffers
  <2>1. SUFFICES ASSUME NEW c \in Buf \ T
                 PROVE  u.next[c] = NBuffers /\ u.prev[c] = NBuffers
    OBVIOUS
  <2>2. c \in Slots /\ c # NBuffers /\ c # b /\ c # h
    BY <1>9, SentinelIsNoBuffer
  <2>3. q.next[c] = NBuffers /\ q.prev[c] = NBuffers
    BY DEF Represents
  <2> QED
    BY <2>2, <2>3, Zenon DEF InsertHead
<1>13. IsHead(T, Q, ListHead(u))
  <2>1. ListHead(u) = b
    BY <1>1, SentinelIsNoBuffer DEF InsertHead, ListHead
  <2> QED
    BY <1>3, <1>5, <2>1 DEF IsHead
<1>14. IsTail(T, Q, ListTail(u))
  <2>1. ListTail(u) = IF S = {} THEN b ELSE ListTail(q)
    BY <1>1, <1>8, <1>9, SentinelIsNoBuffer, Zenon DEF InsertHead, ListTail
  <2>2. S # {} => ListTail(q) \in S /\ R[ListTail(q)] = {}
    BY Zenon DEF Represents, IsTail
  <2> QED
    BY <1>3, <2>1, <2>2, Zenon DEF IsTail
<1> QED
  BY <1>2, <1>4, <1>6, <1>10, <1>11, <1>12, <1>13, <1>14, Zenon DEF Represents

(***************************************************************************)
(* Taking a buffer that is not linked out of the order changes nothing.    *)
(***************************************************************************)
LEMMA AbsentRepresents ==
  ASSUME NEW q \in Lists, NEW S \in SUBSET Buf, NEW R \in Order,
         Represents(q, S, R), NEW b \in Buf \ S
  PROVE  Without(R, b) \in Order /\ Represents(q, S, Without(R, b))
<1> DEFINE Q == Without(R, b)
<1>1. Q \in Order
  BY Zenon DEF Order, Without
<1>2. /\ StrictTotalOrder(S, R)
      /\ \A c \in S : IsNext(S, R, c, q.next[c]) /\ IsPrev(S, R, c, q.prev[c])
      /\ IsHead(S, R, ListHead(q)) /\ IsTail(S, R, ListTail(q))
  BY DEF Represents
<1>3. \A c \in S : Q[c] = R[c] /\ R[c] \subseteq S
  <2>1. \A c \in S : R[c] \subseteq S
    BY <1>2 DEF StrictTotalOrder
  <2>2. \A c \in S : Q[c] = R[c] \ {b}
    BY DEF Without
  <2> QED
    BY <2>1, <2>2, Zenon
<1>4. StrictTotalOrder(S, Q)
  BY <1>2, <1>3 DEF StrictTotalOrder
<1>5. \A c \in S : IsNext(S, Q, c, q.next[c])
  BY <1>2, <1>3 DEF IsNext
<1>6. \A c \in S : IsPrev(S, Q, c, q.prev[c])
  BY <1>2, <1>3, Zenon DEF IsPrev
<1>7. IsHead(S, Q, ListHead(q)) /\ IsTail(S, Q, ListTail(q))
  BY <1>2, <1>3 DEF IsHead, IsTail
<1> QED
  BY <1>1, <1>4, <1>5, <1>6, <1>7 DEF Represents

(***************************************************************************)
(* A walk of the list from old to new: the oldest buffer has none before   *)
(* it, each step puts one more buffer behind it, and at the newest buffer  *)
(* all the others are behind.                                              *)
(***************************************************************************)
LEMMA WalkFromOldest ==
  ASSUME NEW q \in Lists, NEW S \in SUBSET Buf, NEW R \in Order,
         Represents(q, S, R), NEW b \in S
  PROVE  /\ ListTail(q) \in S /\ R[ListTail(q)] = {}
         /\ R[b] \subseteq S /\ b \notin R[b]
         /\ q.next[b] = NBuffers => S = R[b] \cup {b}
         /\ q.next[b] # NBuffers =>
              q.next[b] \in S /\ R[q.next[b]] = R[b] \cup {b}
<1>1. /\ StrictTotalOrder(S, R) /\ IsNext(S, R, b, q.next[b])
      /\ IsTail(S, R, ListTail(q))
  BY Zenon DEF Represents
<1>2. ListTail(q) \in S /\ R[ListTail(q)] = {}
  BY <1>1, Zenon DEF IsTail
<1>3. R[b] \subseteq S /\ b \notin R[b]
  BY <1>1, Zenon DEF StrictTotalOrder
<1>4. ASSUME q.next[b] = NBuffers  PROVE S = R[b] \cup {b}
  <2>1. \A c \in S : b \notin R[c]
    BY <1>1, <1>4, Zenon DEF IsNext
  <2>2. \A c \in S : c # b => c \in R[b]
    BY <1>1, <2>1, Zenon DEF StrictTotalOrder
  <2> QED BY <1>3, <2>2, Zenon
<1>5. ASSUME q.next[b] # NBuffers
      PROVE  q.next[b] \in S /\ R[q.next[b]] = R[b] \cup {b}
  <2>1. PICK x : x = q.next[b]
    OBVIOUS
  <2>2. x \in S /\ b \in R[x] /\ \A c \in S : b \in R[c] => c = x \/ x \in R[c]
    BY <1>1, <1>5, <2>1, Zenon DEF IsNext
  <2>3. R[b] \subseteq R[x] /\ R[x] \subseteq S /\ x \notin R[x]
    BY <1>1, <1>3, <2>2, Zenon DEF StrictTotalOrder
  <2>4. ASSUME NEW c \in R[x], c # b  PROVE c \in R[b]
    <3>1. c \in S
      BY <2>3, <2>4, Zenon
    <3>2. CASE b \in R[c]
      <4>1. x \in R[c] /\ c # x
        BY <2>2, <2>3, <3>1, <3>2, Zenon
      <4> QED BY <1>1, <2>2, <2>3, <3>1, <4>1, Zenon DEF StrictTotalOrder
    <3> QED BY <1>1, <2>4, <3>1, <3>2, Zenon DEF StrictTotalOrder
  <2> QED BY <2>1, <2>2, <2>3, <2>4, Zenon
<1> QED BY <1>2, <1>3, <1>4, <1>5, Zenon

(***************************************************************************)
(* A buffer that is taken out of the list, if it is there, and put at its  *)
(* head is the newest of them afterwards, whether it was linked or not.    *)
(***************************************************************************)
LEMMA MoveRepresents ==
  ASSUME NEW q \in Lists, NEW S \in SUBSET Buf, NEW R \in Order,
         Represents(q, S, R), NEW b \in Buf,
         NEW c, c = IF InList(q, b) THEN Unlink(q, b) ELSE q
  PROVE  /\ InsertHead(c, b) \in Lists
         /\ WithNewest(Without(R, b), S \ {b}, b) \in Order
         /\ Represents(InsertHead(c, b), S \cup {b},
                       WithNewest(Without(R, b), S \ {b}, b))
<1>1. InList(q, b) <=> b \in S
  BY InListIsMember, Zenon
<1>2. c \in Lists /\ Without(R, b) \in Order /\ Represents(c, S \ {b}, Without(R, b))
  <2>1. CASE b \in S
    BY <1>1, <2>1, UnlinkRepresents, Zenon
  <2>2. CASE b \notin S
    <3>1. S \ {b} = S
      BY <2>2, Zenon
    <3> QED BY <1>1, <2>2, <3>1, AbsentRepresents, Zenon
  <2> QED BY <2>1, <2>2, Zenon
<1>3. PICK T \in SUBSET Buf : T = S \ {b}
  BY Zenon
<1>4. b \in Buf \ T /\ T \cup {b} = S \cup {b}
  BY <1>3, Zenon
<1> QED BY <1>2, <1>3, <1>4, InsertRepresents, Zenon

(***************************************************************************)
(* One buffer more, one more to count.                                     *)
(***************************************************************************)
LEMMA OneMore ==
  ASSUME NEW S, IsFiniteSet(S), NEW x, x \notin S
  PROVE  Cardinality(S \cup {x}) = Cardinality(S) + 1
BY FS_AddElement, Zenon

(***************************************************************************)
(* A set of as many buffers as the pool has is the whole pool.             *)
(***************************************************************************)
LEMMA WholePool ==
  ASSUME NEW S, S \subseteq Buf, NBuffers <= Cardinality(S)
  PROVE  S = Buf
<1>1. IsFiniteSet(Buf) /\ Cardinality(Buf) = NBuffers
  <2>1. 0 \in Int /\ NBuffers - 1 \in Int
    OBVIOUS
  <2> QED BY <2>1, FS_Interval DEF Buf
<1>2. IsFiniteSet(S) /\ Cardinality(S) \in Nat /\ Cardinality(S) <= Cardinality(Buf)
  BY <1>1, FS_Subset, FS_CardinalityType
<1>3. Cardinality(S) = Cardinality(Buf)
  BY <1>1, <1>2
<1> QED BY <1>1, <1>3, FS_Subset, Zenon

-----------------------------------------------------------------------------
(* The buffer headers                                                      *)


(***************************************************************************)
(* What a backend in the middle of a call knows about its buffer.          *)
(***************************************************************************)
CallInv ==
  \A p \in Backends :
    /\ pc[p] = "insert" => buf[p] \in victims[p]
    /\ pc[p] = "hit" => buf[p] \in pins[p]
    /\ pc[p] \in {"inval", "clear"} => buf[p] \in Buf /\ locked[buf[p]] = p
    /\ pc[p] = "clear" => refcount[buf[p]] = 0

ClientInv ==
  /\ ClientTypeOK
  /\ RefcountCountsPins
  /\ VictimsExclusive
  /\ CallInv

-----------------------------------------------------------------------------

(***************************************************************************)
(* A state word shows the header's fields as they are when it is read.     *)
(***************************************************************************)
LEMMA WordFields ==
  ASSUME NEW b
  PROVE  /\ Word(b).refcount = refcount[b] /\ Word(b).usage = usage[b]
         /\ Word(b).locked = locked[b]
BY DEF Word

(***************************************************************************)
(* The values a policy's trycounter takes: it starts at NBuffers and is    *)
(* counted down only when more than one try is left; 0 stands for no scan. *)
(***************************************************************************)
LEMMA TrialCounts ==
  /\ NBuffers \in 1 .. NBuffers /\ 0 \in 0 .. NBuffers
  /\ 1 .. NBuffers \subseteq 0 .. NBuffers
  /\ \A n \in 1 .. NBuffers : n > 1 => n - 1 \in 1 .. NBuffers
OBVIOUS

(***************************************************************************)
(* How many backends pin a buffer is a number.                             *)
(***************************************************************************)
LEMMA PinnersFinite ==
  \A b : IsFiniteSet(Pinners(b)) /\ Cardinality(Pinners(b)) \in Nat
  BY FS_Subset, FS_CardinalityType DEF Pinners

(***************************************************************************)
(* A refcount of 0 means that no backend pins the buffer, 1 that no two do.*)
(***************************************************************************)
LEMMA RefcountMeaning ==
  ASSUME ClientTypeOK, RefcountCountsPins, NEW b \in Buf
  PROVE  /\ refcount[b] = 0 <=> \A q \in Backends : b \notin pins[q]
         /\ refcount[b] = 1 =>
              \A p, q \in Backends : b \in pins[p] /\ b \in pins[q] => p = q
<1>1. refcount[b] = Cardinality(Pinners(b)) /\ IsFiniteSet(Pinners(b))
  BY PinnersFinite DEF RefcountCountsPins
<1>2. refcount[b] = 0 <=> Pinners(b) = {}
  BY <1>1, FS_EmptySet
<1>3. refcount[b] = 1 => \E x : Pinners(b) = {x}
  BY <1>1, FS_Singleton, Zenon
<1>4. (Pinners(b) = {}) <=> \A q \in Backends : b \notin pins[q]
  BY DEF Pinners
<1>5. ASSUME NEW x, Pinners(b) = {x}
      PROVE  \A p, q \in Backends : b \in pins[p] /\ b \in pins[q] => p = q
  BY <1>5 DEF Pinners
<1> QED
  BY <1>2, <1>3, <1>4, <1>5

(***************************************************************************)
(* The refcount keeps counting when one backend pins or unpins.            *)
(***************************************************************************)
LEMMA CountUp ==
  ASSUME ClientTypeOK, RefcountCountsPins,
         NEW p \in Backends, NEW b \in Buf, b \notin pins[p],
         refcount' = [refcount EXCEPT ![b] = @ + 1],
         pins' = [pins EXCEPT ![p] = @ \cup {b}]
  PROVE  /\ \A c \in Buf : refcount'[c] = Cardinality(Pinners(c)')
         /\ refcount' \in [Buf -> Nat] /\ pins' \in [Backends -> SUBSET Buf]
<1>1. refcount \in [Buf -> Nat] /\ pins \in [Backends -> SUBSET Buf]
  BY DEF ClientTypeOK
<1>2. Pinners(b)' = Pinners(b) \cup {p} /\ p \notin Pinners(b)
  BY <1>1 DEF Pinners
<1>3. \A c \in Buf \ {b} : Pinners(c)' = Pinners(c)
  BY <1>1 DEF Pinners
<1>4. Cardinality(Pinners(b) \cup {p}) = Cardinality(Pinners(b)) + 1
  BY <1>2, FS_AddElement, PinnersFinite, Zenon
<1>5. ASSUME NEW c \in Buf
      PROVE  refcount'[c] = Cardinality(Pinners(c)')
  <2>1. refcount[c] = Cardinality(Pinners(c))
    BY DEF RefcountCountsPins
  <2>2. CASE c = b
    BY <1>1, <1>2, <1>4, <2>1, <2>2, Zenon
  <2>3. CASE c # b
    BY <1>1, <1>3, <2>1, <2>3
  <2> QED
    BY <2>2, <2>3
<1> QED
  BY <1>1, <1>5

(***************************************************************************)
(* An unpin takes one off the shared count and one backend off the         *)
(* pinners.                                                                *)
(***************************************************************************)
LEMMA CountDown ==
  ASSUME ClientTypeOK, RefcountCountsPins,
         NEW p \in Backends, NEW b \in Buf, b \in pins[p],
         refcount' = [refcount EXCEPT ![b] = @ - 1],
         pins' = [pins EXCEPT ![p] = @ \ {b}]
  PROVE  /\ \A c \in Buf : refcount'[c] = Cardinality(Pinners(c)')
         /\ refcount' \in [Buf -> Nat] /\ pins' \in [Backends -> SUBSET Buf]
<1>1. refcount \in [Buf -> Nat] /\ pins \in [Backends -> SUBSET Buf]
  BY DEF ClientTypeOK
<1>2. Pinners(b)' = Pinners(b) \ {p} /\ p \in Pinners(b)
  BY <1>1 DEF Pinners
<1>3. \A c \in Buf \ {b} : Pinners(c)' = Pinners(c)
  BY <1>1 DEF Pinners
<1>4. Cardinality(Pinners(b) \ {p}) = Cardinality(Pinners(b)) - 1
  BY <1>2, FS_RemoveElement, PinnersFinite, Zenon
<1>5. refcount[b] # 0
  BY RefcountMeaning
<1>6. ASSUME NEW c \in Buf
      PROVE  refcount'[c] = Cardinality(Pinners(c)')
  <2>1. refcount[c] = Cardinality(Pinners(c))
    BY DEF RefcountCountsPins
  <2>2. CASE c = b
    BY <1>1, <1>2, <1>4, <2>1, <2>2, Zenon
  <2>3. CASE c # b
    BY <1>1, <1>3, <2>1, <2>3
  <2> QED
    BY <2>2, <2>3
<1> QED
  BY <1>1, <1>5, <1>6

(***************************************************************************)
(* A step that changes neither counts nor pins keeps them exact.           *)
(***************************************************************************)
LEMMA CountSame ==
  ASSUME ClientTypeOK, RefcountCountsPins,
         UNCHANGED <<refcount, pins>>,
         \A p \in Backends : victims'[p] \subseteq pins[p]
  PROVE  RefcountCountsPins'
  BY DEF RefcountCountsPins, Pinners

(***************************************************************************)
(* The steps of bufmgr.c that concern no policy.                           *)
(***************************************************************************)
LEMMA ManagerStepInv ==
  ASSUME ClientInv, NEW p \in Backends, ManagerStep(p)
  PROVE  ClientInv'
<1> USE DEF ClientInv
<1>1. CASE StrategyGetBuffer(p)
  <2>1. RefcountCountsPins'
    BY <1>1, CountSame DEF StrategyGetBuffer, headerVars, RefcountCountsPins
  <2>2. ClientTypeOK'
    BY <1>1, Zenon DEF StrategyGetBuffer, headerVars, Goto, ClientTypeOK, PCs
  <2>3. VictimsExclusive' /\ CallInv'
    BY <1>1 DEF StrategyGetBuffer, headerVars, Goto, ClientTypeOK,
                VictimsExclusive, CallInv
  <2> QED
    BY <2>1, <2>2, <2>3, Zenon
<1>2. CASE UnlockPinned(p)
  <2>1. RefcountCountsPins'
    BY <1>2, CountSame, Zenon DEF UnlockPinned, RefcountCountsPins
  <2>2. ClientTypeOK'
    BY <1>2, SentinelIsNoBuffer, Zenon DEF UnlockPinned, Return, ClientTypeOK, PCs
  <2>3. VictimsExclusive'
    BY <1>2 DEF UnlockPinned, VictimsExclusive
  <2>4. CallInv'
    BY <1>2 DEF UnlockPinned, Return, ClientTypeOK, CallInv
  <2> QED
    BY <2>1, <2>2, <2>3, <2>4, Zenon
<1>3. CASE ClearBufferTag(p)
  <2>1. RefcountCountsPins'
    BY <1>3, CountSame, Zenon DEF ClearBufferTag, RefcountCountsPins
  <2>2. buf[p] \in Buf /\ refcount[buf[p]] = 0
    BY <1>3 DEF ClearBufferTag, CallInv
  <2>3. ClientTypeOK'
    <3>1. tagged' \in [Buf -> BOOLEAN] /\ pc' \in [Backends -> PCs]
      BY <1>3, Zenon DEF ClearBufferTag, Return, ClientTypeOK, PCs
    <3>2. buf' \in [Backends -> Slots]
      BY <1>3, SentinelIsNoBuffer DEF ClearBufferTag, Return, ClientTypeOK
    <3>3. 0 \in 0 .. MaxUsage
      OBVIOUS
    <3>4. usage' \in [Buf -> 0 .. MaxUsage]
      BY <1>3, <2>2, <3>3 DEF ClearBufferTag, ClientTypeOK
    <3> QED
      BY <1>3, <3>1, <3>2, <3>4, Zenon DEF ClearBufferTag, ClientTypeOK
  <2>4. \A q \in Backends : buf[p] \notin victims[q]
    BY <2>2, RefcountMeaning DEF RefcountCountsPins
  <2>5. VictimsExclusive'
    BY <1>3, <2>2, <2>4 DEF ClearBufferTag, VictimsExclusive, ClientTypeOK
  <2>6. CallInv'
    BY <1>3 DEF ClearBufferTag, Return, ClientTypeOK, CallInv
  <2> QED
    BY <2>1, <2>3, <2>5, <2>6
<1>4. ASSUME NEW b \in Buf, UnpinBuffer(p, b)
      PROVE  ClientInv'
  <2>1. b \in pins[p] /\ b \notin victims[p]
    BY <1>4, Zenon DEF UnpinBuffer
  <2>2. /\ \A c \in Buf : refcount'[c] = Cardinality(Pinners(c)')
        /\ refcount' \in [Buf -> Nat] /\ pins' \in [Backends -> SUBSET Buf]
    BY <1>4, <2>1, CountDown, Zenon DEF UnpinBuffer
  <2>3. RefcountCountsPins'
    BY <1>4, <2>1, <2>2 DEF UnpinBuffer, RefcountCountsPins, ClientTypeOK
  <2>4. ClientTypeOK'
    BY <1>4, <2>2 DEF UnpinBuffer, ClientTypeOK
  <2>5. \A q \in Backends : b \in victims[q] => tagged[b]
    BY <2>1, RefcountMeaning DEF VictimsExclusive, RefcountCountsPins
  <2>6. VictimsExclusive'
    BY <1>4, <2>5 DEF UnpinBuffer, VictimsExclusive, ClientTypeOK
  <2>7. refcount[b] # 0
    BY <2>1, RefcountMeaning, Zenon
  <2>8. CallInv'
    <3>1. /\ pc[p] = "idle" /\ UNCHANGED <<pc, buf, locked, victims>>
          /\ \A q \in Backends \ {p} : pins'[q] = pins[q]
          /\ \A c \in Buf \ {b} : refcount'[c] = refcount[c]
      BY <1>4, Zenon DEF UnpinBuffer, ClientTypeOK
    <3> QED
      BY <2>7, <3>1, Zenon DEF CallInv
  <2> QED
    BY <2>3, <2>4, <2>6, <2>8, Zenon
<1>5. ASSUME NEW b \in Buf, GetBufferFromRing(p, b)
      PROVE  ClientInv'
  <2>1. \A q \in Backends : b \notin pins[q] /\ b \notin victims[q]
    BY <1>5, RefcountMeaning, Zenon DEF GetBufferFromRing, RefcountCountsPins
  <2>2. refcount' = [refcount EXCEPT ![b] = @ + 1]
    <3>1. refcount[b] + 1 = 1
      BY <1>5 DEF GetBufferFromRing
    <3> QED
      BY <1>5, <3>1, Zenon DEF GetBufferFromRing
  <2>3. /\ \A c \in Buf : refcount'[c] = Cardinality(Pinners(c)')
        /\ refcount' \in [Buf -> Nat] /\ pins' \in [Backends -> SUBSET Buf]
    BY <1>5, <2>1, <2>2, CountUp, Zenon DEF GetBufferFromRing
  <2>4. RefcountCountsPins'
    BY <1>5, <2>3 DEF GetBufferFromRing, RefcountCountsPins, ClientTypeOK
  <2>5. ClientTypeOK'
    BY <1>5, <2>3 DEF GetBufferFromRing, ClientTypeOK
  <2>6. VictimsExclusive'
    <3>1. UNCHANGED <<usage, tagged>> /\ refcount'[b] = 1
      BY <1>5, Zenon DEF GetBufferFromRing, ClientTypeOK
    <3>2. \A c \in Buf \ {b} : refcount'[c] = refcount[c]
      BY <1>5, Zenon DEF GetBufferFromRing, ClientTypeOK
    <3>3. /\ \A q \in Backends \ {p} : victims'[q] = victims[q]
          /\ victims'[p] = victims[p] \cup {b}
          /\ \A q \in Backends : victims[q] \subseteq Buf
      BY <1>5, Zenon DEF GetBufferFromRing, ClientTypeOK
    <3> QED
      BY <2>1, <3>1, <3>2, <3>3 DEF VictimsExclusive
  <2>7. CallInv'
    BY <1>5 DEF GetBufferFromRing, CallInv, ClientTypeOK
  <2> QED
    BY <2>4, <2>5, <2>6, <2>7
<1>6. ASSUME NEW b \in Buf, InvalidateVictimBuffer(p, b)
      PROVE  ClientInv'
  <2>1. RefcountCountsPins'
    BY <1>6, CountSame, Zenon DEF InvalidateVictimBuffer, RefcountCountsPins
  <2>2. ClientTypeOK'
    BY <1>6 DEF InvalidateVictimBuffer, ClientTypeOK
  <2>3. VictimsExclusive'
    <3>1. /\ UNCHANGED <<refcount, victims>> /\ refcount[b] = 1 /\ usage'[b] = 0
          /\ \A c \in Buf \ {b} : tagged'[c] = tagged[c] /\ usage'[c] = usage[c]
          /\ \A q \in Backends : victims[q] \subseteq Buf
      BY <1>6, Zenon DEF InvalidateVictimBuffer, ClientTypeOK
    <3> QED
      BY <3>1, Zenon DEF VictimsExclusive
  <2>4. CallInv'
    BY <1>6, Zenon DEF InvalidateVictimBuffer, CallInv
  <2> QED
    BY <2>1, <2>2, <2>3, <2>4, Zenon
<1>7. ASSUME NEW b \in Buf, ReuseVictim(p, b) \/ GiveUpVictim(p, b)
      PROVE  ClientInv'
  <2>1. RefcountCountsPins'
    BY <1>7, CountSame, Zenon
    DEF ReuseVictim, GiveUpVictim, headerVars, RefcountCountsPins
  <2>2. ClientTypeOK'
    <3>1. tagged' \in [Buf -> BOOLEAN] /\ pc' \in [Backends -> PCs]
      BY <1>7, Zenon DEF ReuseVictim, GiveUpVictim, headerVars, ClientTypeOK, PCs
    <3>2. usage' \in [Buf -> 0 .. MaxUsage] /\ buf' \in [Backends -> Slots]
      BY <1>7, SentinelIsNoBuffer
      DEF ReuseVictim, GiveUpVictim, headerVars, ClientTypeOK
    <3> QED
      BY <1>7, <3>1, <3>2, Zenon
      DEF ReuseVictim, GiveUpVictim, headerVars, ClientTypeOK
  <2>3. VictimsExclusive'
    <3>1. UNCHANGED <<refcount, victims>>
      BY <1>7, Zenon DEF ReuseVictim, GiveUpVictim, headerVars
    <3>2. /\ \A c \in Buf : ~tagged'[c] => ~tagged[c] /\ usage'[c] = usage[c]
          /\ \A q \in Backends : victims[q] \subseteq Buf
      BY <1>7, Zenon DEF ReuseVictim, GiveUpVictim, headerVars, ClientTypeOK
    <3> QED
      BY <3>1, <3>2, Zenon DEF VictimsExclusive
  <2>4. CallInv'
    BY <1>7 DEF ReuseVictim, GiveUpVictim, headerVars, CallInv, ClientTypeOK
  <2> QED
    BY <2>1, <2>2, <2>3, <2>4
<1>8. ASSUME NEW b \in Buf, LoseVictim(p, b)
      PROVE  ClientInv'
  <2>1. RefcountCountsPins'
    BY <1>8, CountSame, Zenon
    DEF LoseVictim, headerVars, RefcountCountsPins, ClientTypeOK
  <2>2. ClientTypeOK' /\ VictimsExclusive'
    BY <1>8, Zenon DEF LoseVictim, headerVars, ClientTypeOK, VictimsExclusive
  <2>3. CallInv'
    BY <1>8 DEF LoseVictim, headerVars, ClientTypeOK, CallInv
  <2> QED
    BY <2>1, <2>2, <2>3, Zenon
<1> QED
  BY <1>1, <1>2, <1>3, <1>4, <1>5, <1>6, <1>7, <1>8 DEF ManagerStep

(***************************************************************************)
(* PinBuffer and PinBuffer_Locked.                                         *)
(***************************************************************************)
LEMMA PinInv ==
  ASSUME ClientInv, NEW p \in Backends, NEW b \in Buf,
         NEW then \in {"idle", "hit"},
         PinBuffer(p, b, then) \/ PinBuffer_Locked(p, b)
  PROVE  ClientInv'
<1> USE DEF ClientInv
<1>1. /\ b \notin pins[p] /\ tagged[b] /\ locked[b] = None /\ pc[p] = "idle"
      /\ refcount' = [refcount EXCEPT ![b] = @ + 1]
      /\ pins' = [pins EXCEPT ![p] = @ \cup {b}]
      /\ UNCHANGED <<locked, tagged, strategyLock, victims>>
  BY Zenon DEF PinBuffer, PinBuffer_Locked
<1>2. /\ \A c \in Buf : refcount'[c] = Cardinality(Pinners(c)')
      /\ refcount' \in [Buf -> Nat] /\ pins' \in [Backends -> SUBSET Buf]
  BY <1>1, CountUp, Zenon
<1>3. RefcountCountsPins'
  BY <1>1, <1>2 DEF RefcountCountsPins, ClientTypeOK
<1>4. /\ usage' \in [Buf -> 0 .. MaxUsage]
      /\ \A c \in Buf \ {b} : usage'[c] = usage[c]
  <2>1. usage[b] \in 0 .. MaxUsage
    BY Zenon DEF ClientTypeOK
  <2>2. /\ (IF usage[b] < MaxUsage THEN usage[b] + 1 ELSE usage[b]) \in 0 .. MaxUsage
        /\ (IF usage[b] = 0 THEN 1 ELSE usage[b]) \in 0 .. MaxUsage
    BY <2>1
  <2> QED
    BY <2>2 DEF PinBuffer, PinBuffer_Locked, ClientTypeOK
<1>5. ClientTypeOK'
  <2>1. pc' \in [Backends -> PCs]
    BY DEF PinBuffer, PinBuffer_Locked, ClientTypeOK, PCs
  <2>2. buf' \in [Backends -> Slots]
    BY SentinelIsNoBuffer DEF PinBuffer, PinBuffer_Locked, ClientTypeOK
  <2> QED
    BY <1>1, <1>2, <1>4, <2>1, <2>2, Zenon DEF ClientTypeOK
<1>6. VictimsExclusive'
  <2>1. /\ \A c \in Buf \ {b} : refcount'[c] = refcount[c]
        /\ \A q \in Backends : victims[q] \subseteq Buf
    BY <1>1, Zenon DEF ClientTypeOK
  <2> QED
    BY <1>1, <1>4, <2>1, Zenon DEF VictimsExclusive
<1>7. CallInv'
  <2>1. \A q \in Backends : pc[q] \in {"inval", "clear"} => buf[q] # b
    BY <1>1, Zenon DEF CallInv
  <2>2. \A q \in Backends \ {p} : pc'[q] = pc[q] /\ buf'[q] = buf[q]
    BY DEF PinBuffer, PinBuffer_Locked, ClientTypeOK
  <2>3. pc'[p] = "idle" \/ (pc'[p] = "hit" /\ buf'[p] = b)
    BY <1>1 DEF PinBuffer, PinBuffer_Locked, ClientTypeOK
  <2>4. \A q \in Backends : pins[q] \subseteq pins'[q]
    BY <1>1, Zenon DEF ClientTypeOK
  <2>5. b \in pins'[p]
    BY <1>1, Zenon DEF ClientTypeOK
  <2>6. \A c \in Buf \ {b} : refcount'[c] = refcount[c]
    BY <1>1 DEF ClientTypeOK
  <2> QED
    <3>1. ASSUME NEW q \in Backends \ {p}
          PROVE  /\ pc'[q] = "insert" => buf'[q] \in victims'[q]
                 /\ pc'[q] = "hit" => buf'[q] \in pins'[q]
                 /\ pc'[q] \in {"inval", "clear"}
                      => buf'[q] \in Buf /\ locked'[buf'[q]] = q
                 /\ pc'[q] = "clear" => refcount'[buf'[q]] = 0
      BY <1>1, <2>1, <2>2, <2>4, <2>6 DEF CallInv
    <3> QED
      BY <2>3, <2>5, <3>1 DEF CallInv
<1> QED
  BY <1>3, <1>5, <1>6, <1>7, Zenon

(***************************************************************************)
(* InvalidateBuffer locks the header of its buffer.                        *)
(***************************************************************************)
LEMMA LockInv ==
  ASSUME ClientInv, NEW p \in Backends, NEW b \in Buf, LockBufHdr(p, b)
  PROVE  ClientInv'
<1> USE DEF ClientInv
<1>1. RefcountCountsPins'
  BY CountSame, Zenon DEF LockBufHdr, RefcountCountsPins
<1>2. ClientTypeOK'
  BY SentinelIsNoBuffer, Zenon DEF LockBufHdr, ClientTypeOK, PCs
<1>3. VictimsExclusive'
  BY Zenon DEF LockBufHdr, VictimsExclusive
<1>4. CallInv'
  <2>1. /\ pc' = [pc EXCEPT ![p] = "inval"] /\ buf' = [buf EXCEPT ![p] = b]
        /\ locked[b] = None /\ UNCHANGED <<refcount, pins, victims>>
    BY Zenon DEF LockBufHdr
  <2>2. pc'[p] = "inval" /\ buf'[p] = b /\ locked'[b] = p
    BY Zenon DEF LockBufHdr, ClientTypeOK
  <2>3. /\ \A q \in Backends \ {p} : pc'[q] = pc[q] /\ buf'[q] = buf[q]
        /\ \A c \in Buf \ {b} : locked'[c] = locked[c]
    BY Zenon DEF LockBufHdr, ClientTypeOK
  <2>4. ASSUME NEW q \in Backends \ {p}
        PROVE  /\ pc'[q] = "insert" => buf'[q] \in victims'[q]
               /\ pc'[q] = "hit" => buf'[q] \in pins'[q]
               /\ pc'[q] \in {"inval", "clear"}
                    => buf'[q] \in Buf /\ locked'[buf'[q]] = q
               /\ pc'[q] = "clear" => refcount'[buf'[q]] = 0
    BY <2>1, <2>3, ClientAssumption DEF CallInv
  <2> QED
    BY <2>2, <2>4, Zenon DEF CallInv
<1> QED
  BY <1>1, <1>2, <1>3, <1>4, Zenon

(***************************************************************************)
(* A policy claims a buffer that its CAS found unpinned and unlocked.      *)
(***************************************************************************)
LEMMA ClaimInv ==
  ASSUME ClientInv, NEW p \in Backends, NEW b \in Buf,
         pc[p] \in {"scan", "act"}, refcount[b] = 0, locked[b] = None,
         Claim(p, b), Return(p), UNCHANGED <<usage, locked, tagged>>,
         strategyLock' \in Backends \cup {None}
  PROVE  ClientInv' /\ \A q \in Backends : b \notin pins[q]
<1> USE DEF ClientInv
<1>1. \A q \in Backends : b \notin pins[q] /\ b \notin victims[q]
  BY RefcountMeaning, Zenon DEF RefcountCountsPins
<1>2. /\ \A c \in Buf : refcount'[c] = Cardinality(Pinners(c)')
      /\ refcount' \in [Buf -> Nat] /\ pins' \in [Backends -> SUBSET Buf]
  BY <1>1, CountUp, Zenon DEF Claim
<1>3. RefcountCountsPins'
  BY <1>2 DEF Claim, RefcountCountsPins, ClientTypeOK
<1>4. ClientTypeOK'
  <2>1. pc' \in [Backends -> PCs] /\ victims' \in [Backends -> SUBSET Buf]
    BY DEF Claim, Return, ClientTypeOK, PCs
  <2>2. buf' \in [Backends -> Slots]
    BY SentinelIsNoBuffer, Zenon DEF Return, ClientTypeOK
  <2> QED
    BY <1>2, <2>1, <2>2 DEF ClientTypeOK
<1>5. VictimsExclusive'
  BY <1>1 DEF Claim, VictimsExclusive, ClientTypeOK
<1>6. CallInv'
  <2>1. \A q \in Backends : pc[q] \in {"inval", "clear"} => buf[q] # b
    BY Zenon DEF CallInv
  <2> QED
    <3>1. /\ pc'[p] = "idle"
          /\ \A q \in Backends \ {p} : pc'[q] = pc[q] /\ buf'[q] = buf[q]
          /\ \A q \in Backends : victims[q] \subseteq victims'[q]
          /\ \A q \in Backends : pins[q] \subseteq pins'[q]
          /\ \A c \in Buf \ {b} : refcount'[c] = refcount[c]
      BY Zenon DEF Claim, Return, ClientTypeOK
    <3> QED
      BY <2>1, <3>1 DEF CallInv
<1> QED
  BY <1>1, <1>3, <1>4, <1>5, <1>6, Zenon

(***************************************************************************)
(* A victim is given back to the policy.                                   *)
(***************************************************************************)
LEMMA HandBackInv ==
  ASSUME ClientInv, NEW p \in Backends, pc[p] = "insert",
         HandBack(p), UNCHANGED <<headerVars, strategyLock, pins>>
  PROVE  ClientInv'
<1> USE DEF ClientInv
<1>1. RefcountCountsPins'
  BY CountSame, Zenon DEF HandBack, headerVars, RefcountCountsPins, ClientTypeOK
<1>2. ClientTypeOK'
  BY SentinelIsNoBuffer, Zenon DEF HandBack, Return, headerVars, ClientTypeOK, PCs
<1>3. VictimsExclusive'
  BY Zenon DEF HandBack, headerVars, VictimsExclusive, ClientTypeOK
<1>4. CallInv'
  BY Zenon DEF HandBack, Return, headerVars, ClientTypeOK, CallInv
<1> QED
  BY <1>1, <1>2, <1>3, <1>4

(***************************************************************************)
(* A step that changes at most the usage of one tagged buffer and moves p  *)
(* to a place where CallInv asks nothing of it.                            *)
(***************************************************************************)
LEMMA ScanStepInv ==
  ASSUME ClientInv, NEW p \in Backends,
         pc' \in [Backends -> PCs], buf' \in [Backends -> Slots],
         \A q \in Backends \ {p} : pc'[q] = pc[q] /\ buf'[q] = buf[q],
         pc'[p] \in {"idle", "get", "scan", "act"},
         usage' \in [Buf -> 0 .. MaxUsage],
         \A b \in Buf : usage[b] = 0 => usage'[b] = 0,
         strategyLock' \in Backends \cup {None},
         UNCHANGED <<refcount, locked, tagged, pins, victims>>
  PROVE  ClientInv'
<1> USE DEF ClientInv
<1>1. RefcountCountsPins'
  BY CountSame, Zenon DEF RefcountCountsPins
<1>2. ClientTypeOK'
  BY Zenon DEF ClientTypeOK
<1>3. VictimsExclusive'
  BY Zenon DEF VictimsExclusive, ClientTypeOK
<1>4. CallInv'
  <2>1. ASSUME NEW q \in Backends \ {p}
        PROVE  /\ pc'[q] = "insert" => buf'[q] \in victims'[q]
               /\ pc'[q] = "hit" => buf'[q] \in pins'[q]
               /\ pc'[q] \in {"inval", "clear"}
                    => buf'[q] \in Buf /\ locked'[buf'[q]] = q
               /\ pc'[q] = "clear" => refcount'[buf'[q]] = 0
    BY Zenon DEF CallInv
  <2> QED
    BY <2>1, Zenon DEF CallInv
<1> QED
  BY <1>1, <1>2, <1>3, <1>4, Zenon

(***************************************************************************)
(* InvalidateBuffer has notified the policy.                               *)
(***************************************************************************)
LEMMA NotifyInvalidateInv ==
  ASSUME ClientInv, NEW p \in Backends,
         pc[p] = "inval", refcount[buf[p]] = 0, Goto(p, "clear"),
         UNCHANGED <<headerVars, strategyLock, buf, pins, victims>>
  PROVE  ClientInv'
<1> USE DEF ClientInv
<1>1. RefcountCountsPins'
  BY CountSame, Zenon DEF headerVars, RefcountCountsPins
<1>2. ClientTypeOK'
  BY Zenon DEF Goto, headerVars, ClientTypeOK, PCs
<1>3. VictimsExclusive'
  BY Zenon DEF headerVars, VictimsExclusive, ClientTypeOK
<1>4. CallInv'
  BY Zenon DEF Goto, headerVars, ClientTypeOK, CallInv
<1> QED
  BY <1>1, <1>2, <1>3, <1>4, Zenon

(***************************************************************************)
(* The buffer manager's own steps leave every scan alone and, unless it    *)
(* loses victims, keep all of them.                                        *)
(***************************************************************************)
ClientStep(p) ==
  \/ ManagerStep(p)
  \/ \E b \in Buf :
       \/ \E then \in {"idle", "hit"} : PinBuffer(p, b, then)
       \/ PinBuffer_Locked(p, b)
       \/ LockBufHdr(p, b)

(***************************************************************************)
(* What a step of the buffer manager leaves alone: nobody's scan, nobody   *)
(* else's call and not the strategy lock.                                  *)
(***************************************************************************)
LEMMA ClientStepFrame ==
  ASSUME ClientTypeOK, NEW p \in Backends, ClientStep(p)
  PROVE  /\ pc[p] \notin {"scan", "act"} /\ pc'[p] \notin {"scan", "act"}
         /\ \A q \in Backends \ {p} : pc'[q] = pc[q] /\ buf'[q] = buf[q]
         /\ strategyLock' = strategyLock
         /\ LosesVictims \/ \A q \in Backends : victims[q] \subseteq victims'[q]
<1>1. CASE StrategyGetBuffer(p) \/ UnlockPinned(p) \/ ClearBufferTag(p)
  BY <1>1, Zenon DEF StrategyGetBuffer, UnlockPinned, ClearBufferTag, Goto, Return,
              ClientTypeOK
<1>2. ASSUME NEW b \in Buf,
             \/ UnpinBuffer(p, b) \/ GetBufferFromRing(p, b)
             \/ InvalidateVictimBuffer(p, b) \/ ReuseVictim(p, b)
             \/ GiveUpVictim(p, b) \/ LoseVictim(p, b)
      PROVE  /\ pc[p] \notin {"scan", "act"} /\ pc'[p] \notin {"scan", "act"}
             /\ \A q \in Backends \ {p} : pc'[q] = pc[q] /\ buf'[q] = buf[q]
             /\ strategyLock' = strategyLock
             /\ LosesVictims
                  \/ \A q \in Backends : victims[q] \subseteq victims'[q]
  <2>1. CASE UnpinBuffer(p, b) \/ GetBufferFromRing(p, b)
    BY <2>1 DEF UnpinBuffer, GetBufferFromRing, ClientTypeOK
  <2>2. CASE ReuseVictim(p, b) \/ GiveUpVictim(p, b)
    BY <2>2, Zenon DEF ReuseVictim, GiveUpVictim, ClientTypeOK
  <2>3. CASE InvalidateVictimBuffer(p, b) \/ LoseVictim(p, b)
    BY <2>3, Zenon DEF InvalidateVictimBuffer, LoseVictim
  <2> QED
    BY <1>2, <2>1, <2>2, <2>3, Zenon
<1>3. ASSUME NEW b \in Buf, NEW then \in {"idle", "hit"},
             \/ PinBuffer(p, b, then) \/ PinBuffer_Locked(p, b)
             \/ LockBufHdr(p, b)
      PROVE  /\ pc[p] \notin {"scan", "act"} /\ pc'[p] \notin {"scan", "act"}
             /\ \A q \in Backends \ {p} : pc'[q] = pc[q] /\ buf'[q] = buf[q]
             /\ strategyLock' = strategyLock
             /\ LosesVictims
                  \/ \A q \in Backends : victims[q] \subseteq victims'[q]
  BY <1>3 DEF PinBuffer, PinBuffer_Locked, LockBufHdr, ClientTypeOK
<1> QED
  BY <1>1, <1>2, <1>3, Zenon DEF ClientStep, ManagerStep

(***************************************************************************)
(* Every step of the buffer manager keeps counts, victims and calls in     *)
(* order.                                                                  *)
(***************************************************************************)
LEMMA ClientStepInv ==
  ASSUME ClientInv, NEW p \in Backends, ClientStep(p)
  PROVE  ClientInv'
<1>1. CASE ManagerStep(p)
  BY <1>1, ManagerStepInv, Zenon
<1>2. ASSUME NEW b \in Buf, NEW then \in {"idle", "hit"},
             PinBuffer(p, b, then) \/ PinBuffer_Locked(p, b)
      PROVE  ClientInv'
  BY <1>2, PinInv
<1>3. ASSUME NEW b \in Buf, LockBufHdr(p, b)
      PROVE  ClientInv'
  BY <1>3, LockInv
<1> QED
  BY <1>1, <1>2, <1>3 DEF ClientStep
=============================================================================
