------------------------- MODULE BufferPoolProofs ---------------------------
(***************************************************************************)
(* The safety of the buffer pool, for any number of buffers, blocks,       *)
(* partitions and processes: what each step leaves alone; types, flags,    *)
(* partition locks, the mapping table and dropped relations; pins, content *)
(* locks and writes in progress; then the theorems.                        *)
(***************************************************************************)
EXTENDS BufferPoolInv, TLAPS

USE PoolAssumption

-----------------------------------------------------------------------------
(***************************************************************************)
(* What the steps leave alone.                                             *)
(***************************************************************************)
\* The parts together are the type invariant of the pool.
LEMMA TypeParts ==
  TypeOK <=> /\ HeaderOK /\ ContentOK /\ MappingOK /\ StoreOK /\ PlacesOK /\ LocalOK
BY Zenon DEF TypeOK, HeaderOK, ContentOK, MappingOK, StoreOK, PlacesOK, LocalOK, Places

\* Buffer numbers and the scan of DropRelationBuffers over them.
LEMMA BufferNumbers ==
  /\ 0 \in 0 .. NBuffers /\ Buf \subseteq 0 .. NBuffers
  /\ \A b \in Buf : ~(b < 0) /\ b < NBuffers /\ b + 1 \in 0 .. NBuffers
  /\ \A b \in Buf, i \in 0 .. NBuffers : b < i + 1 => b < i \/ b = i
BY DEF Buf

\* What BufferAlloc and GetVictimBuffer leave alone.
LEMMA AllocFrame ==
  ASSUME PlacesOK, LocalOK, NEW p \in Proc, Alloc(p)
  PROVE  /\ Moves(p)
         /\ UNCHANGED <<page, lockX, store, recptr>>
         /\ UNCHANGED <<tag, valid, dirty, justDirtied, io>>
            \/ EvictVictim(p) \/ SetTag(p)
         /\ UNCHANGED table \/ BufTableDelete(p) \/ InsertEntry(p)
<1>1. Moves(p)
  BY Zenon DEF Moves, PlacesOK, LocalOK, Alloc, Lookup, GetVictim, PinFound, LockVictim,
         VictimLocked, RejectVictim, LockToEvict, EvictVictim, VictimInUse,
         BufTableDelete, InsertEntry, SetTag, UseExisting, Goto, LetGo
<1>2. UNCHANGED <<page, lockX, store, recptr>>
  BY Zenon DEF Alloc, Lookup, GetVictim, PinFound, LockVictim, VictimLocked,
         RejectVictim, LockToEvict, EvictVictim, VictimInUse, BufTableDelete,
         InsertEntry, SetTag, UseExisting, content, store, LockShare, UnlockShare
<1>3. UNCHANGED <<tag, valid, dirty, justDirtied, io>> \/ EvictVictim(p) \/ SetTag(p)
  BY Zenon DEF Alloc, Lookup, GetVictim, PinFound, LockVictim, VictimLocked,
         RejectVictim, LockToEvict, VictimInUse, BufTableDelete, InsertEntry,
         UseExisting, header
<1>4. UNCHANGED table \/ BufTableDelete(p) \/ InsertEntry(p)
  BY Zenon DEF Alloc, Lookup, GetVictim, PinFound, LockVictim, VictimLocked,
         RejectVictim, LockToEvict, EvictVictim, VictimInUse, SetTag, UseExisting,
         mapping
<1> QED BY <1>1, <1>2, <1>3, <1>4, Zenon

\* What reading and changing a page leave alone.
LEMMA AccessFrame ==
  ASSUME PlacesOK, LocalOK, NEW p \in Proc, Access(p)
  PROVE  /\ Moves(p)
         /\ UNCHANGED <<tag, valid, mapping, disk, flushed, rel, old>>
         /\ UNCHANGED io \/ StartRead(p)
         /\ UNCHANGED <<dirty, justDirtied>> \/ Update(p) \/ MarkHint(p)
         /\ UNCHANGED page \/ Update(p) \/ SetHint(p) \/ MarkHint(p)
         /\ UNCHANGED latest \/ Update(p)
         /\ UNCHANGED hinted \/ HintAlreadyDirty(p) \/ MarkHint(p)
<1>1. Moves(p)
  BY Zenon DEF Moves, PlacesOK, LocalOK, Access, StartRead, ReadError, ReleaseBuffer,
         LockExclusive, Update, UnlockExclusive, LockShared, UnlockShared, SetHint,
         HintAlreadyDirty, HintLog, MarkHint, Goto, LetGo, local
<1>2. UNCHANGED <<tag, valid, mapping, disk, flushed, rel, old>>
  BY Zenon DEF Access, StartRead, ReadError, ReleaseBuffer, LockExclusive, Update,
         UnlockExclusive, LockShared, UnlockShared, SetHint, HintAlreadyDirty,
         HintLog, MarkHint, header, store, local
<1>3. UNCHANGED io \/ StartRead(p)
  BY Zenon DEF Access, ReadError, ReleaseBuffer, LockExclusive, Update,
         UnlockExclusive, LockShared, UnlockShared, SetHint, HintAlreadyDirty,
         HintLog, MarkHint, header
<1>4. UNCHANGED <<dirty, justDirtied>> \/ Update(p) \/ MarkHint(p)
  BY Zenon DEF Access, StartRead, ReadError, ReleaseBuffer, LockExclusive,
         UnlockExclusive, LockShared, UnlockShared, SetHint, HintAlreadyDirty,
         HintLog, header
<1>5. UNCHANGED page \/ Update(p) \/ SetHint(p) \/ MarkHint(p)
  BY Zenon DEF Access, StartRead, ReadError, ReleaseBuffer, LockExclusive,
         UnlockExclusive, LockShared, UnlockShared, HintAlreadyDirty, HintLog,
         content, LockShare, UnlockShare
<1>6. UNCHANGED latest \/ Update(p)
  BY Zenon DEF Access, StartRead, ReadError, ReleaseBuffer, LockExclusive,
         UnlockExclusive, LockShared, UnlockShared, SetHint, HintAlreadyDirty,
         HintLog, MarkHint, store
<1>7. UNCHANGED hinted \/ HintAlreadyDirty(p) \/ MarkHint(p)
  BY Zenon DEF Access, StartRead, ReadError, ReleaseBuffer, LockExclusive, Update,
         UnlockExclusive, LockShared, UnlockShared, SetHint, HintLog, store
<1> QED BY <1>1, <1>2, <1>3, <1>4, <1>5, <1>6, <1>7, Zenon

\* What FlushBuffer leaves alone.
LEMMA FlushFrame ==
  ASSUME PlacesOK, LocalOK, NEW p \in Proc, Flush(p)
  PROVE  /\ Moves(p)
         /\ UNCHANGED <<tag, valid, page, lockX, mapping, insert, rel, latest, hinted, old>>
         /\ UNCHANGED <<dirty, justDirtied>> \/ ReadLSN(p) \/ EndWrite(p)
         /\ UNCHANGED io \/ StartWrite(p) \/ WriteError(p) \/ EndWrite(p)
         /\ UNCHANGED flushed \/ XLogFlush(p)
         /\ UNCHANGED disk \/ SmgrWrite(p)
<1>1. Moves(p)
  BY Zenon DEF Moves, PlacesOK, LocalOK, Flush, SyncOneBuffer, LockForFlush, StartWrite,
         ReadLSN, XLogFlush, SmgrWrite, WriteError, EndWrite, AfterFlush, Goto, LetGo
<1>2. UNCHANGED <<tag, valid, page, lockX, mapping, insert, rel, latest, hinted, old>>
  BY Zenon DEF Flush, SyncOneBuffer, LockForFlush, StartWrite, ReadLSN, XLogFlush,
         SmgrWrite, WriteError, EndWrite, AfterFlush, header, content, store,
         LockShare, UnlockShare
<1>3. UNCHANGED <<dirty, justDirtied>> \/ ReadLSN(p) \/ EndWrite(p)
  BY Zenon DEF Flush, SyncOneBuffer, LockForFlush, StartWrite, XLogFlush, SmgrWrite,
         WriteError, AfterFlush, header
<1>4. UNCHANGED io \/ StartWrite(p) \/ WriteError(p) \/ EndWrite(p)
  BY Zenon DEF Flush, SyncOneBuffer, LockForFlush, ReadLSN, XLogFlush, SmgrWrite,
         AfterFlush, header
<1>5. UNCHANGED flushed \/ XLogFlush(p)
  BY Zenon DEF Flush, SyncOneBuffer, LockForFlush, StartWrite, ReadLSN, SmgrWrite,
         WriteError, EndWrite, AfterFlush, store
<1>6. UNCHANGED disk \/ SmgrWrite(p)
  BY Zenon DEF Flush, SyncOneBuffer, LockForFlush, StartWrite, ReadLSN, XLogFlush,
         WriteError, EndWrite, AfterFlush, store
<1> QED BY <1>1, <1>2, <1>3, <1>4, <1>5, <1>6, Zenon

\* What DropRelationBuffers leaves alone.
LEMMA DropFrame ==
  ASSUME PlacesOK, LocalOK, NEW p \in Proc, Drop(p)
  PROVE  /\ Moves(p)
         /\ UNCHANGED <<pins, content, disk, insert, flushed, latest, hinted, old, recptr>>
         /\ UNCHANGED <<tag, valid, dirty, justDirtied, io>> \/ DropClear(p)
         /\ UNCHANGED table \/ DropDelete(p)
         /\ UNCHANGED rel \/ (\E t \in Tags : BeginDrop(p, t)) \/ EndDrop(p)
<1>1. Moves(p)
  BY Zenon DEF Moves, PlacesOK, LocalOK, Drop, BeginDrop, DropScan, EndDrop, LockToDrop,
         DropTaken, DropPinned, WaitIO, DropClear, DropDelete, Goto
<1>2. UNCHANGED <<pins, content, disk, insert, flushed, latest, hinted, old, recptr>>
  BY Zenon DEF Drop, BeginDrop, DropScan, EndDrop, LockToDrop, DropTaken, DropPinned,
         WaitIO, DropClear, DropDelete, header, store
<1>3. UNCHANGED <<tag, valid, dirty, justDirtied, io>> \/ DropClear(p)
  BY Zenon DEF Drop, BeginDrop, DropScan, EndDrop, LockToDrop, DropTaken, DropPinned,
         WaitIO, DropDelete, header
<1>4. UNCHANGED table \/ DropDelete(p)
  BY Zenon DEF Drop, BeginDrop, DropScan, EndDrop, LockToDrop, DropTaken, DropPinned,
         WaitIO, DropClear, mapping
<1>5. UNCHANGED rel \/ (\E t \in Tags : BeginDrop(p, t)) \/ EndDrop(p)
  BY Zenon DEF Drop, DropScan, LockToDrop, DropTaken, DropPinned, WaitIO, DropClear,
         DropDelete, store
<1> QED BY <1>1, <1>2, <1>3, <1>4, <1>5, Zenon

\* The completion of a read moves its issuer, if that still waits for it.
LEMMA CompleteFrame ==
  ASSUME HeaderOK, HeadersSound, PlacesOK, NEW b \in Buf, NEW ok \in BOOLEAN,
         CompleteRead(b, ok)
  PROVE  /\ UNCHANGED <<tag, dirty, justDirtied, lockX, lockS, table, mapX, mapS, disk,
                        insert, flushed, rel, latest, hinted, want, old, buf, recptr>>
         /\ ~valid[b] /\ tag[b] # None /\ io[b] \in Proc
         /\ \A q \in Proc :
              \/ pc'[q] = pc[q] /\ ~(q = io[b] /\ pc[q] = "reading" /\ buf[q] = b)
              \/ /\ q = io[b] /\ pc[q] = "reading" /\ buf[q] = b
                 /\ pc'[q] = IF ok THEN "have" ELSE "failed"
<1>1. ~valid[b] /\ tag[b] # None /\ io[b] \in Proc
  BY Zenon DEF CompleteRead, HeadersSound, HeaderOK
<1>2. UNCHANGED <<tag, dirty, justDirtied, lockX, lockS, table, mapX, mapS, disk,
                  insert, flushed, rel, latest, hinted, want, old, buf, recptr>>
  BY Zenon DEF CompleteRead, mapping, store
<1>3. CASE pc[io[b]] = "reading" /\ buf[io[b]] = b
  BY <1>1, <1>2, <1>3, Zenon DEF CompleteRead, Goto, PlacesOK
<1>4. CASE ~(pc[io[b]] = "reading" /\ buf[io[b]] = b)
  BY <1>1, <1>2, <1>4, Zenon DEF CompleteRead
<1> QED BY <1>3, <1>4, Zenon

\* Allocation and write-back change the pins of the process itself only.
LEMMA OwnPins ==
  ASSUME HeaderOK, NEW p \in Proc
  PROVE  /\ Alloc(p) \/ Flush(p) => OwnPin(p)
         /\ Access(p) => OwnPin(p) \/ StartRead(p)
<1>1. ASSUME NEW c, PinBuffer(p, c) \/ UnpinBuffer(p, c)  PROVE OwnPin(p)
  BY <1>1 DEF OwnPin, HeaderOK, PinBuffer, UnpinBuffer
<1>2. ASSUME UNCHANGED pins  PROVE OwnPin(p)
  BY <1>2, Zenon DEF OwnPin
<1>3. ASSUME UseExisting(p)  PROVE OwnPin(p)
  BY <1>3, Zenon DEF UseExisting, OwnPin, HeaderOK
<1>4. ASSUME Alloc(p)  PROVE OwnPin(p)
  <2>1. UNCHANGED pins \/ UseExisting(p) \/ \E b : PinBuffer(p, b) \/ UnpinBuffer(p, b)
    BY <1>4, Zenon DEF Alloc, Lookup, GetVictim, PinFound, LockVictim, VictimLocked,
         RejectVictim, LockToEvict, EvictVictim, VictimInUse, BufTableDelete,
         InsertEntry, SetTag, header, LetGo
  <2> QED BY <1>1, <1>2, <1>3, <2>1, Zenon
<1>5. ASSUME Flush(p)  PROVE OwnPin(p)
  <2>1. UNCHANGED pins \/ \E b : PinBuffer(p, b) \/ UnpinBuffer(p, b)
    BY <1>5, Zenon DEF Flush, SyncOneBuffer, LockForFlush, StartWrite, ReadLSN, XLogFlush,
         SmgrWrite, WriteError, EndWrite, AfterFlush, header, LetGo
  <2> QED BY <1>1, <1>2, <2>1, Zenon
<1>6. ASSUME Access(p)  PROVE OwnPin(p) \/ StartRead(p)
  <2>1. UNCHANGED pins \/ StartRead(p) \/ \E b : UnpinBuffer(p, b)
    BY <1>6, Zenon DEF Access, ReadError, ReleaseBuffer, LockExclusive, Update,
         UnlockExclusive, LockShared, UnlockShared, SetHint, HintAlreadyDirty,
         HintLog, MarkHint, header, LetGo
  <2> QED BY <1>1, <1>2, <2>1, Zenon
<1> QED BY <1>4, <1>5, <1>6, Zenon

\* Where a process has a pin, its buffer is a buffer.
LEMMA PinnedBuf ==
  ASSUME PinsHold, NEW p \in Proc, pc[p] \in PinPlaces
  PROVE  buf[p] \in Buf /\ p \in pins[buf[p]]
BY Zenon DEF PinsHold, PinHolds

\* The fields of a page.
LEMMA PageTyped ==
  ASSUME ContentOK, NEW b \in Buf
  PROVE  /\ page[b].ver \in 0 .. MaxLSN /\ page[b].lsn \in 0 .. MaxLSN
         /\ page[b].hint \in BOOLEAN
BY Zenon DEF ContentOK, Page

\* The holder of a partition lock is alone with the tags of the partition.
LEMMA PartitionExclusive ==
  ASSUME PartitionsLocked, NEW p \in Proc, NEW t \in Tags, mapX[PartitionOf[t]] = p
  PROVE  \A q \in Proc \ {p} :
           ~HoldsPartition(q, t) /\ ~Changing(q, t) /\ ~(pc[q] = "found" /\ want[q] = t)
BY DEF PartitionsLocked, HoldsPartition, Changing

\* A table entry that nobody is changing agrees with the headers.
LEMMA FreeAgrees ==
  ASSUME PartitionsLocked, TableSound, NEW t \in Tags,
         mapX[PartitionOf[t]] = None \/ mapS[PartitionOf[t]] # {}
  PROVE  Agree(t)
BY DEF PartitionsLocked, TableSound, HoldsPartition, Changing

\* Nor does one that its holder is not changing disagree.
LEMMA LockedAgrees ==
  ASSUME PartitionsLocked, TableSound, NEW p \in Proc, NEW t \in Tags,
         HoldsPartition(p, t), ~Changing(p, t)
  PROVE  Agree(t)
BY PartitionExclusive DEF PartitionsLocked, TableSound

-----------------------------------------------------------------------------
(***************************************************************************)
(* The types.                                                              *)
(***************************************************************************)
\* PinBuffer and UnpinBuffer keep the holders processes.
LEMMA PinsTyped ==
  ASSUME HeaderOK, NEW p \in Proc \cup {Aio}, NEW b,
         PinBuffer(p, b) \/ UnpinBuffer(p, b)
  PROVE  pins' \in [Buf -> SUBSET (Proc \cup {Aio})]
BY DEF HeaderOK, PinBuffer, UnpinBuffer

\* Every step keeps the types of the headers.
LEMMA HeaderStep ==
  ASSUME HeaderOK, PlacesOK, LocalOK, Next
  PROVE  HeaderOK'
<1>1. ASSUME NEW p \in Backends, Alloc(p)  PROVE HeaderOK'
  <2> p \in Proc
    BY Zenon DEF Proc
  <2>1. pins' \in [Buf -> SUBSET (Proc \cup {Aio})]
    <3>1. CASE UseExisting(p)
      BY <3>1, Zenon DEF UseExisting, HeaderOK
    <3>2. CASE ~UseExisting(p)
      <4>1. UNCHANGED pins \/ \E b : PinBuffer(p, b) \/ UnpinBuffer(p, b)
        BY <1>1, <3>2, Zenon DEF Alloc, Lookup, GetVictim, PinFound, LockVictim,
             VictimLocked, RejectVictim, LockToEvict, EvictVictim, VictimInUse,
             BufTableDelete, InsertEntry, SetTag, header, LetGo
      <4> QED BY <4>1, PinsTyped, Zenon DEF HeaderOK
    <3> QED BY <3>1, <3>2, Zenon
  <2>2. CASE EvictVictim(p)
    BY <2>1, <2>2, Zenon DEF HeaderOK, EvictVictim, ClearHeader
  <2>3. CASE SetTag(p)
    BY <2>1, <2>3, Zenon DEF HeaderOK, SetTag, LocalOK
  <2>4. CASE UNCHANGED <<tag, valid, dirty, justDirtied, io>>
    BY <2>1, <2>4, Zenon DEF HeaderOK
  <2> QED BY <1>1, <2>2, <2>3, <2>4, AllocFrame, Zenon
<1>2. ASSUME NEW p \in Backends, Access(p)  PROVE HeaderOK'
  <2> p \in Proc
    BY Zenon DEF Proc
  <2>1. UNCHANGED pins \/ \E q \in {p, Aio} : \E b : PinBuffer(q, b) \/ UnpinBuffer(q, b)
    BY <1>2, Zenon DEF Access, StartRead, ReadError, ReleaseBuffer, LockExclusive, Update,
         UnlockExclusive, LockShared, UnlockShared, SetHint, HintAlreadyDirty,
         HintLog, MarkHint, header, LetGo
  <2>2. pins' \in [Buf -> SUBSET (Proc \cup {Aio})]
    BY <2>1, PinsTyped, Zenon DEF HeaderOK
  <2>3. io' \in [Buf -> Proc \cup {None}]
    BY <1>2, AccessFrame DEF HeaderOK, StartRead
  <2>4. dirty' \in [Buf -> BOOLEAN] /\ justDirtied' \in [Buf -> BOOLEAN]
    BY <1>2, AccessFrame, Zenon DEF HeaderOK, Update, MarkHint
  <2> QED BY <1>2, <2>2, <2>3, <2>4, AccessFrame, Zenon DEF HeaderOK
<1>3. ASSUME NEW p \in Backends \cup Writers, Flush(p)  PROVE HeaderOK'
  <2> p \in Proc
    BY Zenon DEF Proc
  <2>1. UNCHANGED pins \/ \E b : PinBuffer(p, b) \/ UnpinBuffer(p, b)
    BY <1>3, Zenon DEF Flush, SyncOneBuffer, LockForFlush, StartWrite, ReadLSN, XLogFlush,
         SmgrWrite, WriteError, EndWrite, AfterFlush, header, LetGo
  <2>2. pins' \in [Buf -> SUBSET (Proc \cup {Aio})]
    BY <2>1, PinsTyped, Zenon DEF HeaderOK
  <2>3. io' \in [Buf -> Proc \cup {None}]
    BY <1>3, FlushFrame DEF HeaderOK, StartWrite, WriteError, EndWrite
  <2>4. dirty' \in [Buf -> BOOLEAN] /\ justDirtied' \in [Buf -> BOOLEAN]
    <3>1. CASE ReadLSN(p)
      BY <3>1, Zenon DEF HeaderOK, ReadLSN
    <3>2. CASE EndWrite(p)
      BY <3>2, Zenon DEF HeaderOK, EndWrite
    <3> QED BY <1>3, <3>1, <3>2, FlushFrame, Zenon DEF HeaderOK
  <2> QED BY <1>3, <2>2, <2>3, <2>4, FlushFrame, Zenon DEF HeaderOK
<1>4. ASSUME NEW p \in Droppers, Drop(p)  PROVE HeaderOK'
  <2>1. CASE DropClear(p)
    BY <2>1, Zenon DEF HeaderOK, DropClear, ClearHeader
  <2>2. CASE UNCHANGED <<tag, valid, dirty, justDirtied, io>>
    BY <1>4, <2>2, DropFrame, Zenon DEF HeaderOK, Proc
  <2> QED BY <1>4, <2>1, <2>2, DropFrame, Zenon DEF Proc
<1>5. ASSUME NEW b \in Buf, NEW ok \in BOOLEAN, CompleteRead(b, ok)  PROVE HeaderOK'
  BY <1>5, PinsTyped, Zenon DEF HeaderOK, CompleteRead
<1> QED BY <1>1, <1>2, <1>3, <1>4, <1>5, Zenon DEF Next

\* Every step keeps the types of pages and content locks.
LEMMA ContentStep ==
  ASSUME ContentOK, HeaderOK, StoreOK, LocalOK, PlacesOK, HeadersSound, Next
  PROVE  ContentOK'
<1>1. ASSUME NEW p \in Proc, NEW b, LockShare(p, b) \/ UnlockShare(p, b)
      PROVE  ContentOK'
  BY <1>1 DEF ContentOK, LockShare, UnlockShare
<1>2. ASSUME NEW p \in Backends, Alloc(p)  PROVE ContentOK'
  <2>1. UNCHANGED content \/ LockShare(p, buf[p]) \/ UnlockShare(p, buf[p])
    BY <1>2, Zenon DEF Alloc, Lookup, GetVictim, PinFound, LockVictim, VictimLocked,
         RejectVictim, LockToEvict, EvictVictim, VictimInUse, BufTableDelete,
         InsertEntry, SetTag, UseExisting
  <2> QED BY <1>1, <2>1, Zenon DEF content, ContentOK, Proc
<1>3. ASSUME NEW p \in Backends, Access(p)  PROVE ContentOK'
  <2> p \in Proc /\ recptr[p] \in 0 .. MaxLSN
    BY Zenon DEF Proc, LocalOK
  <2>1. CASE Update(p)
    <3>1. insert + 1 \in 0 .. MaxLSN
      BY <2>1 DEF Update, StoreOK
    <3> QED BY <2>1, <3>1, PageTyped, Zenon DEF Update, ContentOK, Page
  <2>2. CASE SetHint(p)
    BY <2>2, PageTyped, Zenon DEF SetHint, ContentOK, Page
  <2>3. CASE MarkHint(p)
    BY <2>3, PageTyped, Zenon DEF MarkHint, ContentOK, Page
  <2>4. CASE LockExclusive(p) \/ UnlockExclusive(p)
    BY <2>4 DEF LockExclusive, UnlockExclusive, ContentOK
  <2>5. \/ UNCHANGED content \/ LockShare(p, buf[p]) \/ UnlockShare(p, buf[p])
        \/ Update(p) \/ SetHint(p) \/ MarkHint(p) \/ LockExclusive(p) \/ UnlockExclusive(p)
    BY <1>3, Zenon DEF Access, StartRead, ReadError, ReleaseBuffer, LockShared,
         UnlockShared, HintAlreadyDirty, HintLog
  <2> QED BY <1>1, <2>1, <2>2, <2>3, <2>4, <2>5, Zenon DEF content, ContentOK
<1>4. ASSUME NEW p \in Backends \cup Writers, Flush(p)  PROVE ContentOK'
  <2>1. UNCHANGED content \/ LockShare(p, buf[p]) \/ UnlockShare(p, buf[p])
    BY <1>4, Zenon DEF Flush, SyncOneBuffer, LockForFlush, StartWrite, ReadLSN, XLogFlush,
         SmgrWrite, WriteError, EndWrite, AfterFlush
  <2> QED BY <1>1, <2>1, Zenon DEF content, ContentOK, Proc
<1>5. ASSUME NEW p \in Droppers, Drop(p)  PROVE ContentOK'
  BY <1>5, DropFrame, Zenon DEF content, ContentOK, Proc
<1>6. ASSUME NEW b \in Buf, NEW ok \in BOOLEAN, CompleteRead(b, ok)  PROVE ContentOK'
  <2>1. disk[tag[b]] \in Page
    BY <1>6, Zenon DEF CompleteRead, HeadersSound, HeaderOK, StoreOK
  <2> QED BY <1>6, <2>1, Zenon DEF CompleteRead, ContentOK
<1> QED BY <1>2, <1>3, <1>4, <1>5, <1>6, Zenon DEF Next

\* Every step keeps the types of the table and its locks.
LEMMA MappingStep ==
  ASSUME MappingOK, LocalOK, PlacesOK, PinsHold, Next
  PROVE  MappingOK'
<1>1. ASSUME NEW p \in Proc, NEW t, MapLockX(p, t) \/ MapUnlockX(t)
      PROVE  mapX' \in [Partitions -> Proc \cup {None}] /\ mapS' \in [Partitions -> SUBSET Proc]
  BY <1>1 DEF MappingOK, MapLockX, MapUnlockX
<1>2. ASSUME NEW p \in Backends, Alloc(p)  PROVE MappingOK'
  <2> p \in Proc
    BY Zenon DEF Proc
  <2>1. table' \in [Tags -> Buf \cup {None}]
    <3>1. CASE BufTableDelete(p)
      BY <3>1, Zenon DEF BufTableDelete, MappingOK
    <3>2. CASE InsertEntry(p)
      <4>1. buf[p] \in Buf
        BY <3>2, PinnedBuf, Zenon DEF InsertEntry, At, PinPlaces, OwnPlaces
      <4> QED BY <3>2, <4>1, Zenon DEF InsertEntry, MappingOK
    <3> QED BY <1>2, <3>1, <3>2, AllocFrame, Zenon DEF MappingOK
  <2>2. \/ UNCHANGED <<mapX, mapS>> \/ \E t : MapLockX(p, t) \/ MapUnlockX(t)
        \/ PinFound(p) \/ \E t \in Tags : Lookup(p, t)
    BY <1>2, Zenon DEF Alloc, GetVictim, LockVictim, VictimLocked, RejectVictim,
         LockToEvict, EvictVictim, VictimInUse, BufTableDelete, InsertEntry,
         SetTag, UseExisting, mapping
  <2>3. CASE PinFound(p) \/ \E t \in Tags : Lookup(p, t)
    BY <2>1, <2>3 DEF PinFound, Lookup, MappingOK, mapping
  <2> QED BY <1>1, <2>1, <2>2, <2>3, Zenon DEF MappingOK
<1>3. ASSUME NEW p \in Droppers, Drop(p)  PROVE MappingOK'
  <2> p \in Proc
    BY Zenon DEF Proc
  <2>1. table' \in [Tags -> Buf \cup {None}]
    BY <1>3, DropFrame, Zenon DEF MappingOK, DropDelete
  <2>2. UNCHANGED <<mapX, mapS>> \/ \E t : MapLockX(p, t) \/ MapUnlockX(t)
    BY <1>3, Zenon DEF Drop, BeginDrop, DropScan, EndDrop, LockToDrop, DropTaken,
         DropPinned, WaitIO, DropClear, DropDelete, mapping
  <2> QED BY <1>1, <2>1, <2>2, Zenon DEF MappingOK
<1>4. ASSUME NEW p \in Backends \cup Writers, Access(p) \/ Flush(p)  PROVE MappingOK'
  BY <1>4, AccessFrame, FlushFrame, Zenon DEF MappingOK, mapping, Proc
<1>5. ASSUME NEW b \in Buf, NEW ok \in BOOLEAN, CompleteRead(b, ok)  PROVE MappingOK'
  BY <1>5, Zenon DEF CompleteRead, MappingOK, mapping
<1> QED BY <1>2, <1>3, <1>4, <1>5, Zenon DEF Next

\* Every step keeps the types of the files and the log.
LEMMA StoreStep ==
  ASSUME StoreOK, ContentOK, LocalOK, PlacesOK, PinsHold, Next
  PROVE  StoreOK'
<1>1. ASSUME NEW p \in Backends, Alloc(p)  PROVE StoreOK'
  BY <1>1, AllocFrame, Zenon DEF StoreOK, store, Proc
<1>2. ASSUME NEW p \in Backends, Access(p)  PROVE StoreOK'
  <2> p \in Proc
    BY Zenon DEF Proc
  <2>1. insert' \in 0 .. MaxLSN
    <3>1. UNCHANGED insert \/ (insert < MaxLSN /\ insert' = insert + 1)
      BY <1>2, Zenon DEF Access, StartRead, ReadError, ReleaseBuffer, LockExclusive,
           Update, UnlockExclusive, LockShared, UnlockShared, SetHint,
           HintAlreadyDirty, HintLog, MarkHint, store
    <3> QED BY <3>1 DEF StoreOK
  <2>2. latest' \in [Tags -> 0 .. MaxLSN]
    <3>1. CASE Update(p)
      <4>1. insert + 1 \in 0 .. MaxLSN
        BY <3>1 DEF Update, StoreOK
      <4> QED BY <3>1, <4>1, Zenon DEF Update, StoreOK
    <3> QED BY <1>2, <3>1, AccessFrame, Zenon DEF StoreOK
  <2>3. hinted' \in [Tags -> BOOLEAN]
    BY <1>2, AccessFrame, Zenon DEF StoreOK, HintAlreadyDirty, MarkHint
  <2> QED BY <1>2, <2>1, <2>2, <2>3, AccessFrame, Zenon DEF StoreOK
<1>3. ASSUME NEW p \in Backends \cup Writers, Flush(p)  PROVE StoreOK'
  <2> p \in Proc
    BY Zenon DEF Proc
  <2>1. disk' \in [Tags -> Page]
    <3>1. CASE SmgrWrite(p)
      <4>1. buf[p] \in Buf
        BY <3>1, PinnedBuf, Zenon DEF SmgrWrite, At, PinPlaces, VictimPlaces, FlushPlaces
      <4> QED BY <3>1, <4>1, Zenon DEF SmgrWrite, ContentOK, StoreOK
    <3> QED BY <1>3, <3>1, FlushFrame, Zenon DEF StoreOK
  <2>2. flushed' \in 0 .. MaxLSN
    BY <1>3, FlushFrame DEF StoreOK, LocalOK, XLogFlush
  <2> QED BY <1>3, <2>1, <2>2, FlushFrame, Zenon DEF StoreOK
<1>4. ASSUME NEW p \in Droppers, Drop(p)  PROVE StoreOK'
  <2>1. rel' \in [Tags -> {"live", "dropping", "gone"}]
    BY <1>4, DropFrame DEF StoreOK, BeginDrop, EndDrop, Proc
  <2> QED BY <1>4, <2>1, DropFrame, Zenon DEF StoreOK, Proc
<1>5. ASSUME NEW b \in Buf, NEW ok \in BOOLEAN, CompleteRead(b, ok)  PROVE StoreOK'
  BY <1>5, Zenon DEF CompleteRead, StoreOK, store
<1> QED BY <1>1, <1>2, <1>3, <1>4, <1>5, Zenon DEF Next

\* Every step takes each process to a place of its own program.
LEMMA PlacesStep ==
  ASSUME PlacesOK, HeadersSound, HeaderOK, Next
  PROVE  PlacesOK'
<1>1. ASSUME NEW p \in Backends, NEW x \in BackendPlaces, Goto(p, x)  PROVE PlacesOK'
  BY <1>1, Zenon DEF PlacesOK, Goto, Places, Proc
<1>2. ASSUME NEW p \in Writers, NEW x \in {"idle", "flushlock"} \cup FlushPlaces, Goto(p, x)
      PROVE  PlacesOK'
  BY <1>2, Zenon DEF PlacesOK, Goto, Places, BackendPlaces, Proc
<1>3. ASSUME NEW p \in Droppers, NEW x \in DropPlaces, Goto(p, x)  PROVE PlacesOK'
  BY <1>3, Zenon DEF PlacesOK, Goto, Places, Proc
<1>4. CASE UNCHANGED pc
  BY <1>4, Zenon DEF PlacesOK
<1>5. ASSUME NEW p \in Backends, Alloc(p)  PROVE PlacesOK'
  <2>1. \E x \in BackendPlaces : Goto(p, x)
    BY <1>5, Zenon DEF BackendPlaces, FlushPlaces, HoldPlaces, Alloc, Lookup, GetVictim,
         PinFound, LockVictim, VictimLocked, RejectVictim, LockToEvict, EvictVictim,
         VictimInUse, BufTableDelete, InsertEntry, SetTag, UseExisting
  <2> QED BY <1>1, <2>1, Zenon
<1>6. ASSUME NEW p \in Backends, Access(p)  PROVE PlacesOK'
  <2>1. UNCHANGED pc \/ \E x \in BackendPlaces : Goto(p, x)
    BY <1>6, Zenon DEF BackendPlaces, FlushPlaces, HoldPlaces, Access, StartRead,
         ReadError, ReleaseBuffer, LockExclusive, Update, UnlockExclusive,
         LockShared, UnlockShared, SetHint, HintAlreadyDirty, HintLog, MarkHint,
         local
  <2> QED BY <1>1, <1>4, <2>1, Zenon
<1>7. ASSUME NEW p \in Backends \cup Writers, Flush(p)  PROVE PlacesOK'
  <2>1. CASE p \in Backends
    <3>1. \E x \in BackendPlaces : Goto(p, x)
      BY <1>7, <2>1, Zenon DEF PlacesOK, BackendPlaces, FlushPlaces, HoldPlaces, Flush,
           SyncOneBuffer, LockForFlush, StartWrite, ReadLSN, XLogFlush, SmgrWrite,
           WriteError, EndWrite, AfterFlush, At
    <3> QED BY <1>1, <2>1, <3>1, Zenon
  <2>2. CASE p \in Writers
    <3>1. \E x \in {"idle", "flushlock"} \cup FlushPlaces : Goto(p, x)
      BY <1>7, <2>2, Zenon DEF FlushPlaces, Flush, SyncOneBuffer, LockForFlush, StartWrite,
           ReadLSN, XLogFlush, SmgrWrite, WriteError, EndWrite, AfterFlush
    <3> QED BY <1>2, <2>2, <3>1, Zenon
  <2> QED BY <1>7, <2>1, <2>2, Zenon
<1>8. ASSUME NEW p \in Droppers, Drop(p)  PROVE PlacesOK'
  <2>1. UNCHANGED pc \/ \E x \in DropPlaces : Goto(p, x)
    BY <1>8, Zenon DEF DropPlaces, Drop, BeginDrop, DropScan, EndDrop, LockToDrop,
         DropTaken, DropPinned, WaitIO, DropClear, DropDelete
  <2> QED BY <1>3, <1>4, <2>1, Zenon
<1>9. ASSUME NEW b \in Buf, NEW ok \in BOOLEAN, CompleteRead(b, ok)  PROVE PlacesOK'
  <2>1. CASE pc[io[b]] = "reading" /\ buf[io[b]] = b
    <3>1. io[b] \in Proc
      BY <1>9, Zenon DEF CompleteRead, HeadersSound, HeaderOK
    <3>2. io[b] \in Backends
      BY <2>1, <3>1, Zenon DEF PlacesOK, Proc, DropPlaces, FlushPlaces
    <3>3. \E x \in BackendPlaces : Goto(io[b], x)
      BY <1>9, <2>1, Zenon DEF CompleteRead, BackendPlaces, HoldPlaces
    <3> QED BY <1>1, <3>2, <3>3, Zenon
  <2> QED BY <1>4, <1>9, <2>1, Zenon DEF CompleteRead
<1> QED BY <1>5, <1>6, <1>7, <1>8, <1>9, Zenon DEF Next

\* Every step keeps the types of the processes' variables.
LEMMA LocalStep ==
  ASSUME LocalOK, HeaderOK, ContentOK, MappingOK, StoreOK, PlacesOK, PinsHold,
         WantsBlock, TableSound, Next
  PROVE  LocalOK'
<1>1. 0 \in 0 .. NBuffers /\ 0 \in 0 .. MaxLSN /\ Buf \subseteq 0 .. NBuffers
  <2>1. 0 \in 0 .. MaxLSN
    OBVIOUS
  <2> QED BY <2>1, BufferNumbers, Zenon
<1>2. ASSUME NEW p \in Backends, Alloc(p)  PROVE LocalOK'
  <2> p \in Proc
    BY Zenon DEF Proc
  <2>1. want' \in [Proc -> Tags \cup {None}]
    <3>1. \/ UNCHANGED want \/ want' = [want EXCEPT ![p] = None]
          \/ \E t \in Tags : want' = [want EXCEPT ![p] = t]
      BY <1>2, Zenon DEF Alloc, Lookup, GetVictim, PinFound, LockVictim,
           VictimLocked, RejectVictim, LockToEvict, EvictVictim, VictimInUse,
           BufTableDelete, InsertEntry, SetTag, UseExisting
    <3> QED BY <3>1, Zenon DEF LocalOK
  <2>2. old' \in [Proc -> Tags \cup {None}]
    <3>1. CASE LockToEvict(p)
      <4>1. buf[p] \in Buf
        BY <3>1, PinnedBuf, Zenon DEF LockToEvict, At, PinPlaces, VictimPlaces
      <4> QED BY <3>1, <4>1, Zenon DEF LockToEvict, LocalOK, HeaderOK
    <3>2. CASE ~LockToEvict(p)
      BY <1>2, <3>2, Zenon DEF LocalOK, Alloc, Lookup, GetVictim, PinFound,
           LockVictim, VictimLocked, RejectVictim, EvictVictim, VictimInUse,
           BufTableDelete, InsertEntry, SetTag, UseExisting
    <3> QED BY <3>1, <3>2, Zenon
  <2>3. buf' \in [Proc -> 0 .. NBuffers]
    <3>1. CASE \E t \in Tags : Lookup(p, t)
      BY <1>1, <3>1, Zenon DEF Lookup, LocalOK, MappingOK
    <3>2. CASE UseExisting(p)
      <4>1. table[want[p]] \in Buf
        BY <3>2 DEF UseExisting, At, TableSound, WantsBlock, MappingOK
      <4> QED BY <1>1, <3>2, <4>1, Zenon DEF UseExisting, LocalOK
    <3>3. \/ UNCHANGED buf \/ (\E t \in Tags : Lookup(p, t)) \/ UseExisting(p)
          \/ \E b \in 0 .. NBuffers : buf' = [buf EXCEPT ![p] = b]
      BY <1>1, <1>2, Zenon DEF Alloc, GetVictim, PinFound, LockVictim, VictimLocked,
           RejectVictim, LockToEvict, EvictVictim, VictimInUse, BufTableDelete,
           InsertEntry, SetTag, LetGo
    <3> QED BY <3>1, <3>2, <3>3, Zenon DEF LocalOK
  <2> QED BY <1>2, <2>1, <2>2, <2>3, AllocFrame, Zenon DEF LocalOK
<1>3. ASSUME NEW p \in Backends, Access(p)  PROVE LocalOK'
  <2> p \in Proc
    BY Zenon DEF Proc
  <2>1. /\ UNCHANGED want \/ want' = [want EXCEPT ![p] = None]
        /\ UNCHANGED buf \/ buf' = [buf EXCEPT ![p] = 0]
    BY <1>3, Zenon DEF Access, StartRead, ReadError, ReleaseBuffer, LockExclusive, Update,
         UnlockExclusive, LockShared, UnlockShared, SetHint, HintAlreadyDirty,
         HintLog, MarkHint, LetGo, local
  <2>2. \/ UNCHANGED recptr
        \/ recptr' = [recptr EXCEPT ![p] = 0]
        \/ insert < MaxLSN /\ recptr' = [recptr EXCEPT ![p] = insert + 1]
    BY <1>3, Zenon DEF Access, StartRead, ReadError, ReleaseBuffer, LockExclusive, Update,
         UnlockExclusive, LockShared, UnlockShared, SetHint, HintAlreadyDirty,
         HintLog, MarkHint, local
  <2>3. insert < MaxLSN => insert + 1 \in 0 .. MaxLSN
    BY DEF StoreOK
  <2>4. recptr' \in [Proc -> 0 .. MaxLSN]
    BY <1>1, <2>2, <2>3, Zenon DEF LocalOK
  <2> QED BY <1>1, <1>3, <2>1, <2>4, AccessFrame DEF LocalOK
<1>4. ASSUME NEW p \in Backends \cup Writers, Flush(p)  PROVE LocalOK'
  <2> p \in Proc
    BY Zenon DEF Proc
  <2>1. want' \in [Proc -> Tags \cup {None}]
    BY <1>4, Zenon DEF LocalOK, Flush, SyncOneBuffer, LockForFlush, StartWrite,
         ReadLSN, XLogFlush, SmgrWrite, WriteError, EndWrite, AfterFlush
  <2>2. UNCHANGED buf \/ \E b \in 0 .. NBuffers : buf' = [buf EXCEPT ![p] = b]
    BY <1>1, <1>4, Zenon DEF Flush, SyncOneBuffer, LockForFlush, StartWrite, ReadLSN,
         XLogFlush, SmgrWrite, WriteError, EndWrite, AfterFlush, LetGo
  <2>3. CASE ReadLSN(p)
    <3>1. buf[p] \in Buf
      BY <2>3, PinnedBuf, Zenon DEF ReadLSN, At, PinPlaces, VictimPlaces, FlushPlaces
    <3> QED BY <2>3, <3>1, PageTyped, Zenon DEF ReadLSN, LocalOK
  <2>4. CASE UNCHANGED recptr \/ recptr' = [recptr EXCEPT ![p] = 0]
    BY <1>1, <1>4, <2>1, <2>2, <2>4, FlushFrame DEF LocalOK
  <2>5. ReadLSN(p) \/ UNCHANGED recptr \/ recptr' = [recptr EXCEPT ![p] = 0]
    BY <1>4, Zenon DEF Flush, SyncOneBuffer, LockForFlush, StartWrite, XLogFlush,
         SmgrWrite, WriteError, EndWrite, AfterFlush
  <2> QED BY <2>3, <2>4, <2>5, Zenon
<1>5. ASSUME NEW p \in Droppers, Drop(p)  PROVE LocalOK'
  <2> p \in Proc
    BY Zenon DEF Proc
  <2>1. want' \in [Proc -> Tags \cup {None}]
    BY <1>5 DEF LocalOK, Drop, BeginDrop, DropScan, EndDrop, LockToDrop,
         DropTaken, DropPinned, WaitIO, DropClear, DropDelete
  <2>2. buf[p] \in Buf => buf[p] + 1 \in 0 .. NBuffers
    BY BufferNumbers, Zenon
  <2>3. \/ UNCHANGED buf \/ buf' = [buf EXCEPT ![p] = 0]
        \/ buf[p] \in Buf /\ buf' = [buf EXCEPT ![p] = buf[p] + 1]
    BY <1>5 DEF LocalOK, WantsBlock, Buf, At, Drop, BeginDrop, DropScan, EndDrop,
         LockToDrop, DropTaken, DropPinned, WaitIO, DropClear, DropDelete
  <2>4. buf' \in [Proc -> 0 .. NBuffers]
    BY <1>1, <2>2, <2>3, Zenon DEF LocalOK
  <2> QED BY <1>5, <2>1, <2>4, DropFrame, Zenon DEF LocalOK
<1>6. ASSUME NEW b \in Buf, NEW ok \in BOOLEAN, CompleteRead(b, ok)  PROVE LocalOK'
  BY <1>6, Zenon DEF CompleteRead, LocalOK
<1> QED BY <1>2, <1>3, <1>4, <1>5, <1>6, Zenon DEF Next

-----------------------------------------------------------------------------
(***************************************************************************)
(* What each process wants, and the flags of the headers.                  *)
(***************************************************************************)
\* A process that is under way knows its block.
LEMMA WantsStep ==
  ASSUME WantsBlock, LocalOK, PlacesOK, HeaderOK, HeadersSound, Next
  PROVE  WantsBlock'
<1>1. ASSUME NEW p \in Backends, Moves(p), pc'[p] # "idle" => want'[p] \in Tags
      PROVE  WantsBlock'
  BY <1>1, Zenon DEF WantsBlock, Moves, Proc
<1>2. ASSUME NEW p \in Backends, Alloc(p)  PROVE WantsBlock'
  <2>1. pc'[p] # "idle" => want'[p] \in Tags
    BY <1>2, Zenon DEF WantsBlock, LocalOK, Proc, At, Alloc, Lookup, GetVictim, PinFound,
         LockVictim, VictimLocked, RejectVictim, LockToEvict, EvictVictim,
         VictimInUse, BufTableDelete, InsertEntry, SetTag, UseExisting
  <2> QED BY <1>1, <1>2, <2>1, AllocFrame, Zenon DEF Proc
<1>3. ASSUME NEW p \in Backends, Access(p)  PROVE WantsBlock'
  <2>1. pc'[p] # "idle" => want'[p] \in Tags
    BY <1>3, Zenon DEF WantsBlock, PlacesOK, Proc, At, Goto, Access, StartRead, ReadError,
         ReleaseBuffer, LockExclusive, Update, UnlockExclusive, LockShared,
         UnlockShared, SetHint, HintAlreadyDirty, HintLog, MarkHint, local
  <2> QED BY <1>1, <1>3, <2>1, AccessFrame, Zenon DEF Proc
<1>4. ASSUME NEW p \in Backends \cup Writers, Flush(p)  PROVE WantsBlock'
  <2>1. p \in Backends => (pc'[p] # "idle" => want'[p] \in Tags)
    BY <1>4, Zenon DEF WantsBlock, PlacesOK, Proc, At, Goto, Flush, SyncOneBuffer,
         LockForFlush, StartWrite, ReadLSN, XLogFlush, SmgrWrite, WriteError,
         EndWrite, AfterFlush
  <2>2. Moves(p)
    BY <1>4, FlushFrame, Zenon DEF Proc
  <2>3. CASE p \in Writers
    BY <2>2, <2>3, Zenon DEF WantsBlock, Moves, Proc
  <2> QED BY <1>1, <1>4, <2>1, <2>2, <2>3, Zenon
<1>5. ASSUME NEW p \in Droppers, Drop(p)  PROVE WantsBlock'
  <2>1. /\ pc'[p] # "idle" => want'[p] \in Tags
        /\ pc'[p] \notin {"idle", "scan"} => buf'[p] \in Buf
    BY <1>5 DEF WantsBlock, PlacesOK, LocalOK, Buf, Proc, At, Goto, Drop, BeginDrop,
         DropScan, EndDrop, LockToDrop, DropTaken, DropPinned, WaitIO, DropClear,
         DropDelete
  <2>2. Moves(p)
    BY <1>5, DropFrame, Zenon DEF Proc
  <2> QED BY <1>5, <2>1, <2>2, Zenon DEF WantsBlock, Moves, Proc
<1>6. ASSUME NEW b \in Buf, NEW ok \in BOOLEAN, CompleteRead(b, ok)  PROVE WantsBlock'
  BY <1>6, Zenon DEF CompleteRead, WantsBlock, HeadersSound, HeaderOK, PlacesOK, Goto, Proc
<1> QED BY <1>2, <1>3, <1>4, <1>5, <1>6, Zenon DEF Next

\* Flags stay consistent: no dirty or valid buffer without identity.
LEMMA HeadersStep ==
  ASSUME HeadersSound, HeaderOK, PlacesOK, LocalOK, PinsHold, WantsBlock, WritesSafe, Next
  PROVE  HeadersSound'
<1>1. ASSUME UNCHANGED <<dirty, valid, tag, io>>, NEW p \in Proc, OwnPin(p)
      PROVE  HeadersSound'
  BY <1>1, Zenon DEF HeadersSound, OwnPin
<1>2. ASSUME NEW p \in Backends, Alloc(p)  PROVE HeadersSound'
  <2> p \in Proc /\ OwnPin(p)
    BY <1>2, OwnPins, Zenon DEF Proc
  <2>1. CASE EvictVictim(p)
    <3>1. pins[buf[p]] = {p} /\ pins' = pins
      BY <2>1, Zenon DEF EvictVictim, InUse
    <3>2. \A b \in Buf \ {buf[p]} :
            /\ dirty'[b] = dirty[b] /\ valid'[b] = valid[b] /\ tag'[b] = tag[b]
            /\ io'[b] = io[b] /\ pins'[b] = pins[b]
      BY <2>1, <3>1, Zenon DEF EvictVictim, ClearHeader, HeaderOK
    <3>3. buf[p] \in Buf => ~dirty'[buf[p]] /\ ~valid'[buf[p]] /\ Aio \notin pins'[buf[p]]
      BY <2>1, <3>1 DEF EvictVictim, ClearHeader, HeaderOK
    <3> QED BY <3>2, <3>3, Zenon DEF HeadersSound
  <2>2. CASE SetTag(p)
    <3>1. want[p] # None
      BY <2>2, Zenon DEF SetTag, At, WantsBlock
    <3> QED BY <2>2, <3>1, Zenon DEF SetTag, HeadersSound, HeaderOK
  <2> QED BY <1>1, <1>2, <2>1, <2>2, AllocFrame, Zenon
<1>3. ASSUME NEW p \in Backends, Access(p)  PROVE HeadersSound'
  <2> p \in Proc
    BY Zenon DEF Proc
  <2>1. CASE StartRead(p)
    <3>1. p # None /\ tag[buf[p]] # None
      BY <2>1 DEF StartRead, At, PinsHold, PinHolds, ReadPlaces, WantsBlock
    <3>2. CASE valid[buf[p]]
      BY <2>1, <3>2, Zenon DEF StartRead, HeadersSound
    <3>3. CASE ~valid[buf[p]]
      BY <2>1, <3>1, <3>3, Zenon DEF StartRead, HeadersSound, HeaderOK, PinBuffer
    <3> QED BY <3>2, <3>3, Zenon
  <2>2. CASE Update(p) \/ MarkHint(p)
    <3>1. valid[buf[p]]
      BY <2>2, Zenon DEF Update, MarkHint, At, PinsHold, PinHolds, HoldPlaces
    <3> QED BY <2>2, <3>1 DEF Update, MarkHint, HeadersSound, HeaderOK
  <2>3. CASE UNCHANGED <<dirty, io>> /\ OwnPin(p)
    BY <1>1, <1>3, <2>3, AccessFrame, Zenon
  <2> QED BY <1>3, <2>1, <2>2, <2>3, AccessFrame, OwnPins, Zenon
<1>4. ASSUME NEW p \in Backends \cup Writers, Flush(p)  PROVE HeadersSound'
  <2> p \in Proc /\ OwnPin(p) /\ UNCHANGED <<valid, tag>>
    BY <1>4, OwnPins, FlushFrame, Zenon DEF Proc
  <2>1. CASE EndWrite(p) \/ WriteError(p)
    <3>1. dirty[buf[p]] /\ (buf[p] \in Buf => Aio \notin pins[buf[p]])
      BY <2>1, Zenon DEF EndWrite, WriteError, At, WritesSafe, WritePlaces, HeadersSound
    <3>2. \A b \in Buf : (dirty'[b] => dirty[b]) /\ (b # buf[p] => io'[b] = io[b])
      BY <2>1, <3>1, Zenon DEF EndWrite, WriteError, HeaderOK
    <3> QED BY <3>1, <3>2, Zenon DEF HeadersSound, OwnPin
  <2>2. CASE StartWrite(p)
    BY <2>2 DEF StartWrite, HeadersSound, HeaderOK
  <2>3. CASE UNCHANGED <<dirty, io>>
    BY <1>1, <2>3, Zenon
  <2>4. CASE ReadLSN(p)
    BY <2>4, Zenon DEF ReadLSN, HeadersSound
  <2> QED BY <1>4, <2>1, <2>2, <2>3, <2>4, FlushFrame, Zenon
<1>5. ASSUME NEW p \in Droppers, Drop(p)  PROVE HeadersSound'
  <2>1. CASE DropClear(p)
    <3>1. pins[buf[p]] = {} /\ pins' = pins
      BY <2>1, Zenon DEF DropClear
    <3> QED BY <2>1, <3>1, Zenon DEF DropClear, ClearHeader, HeadersSound, HeaderOK
  <2>2. CASE UNCHANGED <<tag, valid, dirty, justDirtied, io>>
    BY <1>5, <2>2, DropFrame, Zenon DEF HeadersSound, Proc
  <2> QED BY <1>5, <2>1, <2>2, DropFrame, Zenon DEF Proc
<1>6. ASSUME NEW b \in Buf, NEW ok \in BOOLEAN, CompleteRead(b, ok)  PROVE HeadersSound'
  BY <1>6, Zenon DEF CompleteRead, HeadersSound, HeaderOK, UnpinBuffer
<1> QED BY <1>2, <1>3, <1>4, <1>5, <1>6, Zenon DEF Next

-----------------------------------------------------------------------------
(***************************************************************************)
(* The partition locks.                                                    *)
(***************************************************************************)
\* Who relies on a partition lock has it.
LEMMA PartitionsStep ==
  ASSUME PartitionsLocked, MappingOK, HeaderOK, PlacesOK, LocalOK, PinsHold,
         WantsBlock, HeadersSound, Next
  PROVE  PartitionsLocked'
<1>1. ASSUME NEW p \in Proc, Moves(p), UNCHANGED <<mapX, mapS>>,
             pc'[p] \notin {"found", "recheck", "delete", "settag", "collision",
                            "dropcheck", "dropdelete"}
      PROVE  PartitionsLocked'
  BY <1>1 DEF PartitionsLocked, HoldsPartition, Moves
<1>2. ASSUME NEW p \in Proc, Moves(p), NEW k \in Partitions, mapX[k] = p,
             mapX' = [mapX EXCEPT ![k] = None], UNCHANGED mapS,
             \A t \in Tags : HoldsPartition(p, t) => PartitionOf[t] = k,
             pc'[p] \notin {"found", "recheck", "delete", "settag", "collision",
                            "dropcheck", "dropdelete"}
      PROVE  PartitionsLocked'
  BY <1>2 DEF PartitionsLocked, HoldsPartition, Moves, MappingOK
<1>3. ASSUME NEW p \in Proc, Moves(p), NEW t \in Tags, MapLockX(p, t),
             \A u \in Tags : HoldsPartition(p, u)' => u = t,
             pc'[p] # "found", pc'[p] \in {"recheck", "delete"} => old'[p] \in Tags
      PROVE  PartitionsLocked'
  <2>1. mapX[PartitionOf[t]] = None /\ mapS[PartitionOf[t]] = {} /\ PartitionOf[t] \in Partitions
    BY <1>3, Zenon DEF MapLockX
  <2>2. \A q \in Proc, u \in Tags : HoldsPartition(q, u)' => mapX'[PartitionOf[u]] = q
    BY <1>3, <2>1 DEF PartitionsLocked, HoldsPartition, Moves, MappingOK, MapLockX
  <2>3. \A k \in Partitions : mapX'[k] = None \/ mapS'[k] = {}
    BY <1>3, <2>1, Zenon DEF PartitionsLocked, MappingOK, MapLockX
  <2> QED BY <1>3, <2>2, <2>3, Zenon DEF PartitionsLocked, Moves, MapLockX
<1>4. ASSUME NEW p \in Backends, Alloc(p)  PROVE PartitionsLocked'
  <2> p \in Proc /\ Moves(p)
    BY <1>4, AllocFrame, Zenon DEF Proc
  <2>1. ASSUME NEW t \in Tags, Lookup(p, t)  PROVE PartitionsLocked'
    <3>1. CASE table[t] = None
      BY <1>1, <2>1, <3>1, Zenon DEF Lookup, mapping, Goto, PlacesOK
    <3>2. CASE table[t] # None
      <4>1. /\ pc'[p] = "found" /\ want'[p] = t /\ mapX' = mapX
            /\ mapX[PartitionOf[t]] = None /\ PartitionOf[t] \in Partitions
            /\ mapS' = [mapS EXCEPT ![PartitionOf[t]] = @ \cup {p}]
        BY <2>1, <3>2, Zenon DEF Lookup, Goto, PlacesOK, LocalOK
      <4>2. \A k \in Partitions : mapX'[k] = None \/ mapS'[k] = {}
        BY <4>1, Zenon DEF PartitionsLocked, MappingOK
      <4>3. \A q \in Proc : pc'[q] = "found" => q \in mapS'[PartitionOf[want'[q]]]
        BY <4>1 DEF PartitionsLocked, MappingOK, Moves
      <4> QED BY <4>1, <4>2, <4>3 DEF PartitionsLocked, HoldsPartition, Moves
    <3> QED BY <3>1, <3>2, Zenon
  <2>2. CASE PinFound(p)
    <3>1. /\ pc'[p] \in {"have", "read"} /\ mapX' = mapX
          /\ mapS' = [mapS EXCEPT ![PartitionOf[want[p]]] = @ \ {p}]
      BY <2>2, Zenon DEF PinFound, Goto, PlacesOK
    <3> QED BY <3>1 DEF PartitionsLocked, HoldsPartition, Moves, MappingOK
  <2>3. CASE LockToEvict(p)
    <3>1. buf[p] \in Buf /\ tag[buf[p]] \in Tags
      BY <2>3 DEF LockToEvict, At, PinsHold, PinHolds, PinPlaces, VictimPlaces,
           HeaderOK
    <3>2. pc'[p] = "recheck" /\ old'[p] = tag[buf[p]] /\ MapLockX(p, tag[buf[p]])
      BY <2>3, Zenon DEF LockToEvict, Goto, PlacesOK, LocalOK
    <3> QED BY <1>3, <3>1, <3>2, Zenon DEF HoldsPartition
  <2>4. CASE EvictVictim(p)
    BY <2>4 DEF EvictVictim, mapping, At, Goto, PartitionsLocked, HoldsPartition,
         Moves, PlacesOK
  <2>5. CASE VictimInUse(p) \/ BufTableDelete(p)
    <3>1. /\ pc[p] \in {"recheck", "delete"} /\ pc'[p] \in {"victim", "insert"}
          /\ MapUnlockX(old[p])
      BY <2>5, Zenon DEF VictimInUse, BufTableDelete, At, Goto, PlacesOK
    <3>2. old[p] \in Tags /\ PartitionOf[old[p]] \in Partitions
      BY <3>1, Zenon DEF PartitionsLocked
    <3>3. mapX[PartitionOf[old[p]]] = p
      BY <3>1, <3>2, Zenon DEF PartitionsLocked, HoldsPartition
    <3>4. \A t \in Tags : HoldsPartition(p, t) => PartitionOf[t] = PartitionOf[old[p]]
      BY <3>1, Zenon DEF HoldsPartition
    <3> QED BY <1>2, <3>1, <3>2, <3>3, <3>4, Zenon DEF MapUnlockX
  <2>6. CASE InsertEntry(p)
    <3>1. want[p] \in Tags
      BY <2>6, Zenon DEF InsertEntry, At, WantsBlock
    <3>2. pc'[p] \in {"settag", "collision"} /\ want'[p] = want[p] /\ MapLockX(p, want[p])
      BY <2>6, Zenon DEF InsertEntry, Goto, PlacesOK
    <3> QED BY <1>3, <3>1, <3>2, Zenon DEF HoldsPartition
  <2>7. CASE SetTag(p) \/ UseExisting(p)
    <3>1. /\ pc[p] \in {"settag", "collision"} /\ pc'[p] \in {"read", "have"}
          /\ MapUnlockX(want[p])
      BY <2>7, Zenon DEF SetTag, UseExisting, At, Goto, PlacesOK
    <3>2. want[p] \in Tags /\ PartitionOf[want[p]] \in Partitions
      BY <3>1, Zenon DEF WantsBlock
    <3>3. mapX[PartitionOf[want[p]]] = p
      BY <3>1, <3>2, Zenon DEF PartitionsLocked, HoldsPartition
    <3>4. \A t \in Tags : HoldsPartition(p, t) => PartitionOf[t] = PartitionOf[want[p]]
      BY <3>1, Zenon DEF HoldsPartition
    <3> QED BY <1>2, <3>1, <3>2, <3>3, <3>4, Zenon DEF MapUnlockX
  <2>8. CASE (\E b \in Buf : GetVictim(p, b)) \/ LockVictim(p) \/ VictimLocked(p)
             \/ RejectVictim(p)
    BY <1>1, <2>8, Zenon DEF GetVictim, LockVictim, VictimLocked, RejectVictim, Goto,
         PlacesOK, mapping
  <2> QED BY <1>4, <2>1, <2>2, <2>3, <2>4, <2>5, <2>6, <2>7, <2>8, Zenon DEF Alloc
<1>5. ASSUME NEW p \in Backends, Access(p)  PROVE PartitionsLocked'
  <2> p \in Proc /\ Moves(p) /\ UNCHANGED <<mapX, mapS>>
    BY <1>5, AccessFrame, Zenon DEF Proc, mapping
  <2>1. pc'[p] \in {"reading", "idle"} \cup HoldPlaces
    BY <1>5, Zenon DEF Access, StartRead, ReadError, ReleaseBuffer, LockExclusive,
         Update, UnlockExclusive, LockShared, UnlockShared, SetHint,
         HintAlreadyDirty, HintLog, MarkHint, Goto, PlacesOK, At, local, HoldPlaces
  <2> QED BY <1>1, <2>1, Zenon DEF HoldPlaces
<1>6. ASSUME NEW p \in Backends \cup Writers, Flush(p)  PROVE PartitionsLocked'
  <2> p \in Proc /\ Moves(p) /\ UNCHANGED <<mapX, mapS>>
    BY <1>6, FlushFrame, Zenon DEF Proc, mapping
  <2>1. pc'[p] \in {"idle", "flushlock", "evict"} \cup FlushPlaces
    BY <1>6, Zenon DEF Flush, SyncOneBuffer, LockForFlush, StartWrite, ReadLSN,
         XLogFlush, SmgrWrite, WriteError, EndWrite, AfterFlush, Goto, PlacesOK,
         FlushPlaces
  <2> QED BY <1>1, <2>1, Zenon DEF FlushPlaces
<1>7. ASSUME NEW p \in Droppers, Drop(p)  PROVE PartitionsLocked'
  <2> p \in Proc /\ Moves(p)
    BY <1>7, DropFrame, Zenon DEF Proc
  <2>1. CASE LockToDrop(p)
    <3>1. want[p] \in Tags
      BY <2>1, Zenon DEF LockToDrop, At, WantsBlock
    <3>2. pc'[p] = "dropcheck" /\ want'[p] = want[p] /\ MapLockX(p, want[p])
      BY <2>1, Zenon DEF LockToDrop, Goto, PlacesOK
    <3> QED BY <1>3, <3>1, <3>2, Zenon DEF HoldsPartition
  <2>2. CASE DropTaken(p) \/ DropPinned(p) \/ DropDelete(p)
    <3>1. /\ pc[p] \in {"dropcheck", "dropdelete"} /\ pc'[p] \in {"scan", "waitio"}
          /\ MapUnlockX(want[p])
      BY <2>2, Zenon DEF DropTaken, DropPinned, DropDelete, At, Goto, PlacesOK
    <3>2. want[p] \in Tags /\ PartitionOf[want[p]] \in Partitions
      BY <3>1, Zenon DEF WantsBlock
    <3>3. mapX[PartitionOf[want[p]]] = p
      BY <3>1, <3>2, Zenon DEF PartitionsLocked, HoldsPartition
    <3>4. \A t \in Tags : HoldsPartition(p, t) => PartitionOf[t] = PartitionOf[want[p]]
      BY <3>1, Zenon DEF HoldsPartition
    <3> QED BY <1>2, <3>1, <3>2, <3>3, <3>4, Zenon DEF MapUnlockX
  <2>3. CASE DropClear(p)
    BY <2>3 DEF DropClear, mapping, At, Goto, PartitionsLocked, HoldsPartition,
         Moves, PlacesOK
  <2>4. CASE (\E t \in Tags : BeginDrop(p, t)) \/ DropScan(p) \/ EndDrop(p) \/ WaitIO(p)
    BY <1>1, <2>4, Zenon DEF BeginDrop, DropScan, EndDrop, WaitIO, At, Goto, PlacesOK,
         mapping
  <2> QED BY <1>7, <2>1, <2>2, <2>3, <2>4, Zenon DEF Drop
<1>8. ASSUME NEW b \in Buf, NEW ok \in BOOLEAN, CompleteRead(b, ok)
      PROVE  PartitionsLocked'
  BY <1>8 DEF CompleteRead, PartitionsLocked, HoldsPartition, HeadersSound, HeaderOK,
       PlacesOK, Goto, mapping
<1> QED BY <1>4, <1>5, <1>6, <1>7, <1>8, Zenon DEF Next

-----------------------------------------------------------------------------
(***************************************************************************)
(* The mapping table.                                                      *)
(***************************************************************************)
\* Steps that leave table and tags alone keep them in agreement.
LEMMA TableKept ==
  ASSUME TableSound, NEW p \in Proc, Moves(p), UNCHANGED <<table, tag>>,
         pc[p] \notin {"delete", "settag", "dropdelete"},
         pc'[p] \notin {"delete", "settag", "dropdelete", "collision"},
         pc'[p] = "found" => table[want'[p]] = buf'[p] /\ buf'[p] \in Buf
  PROVE  TableSound'
<1>1. \A q \in Proc, t \in Tags : Changing(q, t) <=> Changing(q, t)'
  BY Zenon DEF Moves, Changing
<1>2. \A t \in Tags : Agree(t) <=> Agree(t)'
  BY Zenon DEF Agree
<1>3. \A q \in Proc : pc'[q] \in {"found", "settag"} =>
        table'[want'[q]] = buf'[q] /\ buf'[q] \in Buf
  BY DEF Moves, TableSound
<1>4. \A q \in Proc : pc'[q] = "collision" => table'[want'[q]] # None
  BY DEF Moves, TableSound
<1> QED BY <1>1, <1>2, <1>3, <1>4 DEF TableSound

\* A header is cleared under the partition lock, its table entry stays for now.
LEMMA TableCleared ==
  ASSUME TableSound, PartitionsLocked, HeaderOK, NEW p \in Proc, Moves(p), UNCHANGED table,
         NEW t \in Tags, HoldsPartition(p, t), pc[p] \in {"recheck", "dropcheck"},
         NEW c \in Buf, tag[c] = t, tag' = [tag EXCEPT ![c] = None],
         pc'[p] \in {"delete", "dropdelete"}, \A u \in Tags : Changing(p, u)' <=> u = t
  PROVE  TableSound'
<1>1. mapX[PartitionOf[t]] = p /\ Agree(t) /\ \A u \in Tags : ~Changing(p, u)
  BY LockedAgrees, Zenon DEF Changing, PartitionsLocked
<1>2. \A b \in Buf : tag'[b] # t
  BY <1>1, Zenon DEF Agree, HeaderOK
<1>3. \A u \in Tags \ {t}, b \in Buf : tag'[b] = u <=> tag[b] = u
  BY Zenon DEF HeaderOK
<1>4. \A q \in Proc \ {p}, u \in Tags : Changing(q, u)' <=> Changing(q, u)
  BY Zenon DEF Moves, Changing
<1>5. \A u \in Tags \ {t} : Agree(u)' \/ \E q \in Proc : Changing(q, u)'
  <2> SUFFICES ASSUME NEW u \in Tags \ {t}
      PROVE  Agree(u)' \/ \E q \in Proc : Changing(q, u)'
    BY Zenon
  <2>1. CASE Agree(u)
    BY <1>3, <2>1, Zenon DEF Agree
  <2>2. CASE \E q \in Proc : Changing(q, u)
    BY <1>1, <1>4, <2>2, Zenon
  <2> QED BY <2>1, <2>2, Zenon DEF TableSound
<1>6. \A q \in Proc, u \in Tags : Changing(q, u)' => \A b \in Buf : tag'[b] # u
  <2> SUFFICES ASSUME NEW q \in Proc, NEW u \in Tags, Changing(q, u)'
      PROVE  \A b \in Buf : tag'[b] # u
    BY Zenon
  <2>1. u = t \/ Changing(q, u)
    BY <1>4, Zenon
  <2>2. CASE u = t
    BY <1>2, <2>2, Zenon
  <2>3. CASE u # t
    <3>1. u \in Tags \ {t} /\ Changing(q, u)
      BY <2>1, <2>3, Zenon
    <3> QED BY <1>3, <3>1, Zenon DEF TableSound
  <2> QED BY <2>2, <2>3, Zenon
<1>7. \A q \in Proc : pc'[q] \in {"found", "settag"} =>
        table'[want'[q]] = buf'[q] /\ buf'[q] \in Buf
  BY DEF Moves, TableSound
<1>8. \A q \in Proc : pc'[q] = "collision" => table'[want'[q]] # None
  BY DEF Moves, TableSound
<1> QED BY <1>5, <1>6, <1>7, <1>8, Zenon DEF TableSound

\* Then the entry is deleted.
LEMMA TableDeleted ==
  ASSUME TableSound, PartitionsLocked, MappingOK, LocalOK, NEW p \in Proc, Moves(p),
         UNCHANGED tag, NEW t \in Tags, \A u \in Tags : Changing(p, u) <=> u = t,
         HoldsPartition(p, t), table' = [table EXCEPT ![t] = None],
         pc'[p] \notin TablePlaces
  PROVE  TableSound'
<1>1. mapX[PartitionOf[t]] = p
  BY Zenon DEF PartitionsLocked
<1>2. \A q \in Proc \ {p} :
        ~HoldsPartition(q, t) /\ ~Changing(q, t) /\ ~(pc[q] = "found" /\ want[q] = t)
  BY <1>1, PartitionExclusive, Zenon
<1>3. \A q \in Proc \ {p}, u \in Tags : Changing(q, u)' <=> Changing(q, u)
  BY Zenon DEF Moves, Changing
<1>4. \A u \in Tags : ~Changing(p, u)'
  BY Zenon DEF Changing, TablePlaces
<1>5. Agree(t)'
  BY DEF TableSound, Agree, MappingOK
<1>6. \A u \in Tags \ {t} : Agree(u)' \/ \E q \in Proc : Changing(q, u)'
  <2> SUFFICES ASSUME NEW u \in Tags \ {t}
      PROVE  Agree(u)' \/ \E q \in Proc : Changing(q, u)'
    BY Zenon
  <2>1. CASE Agree(u)
    BY <2>1, Zenon DEF Agree, MappingOK
  <2>2. CASE \E q \in Proc : Changing(q, u)
    BY <1>3, <2>2, Zenon
  <2> QED BY <2>1, <2>2, Zenon DEF TableSound
<1>7. \A q \in Proc, u \in Tags : Changing(q, u)' => \A b \in Buf : tag'[b] # u
  <2> SUFFICES ASSUME NEW q \in Proc, NEW u \in Tags, Changing(q, u)'
      PROVE  \A b \in Buf : tag'[b] # u
    BY Zenon
  <2>1. Changing(q, u)
    BY <1>3, <1>4, Zenon
  <2> QED BY <2>1, Zenon DEF TableSound
<1>8. \A q \in Proc : pc'[q] \in {"found", "settag", "collision"} =>
        q # p /\ want'[q] # t /\ table'[want'[q]] = table[want[q]]
  BY <1>2 DEF Moves, HoldsPartition, TablePlaces, MappingOK
<1>9. \A q \in Proc : pc'[q] \in {"found", "settag"} =>
        table'[want'[q]] = buf'[q] /\ buf'[q] \in Buf
  BY <1>8 DEF Moves, TableSound
<1>10. \A q \in Proc : pc'[q] = "collision" => table'[want'[q]] # None
  BY <1>8, Zenon DEF Moves, TableSound
<1> QED BY <1>5, <1>6, <1>7, <1>9, <1>10, Zenon DEF TableSound

\* BufTableInsert makes the entry, the header gets its tag in a later step.
LEMMA TableInserted ==
  ASSUME TableSound, PartitionsLocked, MappingOK, PlacesOK, LocalOK, PinsHold,
         NEW p \in Proc, Moves(p), InsertEntry(p), want[p] \in Tags
  PROVE  TableSound'
<1>1. /\ pc[p] = "insert" /\ mapX[PartitionOf[want[p]]] = None
      /\ tag' = tag /\ want' = want /\ buf' = buf
  BY Zenon DEF InsertEntry, At, MapLockX, header
<1>2. Agree(want[p]) /\ \A u \in Tags : ~Changing(p, u)
  BY <1>1, FreeAgrees, Zenon DEF Changing
<1>3. \A q \in Proc \ {p}, u \in Tags : Changing(q, u)' <=> Changing(q, u)
  BY Zenon DEF Moves, Changing
<1>4. buf[p] \in Buf
  BY <1>1, Zenon DEF PinsHold, PinHolds, PinPlaces, OwnPlaces
<1>5. CASE table[want[p]] = None
  <2>1. table' = [table EXCEPT ![want[p]] = buf[p]] /\ pc'[p] = "settag"
    BY <1>5, Zenon DEF InsertEntry, Goto, PlacesOK
  <2>2. \A u \in Tags : Changing(p, u)' <=> u = want[p]
    BY <1>1, <2>1, Zenon DEF Changing
  <2>3. \A b \in Buf : tag[b] # want[p]
    BY <1>2, <1>5, Zenon DEF Agree
  <2>4. \A u \in Tags \ {want[p]} : Agree(u)' \/ \E q \in Proc : Changing(q, u)'
    <3> SUFFICES ASSUME NEW u \in Tags \ {want[p]}
        PROVE  Agree(u)' \/ \E q \in Proc : Changing(q, u)'
      BY Zenon
    <3>1. CASE Agree(u)
      BY <1>1, <2>1, <3>1, Zenon DEF Agree, MappingOK
    <3>2. CASE \E q \in Proc : Changing(q, u)
      BY <1>2, <1>3, <3>2, Zenon
    <3> QED BY <3>1, <3>2, Zenon DEF TableSound
  <2>5. \A q \in Proc, u \in Tags : Changing(q, u)' => \A b \in Buf : tag'[b] # u
    BY <1>1, <1>3, <2>2, <2>3 DEF TableSound
  <2>6. \A q \in Proc \ {p} : pc[q] \in {"found", "settag", "collision"} => want[q] # want[p]
    BY <1>5, Zenon DEF TableSound
  <2>7. \A q \in Proc : pc'[q] \in {"found", "settag"} =>
          table'[want'[q]] = buf'[q] /\ buf'[q] \in Buf
    <3> SUFFICES ASSUME NEW q \in Proc, pc'[q] \in {"found", "settag"}
        PROVE  table'[want'[q]] = buf'[q] /\ buf'[q] \in Buf
      BY Zenon
    <3>1. CASE q = p
      BY <1>1, <1>4, <2>1, <3>1, Zenon DEF MappingOK
    <3>2. CASE q # p
      <4>1. /\ pc'[q] = pc[q] /\ want'[q] = want[q] /\ buf'[q] = buf[q]
            /\ table[want[q]] = buf[q] /\ buf[q] \in Buf /\ want[q] # want[p]
        BY <2>6, <3>2, Zenon DEF Moves, TableSound
      <4> QED BY <2>1, <4>1 DEF MappingOK
    <3> QED BY <3>1, <3>2, Zenon
  <2>8. \A q \in Proc : pc'[q] = "collision" => table'[want'[q]] # None
    <3> SUFFICES ASSUME NEW q \in Proc, pc'[q] = "collision"
        PROVE  table'[want'[q]] # None
      BY Zenon
    <3>1. /\ want'[q] = want[q] /\ table[want[q]] # None /\ want[q] # want[p]
      BY <2>1, <2>6, Zenon DEF Moves, TableSound
    <3> QED BY <2>1, <3>1 DEF MappingOK
  <2> QED BY <2>2, <2>4, <2>5, <2>7, <2>8, Zenon DEF TableSound
<1>6. CASE table[want[p]] # None
  <2>1. table' = table /\ pc'[p] = "collision"
    BY <1>6, Zenon DEF InsertEntry, Goto, PlacesOK
  <2>2. \A u \in Tags : ~Changing(p, u)'
    BY <2>1, Zenon DEF Changing
  <2>3. \A u \in Tags : Agree(u)' <=> Agree(u)
    BY <1>1, <2>1, Zenon DEF Agree
  <2>4. \A q \in Proc : pc'[q] \in {"found", "settag"} =>
          table'[want'[q]] = buf'[q] /\ buf'[q] \in Buf
    <3> SUFFICES ASSUME NEW q \in Proc, pc'[q] \in {"found", "settag"}
        PROVE  table'[want'[q]] = buf'[q] /\ buf'[q] \in Buf
      BY Zenon
    <3>1. q # p /\ pc'[q] = pc[q] /\ want'[q] = want[q] /\ buf'[q] = buf[q]
      BY <2>1, Zenon DEF Moves
    <3> QED BY <2>1, <3>1, Zenon DEF TableSound
  <2>5. \A q \in Proc : pc'[q] = "collision" => table'[want'[q]] # None
    BY <1>1, <1>6, <2>1 DEF Moves, TableSound
  <2>6. \A q \in Proc, u \in Tags : Changing(q, u)' <=> Changing(q, u)
    BY <1>2, <1>3, <2>2, Zenon
  <2> QED BY <1>1, <2>3, <2>4, <2>5, <2>6 DEF TableSound
<1> QED BY <1>5, <1>6, Zenon

\* SetTag completes what the insertion began.
LEMMA TableTagged ==
  ASSUME TableSound, PartitionsLocked, HeaderOK, PlacesOK, LocalOK, PinsHold,
         NEW p \in Proc, Moves(p), SetTag(p), want[p] \in Tags
  PROVE  TableSound'
<1>1. /\ pc[p] = "settag" /\ pc'[p] = "read" /\ table' = table
      /\ tag' = [tag EXCEPT ![buf[p]] = want[p]]
  BY Zenon DEF SetTag, At, Goto, PlacesOK
<1>2. buf[p] \in Buf /\ tag[buf[p]] = None /\ table[want[p]] = buf[p]
  BY <1>1, Zenon DEF PinsHold, PinHolds, PinPlaces, OwnPlaces, TableSound
<1>3. \A q \in Proc \ {p} : ~Changing(q, want[p])
  <2>1. HoldsPartition(p, want[p])
    BY <1>1, Zenon DEF HoldsPartition
  <2> QED BY <2>1, PartitionExclusive, Zenon DEF PartitionsLocked
<1>4. \A b \in Buf : tag[b] # want[p]
  BY <1>1, Zenon DEF TableSound, Changing
<1>5. \A u \in Tags \ {want[p]}, b \in Buf : tag'[b] = u <=> tag[b] = u
  BY <1>1, <1>2, Zenon DEF HeaderOK
<1>6. Agree(want[p])'
  BY <1>1, <1>2, <1>4, Zenon DEF Agree, HeaderOK, SetTag
<1>7. /\ \A q \in Proc \ {p}, u \in Tags : Changing(q, u)' <=> Changing(q, u)
      /\ \A u \in Tags : ~Changing(p, u)'
      /\ \A u \in Tags \ {want[p]} : ~Changing(p, u)
  BY <1>1, Zenon DEF Moves, Changing
<1>8. \A u \in Tags \ {want[p]} : Agree(u)' \/ \E q \in Proc : Changing(q, u)'
  <2> SUFFICES ASSUME NEW u \in Tags \ {want[p]}
      PROVE  Agree(u)' \/ \E q \in Proc : Changing(q, u)'
    BY Zenon
  <2>1. CASE Agree(u)
    BY <1>1, <1>5, <2>1, Zenon DEF Agree
  <2>2. CASE \E q \in Proc : Changing(q, u)
    BY <1>7, <2>2, Zenon
  <2> QED BY <2>1, <2>2, Zenon DEF TableSound
<1>9. \A q \in Proc, u \in Tags : Changing(q, u)' => \A b \in Buf : tag'[b] # u
  <2> SUFFICES ASSUME NEW q \in Proc, NEW u \in Tags, Changing(q, u)'
      PROVE  \A b \in Buf : tag'[b] # u
    BY Zenon
  <2>1. Changing(q, u) /\ u # want[p]
    BY <1>3, <1>7, Zenon
  <2> QED BY <1>5, <2>1, Zenon DEF TableSound
<1>10. \A q \in Proc : pc'[q] \in {"found", "settag"} =>
         table'[want'[q]] = buf'[q] /\ buf'[q] \in Buf
  BY <1>1 DEF Moves, TableSound
<1>11. \A q \in Proc : pc'[q] = "collision" => table'[want'[q]] # None
  BY <1>1 DEF Moves, TableSound
<1>12. want'[p] = want[p]
  BY Zenon DEF SetTag
<1>13. \A u \in Tags : Agree(u)' \/ \E q \in Proc : Changing(q, u)'
  <2>1. \A u \in Tags : u = want[p] => Agree(u)'
    BY <1>6, <1>12, Zenon
  <2> QED BY <1>8, <2>1, Zenon
<1> QED BY <1>9, <1>10, <1>11, <1>13, Zenon DEF TableSound

\* Table and headers agree, but for what a lock holder is changing.
LEMMA TableStep ==
  ASSUME TableSound, PartitionsLocked, HeaderOK, MappingOK, PlacesOK, LocalOK,
         PinsHold, WantsBlock, HeadersSound, Next
  PROVE  TableSound'
<1>1. ASSUME NEW p \in Backends, Alloc(p)  PROVE TableSound'
  <2> p \in Proc /\ Moves(p)
    BY <1>1, AllocFrame, Zenon DEF Proc
  <2>1. ASSUME NEW t \in Tags, Lookup(p, t)  PROVE TableSound'
    <3>1. table' = table /\ tag' = tag /\ pc[p] = "idle"
      BY <2>1, Zenon DEF Lookup, header, mapping, At
    <3>2. \/ pc'[p] = "victim"
          \/ pc'[p] = "found" /\ want'[p] = t /\ buf'[p] = table[t] /\ table[t] \in Buf
      BY <2>1, Zenon DEF Lookup, Goto, PlacesOK, LocalOK, MappingOK
    <3> QED BY <3>1, <3>2, TableKept, Zenon
  <2>2. CASE EvictVictim(p)
    <3>1. /\ pc[p] = "recheck" /\ pc'[p] = "delete" /\ UNCHANGED <<table, old>>
          /\ tag' = [tag EXCEPT ![buf[p]] = None]
      BY <2>2, Zenon DEF EvictVictim, ClearHeader, At, Goto, PlacesOK, mapping
    <3>2. buf[p] \in Buf /\ tag[buf[p]] = old[p] /\ old[p] \in Tags
      BY <3>1, Zenon DEF PinsHold, PinHolds, PinPlaces, VictimPlaces, PartitionsLocked
    <3> QED BY <3>1, <3>2, TableCleared, Zenon DEF HoldsPartition, Changing
  <2>3. CASE BufTableDelete(p)
    <3>1. /\ pc[p] = "delete" /\ pc'[p] = "insert" /\ UNCHANGED tag
          /\ table' = [table EXCEPT ![old[p]] = None]
      BY <2>3, Zenon DEF BufTableDelete, At, Goto, PlacesOK, header
    <3>2. old[p] \in Tags
      BY <3>1, Zenon DEF PartitionsLocked
    <3> QED BY <3>1, <3>2, TableDeleted, Zenon DEF HoldsPartition, Changing,
         TablePlaces
  <2>4. CASE InsertEntry(p)
    BY <2>4, TableInserted, Zenon DEF InsertEntry, At, WantsBlock
  <2>5. CASE SetTag(p)
    BY <2>5, TableTagged, Zenon DEF SetTag, At, WantsBlock
  <2>6. CASE PinFound(p) \/ LockVictim(p) \/ VictimLocked(p) \/ RejectVictim(p)
             \/ LockToEvict(p) \/ VictimInUse(p) \/ UseExisting(p)
             \/ \E b \in Buf : GetVictim(p, b)
    <3>1. /\ table' = table /\ tag' = tag
          /\ pc[p] \notin {"delete", "settag", "dropdelete"} /\ pc'[p] \notin TablePlaces
      BY <2>6, Zenon DEF PinFound, LockVictim, VictimLocked, RejectVictim,
           LockToEvict, VictimInUse, UseExisting, GetVictim, header, mapping, At, Goto,
           PlacesOK, TablePlaces
    <3> QED BY <3>1, TableKept, Zenon DEF TablePlaces
  <2> QED BY <1>1, <2>1, <2>2, <2>3, <2>4, <2>5, <2>6, Zenon DEF Alloc
<1>2. ASSUME NEW p \in Backends, Access(p)  PROVE TableSound'
  <2> p \in Proc /\ Moves(p) /\ UNCHANGED <<table, tag>>
    BY <1>2, AccessFrame, Zenon DEF Proc, mapping
  <2>1. pc[p] \notin TablePlaces /\ pc'[p] \notin TablePlaces
    BY <1>2, Zenon DEF Access, StartRead, ReadError, ReleaseBuffer, LockExclusive,
         Update, UnlockExclusive, LockShared, UnlockShared, SetHint,
         HintAlreadyDirty, HintLog, MarkHint, Goto, PlacesOK, At, local, TablePlaces
  <2> QED BY <2>1, TableKept, Zenon DEF TablePlaces
<1>3. ASSUME NEW p \in Backends \cup Writers, Flush(p)  PROVE TableSound'
  <2> p \in Proc /\ Moves(p) /\ UNCHANGED <<table, tag>>
    BY <1>3, FlushFrame, Zenon DEF Proc, mapping
  <2>1. pc[p] \notin TablePlaces /\ pc'[p] \notin TablePlaces
    BY <1>3, Zenon DEF Flush, SyncOneBuffer, LockForFlush, StartWrite, ReadLSN,
         XLogFlush, SmgrWrite, WriteError, EndWrite, AfterFlush, Goto, PlacesOK,
         At, TablePlaces
  <2> QED BY <2>1, TableKept, Zenon DEF TablePlaces
<1>4. ASSUME NEW p \in Droppers, Drop(p)  PROVE TableSound'
  <2> p \in Proc /\ Moves(p)
    BY <1>4, DropFrame, Zenon DEF Proc
  <2>1. CASE DropClear(p)
    <3>1. /\ pc[p] = "dropcheck" /\ pc'[p] = "dropdelete" /\ UNCHANGED <<table, want>>
          /\ tag' = [tag EXCEPT ![buf[p]] = None] /\ tag[buf[p]] = want[p]
      BY <2>1, Zenon DEF DropClear, ClearHeader, At, Goto, PlacesOK, mapping
    <3>2. buf[p] \in Buf /\ want[p] \in Tags
      BY <3>1, Zenon DEF WantsBlock
    <3> QED BY <3>1, <3>2, TableCleared, Zenon DEF HoldsPartition, Changing
  <2>2. CASE DropDelete(p)
    <3>1. /\ pc[p] = "dropdelete" /\ pc'[p] = "scan" /\ UNCHANGED tag
          /\ table' = [table EXCEPT ![want[p]] = None]
      BY <2>2, Zenon DEF DropDelete, At, Goto, PlacesOK, header
    <3>2. want[p] \in Tags
      BY <3>1, Zenon DEF WantsBlock
    <3> QED BY <3>1, <3>2, TableDeleted, Zenon DEF HoldsPartition, Changing,
         TablePlaces
  <2>3. CASE (\E t \in Tags : BeginDrop(p, t)) \/ DropScan(p) \/ EndDrop(p)
             \/ LockToDrop(p) \/ DropTaken(p) \/ DropPinned(p) \/ WaitIO(p)
    <3>1. /\ table' = table /\ tag' = tag
          /\ pc[p] \notin TablePlaces /\ pc'[p] \notin TablePlaces
      BY <2>3, Zenon DEF BeginDrop, DropScan, EndDrop, LockToDrop, DropTaken,
           DropPinned, WaitIO, header, mapping, At, Goto, PlacesOK, TablePlaces
    <3> QED BY <3>1, TableKept, Zenon DEF TablePlaces
  <2> QED BY <1>4, <2>1, <2>2, <2>3, Zenon DEF Drop
<1>5. ASSUME NEW b \in Buf, NEW ok \in BOOLEAN, CompleteRead(b, ok)  PROVE TableSound'
  <2>1. /\ UNCHANGED <<table, tag, want, old, buf>>
        /\ \A q \in Proc :
             \/ pc'[q] = pc[q]
             \/ pc'[q] \notin TablePlaces /\ pc[q] = "reading"
    BY <1>5, CompleteFrame, Zenon DEF TablePlaces
  <2>2. \A q \in Proc, t \in Tags : Changing(q, t) <=> Changing(q, t)'
    BY <2>1, Zenon DEF Changing, TablePlaces
  <2>3. \A t \in Tags : Agree(t) <=> Agree(t)'
    BY <2>1, Zenon DEF Agree
  <2> QED BY <2>1, <2>2, <2>3, Zenon DEF TableSound, TablePlaces
<1> QED BY <1>1, <1>2, <1>3, <1>4, <1>5, Zenon DEF Next

-----------------------------------------------------------------------------
(***************************************************************************)
(* Dropped relations.                                                      *)
(***************************************************************************)
\* A tag that a buffer gets from a backend is one of a live relation.
LEMMA TagsLive ==
  ASSUME HeaderOK, PlacesOK, LocalOK, WantsBlock, PinsHold, DropsSound,
         NEW p \in Backends, Alloc(p) \/ Access(p)
  PROVE  /\ rel' = rel
         /\ \A b \in Buf : tag'[b] \in {tag[b], None} \/ Live(tag'[b])
         /\ want'[p] \in {want[p], None} \/ Live(want'[p])
<1> p \in Proc
  BY Zenon DEF Proc
<1>1. CASE Alloc(p)
  <2>1. rel' = rel
    BY <1>1, AllocFrame, Zenon DEF store
  <2>2. \A b \in Buf : tag'[b] \in {tag[b], None} \/ Live(tag'[b])
    <3>1. CASE EvictVictim(p)
      BY <3>1, Zenon DEF EvictVictim, ClearHeader, HeaderOK
    <3>2. CASE SetTag(p)
      <4>1. Live(want[p])
        BY <3>2 DEF SetTag, At, WantsBlock, DropsSound, Live
      <4> QED BY <3>2, <4>1, Zenon DEF SetTag, HeaderOK
    <3> QED BY <1>1, <3>1, <3>2, AllocFrame, Zenon
  <2>3. want'[p] = want[p] \/ Live(want'[p])
    <3>1. CASE \E t \in Tags : Lookup(p, t)
      BY <3>1, Zenon DEF Lookup, LocalOK, Live
    <3>2. CASE ~\E t \in Tags : Lookup(p, t)
      BY <1>1, <3>2, Zenon DEF Alloc, GetVictim, PinFound, LockVictim, VictimLocked,
           RejectVictim, LockToEvict, EvictVictim, VictimInUse, BufTableDelete,
           InsertEntry, SetTag, UseExisting
    <3> QED BY <3>1, <3>2, Zenon
  <2> QED BY <2>1, <2>2, <2>3, Zenon
<1>2. CASE Access(p)
  <2>1. want'[p] \in {want[p], None}
    BY <1>2, Zenon DEF Access, StartRead, ReadError, ReleaseBuffer, LockExclusive,
         Update, UnlockExclusive, LockShared, UnlockShared, SetHint, HintAlreadyDirty,
         HintLog, MarkHint, local, LocalOK
  <2> QED BY <1>2, <2>1, AccessFrame, Zenon
<1> QED BY <1>1, <1>2, Zenon

\* DropRelationBuffers leaves nothing behind it in its scan.
LEMMA DropsStep ==
  ASSUME DropsSound, HeaderOK, StoreOK, PlacesOK, LocalOK, WantsBlock, PinsHold,
         HeadersSound, TableSound, Next
  PROVE  DropsSound'
<1>1. ASSUME NEW p \in Backends, Alloc(p) \/ Access(p)  PROVE DropsSound'
  <2>1. Moves(p)
    BY <1>1, AllocFrame, AccessFrame, Zenon DEF Proc
  <2>2. /\ rel' = rel
        /\ \A b \in Buf : tag'[b] \in {tag[b], None} \/ Live(tag'[b])
        /\ want'[p] \in {want[p], None} \/ Live(want'[p])
    BY <1>1, TagsLive, Zenon
  <2>3. \A q \in Backends : want'[q] # None => rel'[want'[q]] = "live"
    BY <2>1, <2>2 DEF DropsSound, Moves, Live, Proc
  <2>4. \A q \in Droppers : pc'[q] = pc[q] /\ want'[q] = want[q] /\ buf'[q] = buf[q]
    BY <2>1, Zenon DEF Moves, Proc
  <2>5. \A q \in Droppers : pc[q] # "idle" => want[q] \in Tags /\ ~Live(want[q])
    BY Zenon DEF DropsSound, WantsBlock, Live
  <2>6. \A q \in Droppers : pc'[q] # "idle" =>
          \A b \in Buf : b < buf'[q] => tag'[b] # want'[q]
    BY <2>2, <2>4, <2>5 DEF DropsSound
  <2> QED BY <2>2, <2>3, <2>4, <2>6, Zenon DEF DropsSound
<1>2. ASSUME NEW p \in Backends \cup Writers, Flush(p)  PROVE DropsSound'
  <2> p \in Proc /\ Moves(p) /\ UNCHANGED <<rel, tag>>
    BY <1>2, FlushFrame, Zenon DEF Proc
  <2>1. want'[p] \in {want[p], None}
    BY <1>2, Zenon DEF Flush, SyncOneBuffer, LockForFlush, StartWrite, ReadLSN, XLogFlush,
         SmgrWrite, WriteError, EndWrite, AfterFlush, LocalOK
  <2>2. \A q \in Droppers : pc'[q] = pc[q] /\ want'[q] = want[q] /\ buf'[q] = buf[q]
    BY <1>2, Zenon DEF Moves, Proc
  <2>3. \A q \in Backends : want'[q] # None => rel'[want'[q]] = "live"
    BY <2>1 DEF DropsSound, Moves, Proc
  <2> QED BY <2>2, <2>3 DEF DropsSound
<1>3. ASSUME NEW p \in Droppers, Drop(p)  PROVE DropsSound'
  <2> p \in Proc /\ Moves(p) /\ \A q \in Backends : q # p /\ want'[q] = want[q]
    <3>1. p \in Proc /\ Moves(p)
      BY <1>3, DropFrame, Zenon DEF Proc
    <3>2. \A q \in Backends : q \in Proc /\ q # p
      BY Zenon DEF Proc
    <3> QED BY <3>1, <3>2, Zenon DEF Moves
  <2>1. ASSUME NEW t \in Tags, BeginDrop(p, t)  PROVE DropsSound'
    <3>1. /\ rel' = [rel EXCEPT ![t] = "dropping"] /\ want'[p] = t /\ buf'[p] = 0
          /\ pc'[p] = "scan" /\ tag' = tag /\ \A q \in Backends : want[q] # t
      BY <2>1, Zenon DEF BeginDrop, header, Goto, PlacesOK, LocalOK
    <3>2. \A q \in Backends : want'[q] # None => rel'[want'[q]] = "live"
      BY <3>1 DEF DropsSound, StoreOK
    <3>3. \A b \in Buf : ~(b < 0)
      BY BufferNumbers, Zenon
    <3>4. \A q \in Droppers : pc'[q] # "idle" => rel'[want'[q]] # "live"
      BY <3>1 DEF DropsSound, Moves, StoreOK, WantsBlock, Proc
    <3>5. \A q \in Droppers : pc'[q] # "idle" => \A b \in Buf : b < buf'[q] => tag'[b] # want'[q]
      BY <3>1, <3>3 DEF DropsSound, Moves, Proc
    <3> QED BY <3>2, <3>4, <3>5, Zenon DEF DropsSound
  <2>2. CASE EndDrop(p)
    <3>1. /\ rel' = [rel EXCEPT ![want[p]] = "gone"] /\ pc'[p] = "idle" /\ tag' = tag
          /\ pc[p] = "scan"
      BY <2>2, Zenon DEF EndDrop, header, At, Goto, PlacesOK
    <3>2. rel[want[p]] # "live" /\ want[p] \in Tags
      BY <3>1, Zenon DEF DropsSound, WantsBlock
    <3>3. \A q \in Backends : want'[q] # None => rel'[want'[q]] = "live"
      <4> SUFFICES ASSUME NEW q \in Backends, want'[q] # None
          PROVE  rel'[want'[q]] = "live"
        BY Zenon
      <4>1. rel[want[q]] = "live" /\ want'[q] = want[q] /\ want[q] # want[p]
        BY <3>2, Zenon DEF DropsSound
      <4> QED BY <3>1, <4>1 DEF StoreOK
    <3>4. \A q \in Droppers : pc'[q] # "idle" => rel'[want'[q]] # "live"
      <4> SUFFICES ASSUME NEW q \in Droppers, pc'[q] # "idle"
          PROVE  rel'[want'[q]] # "live"
        BY Zenon
      <4>1. want'[q] = want[q] /\ rel[want[q]] # "live" /\ want[q] \in Tags
        BY <3>1, Zenon DEF DropsSound, Moves, WantsBlock, Proc
      <4> QED BY <3>1, <4>1, Zenon DEF StoreOK
    <3>5. \A q \in Droppers : pc'[q] # "idle" => \A b \in Buf : b < buf'[q] => tag'[b] # want'[q]
      BY <3>1 DEF DropsSound, Moves, Proc
    <3> QED BY <3>3, <3>4, <3>5, Zenon DEF DropsSound
  <2>3. CASE ~EndDrop(p) /\ ~\E t \in Tags : BeginDrop(p, t)
    <3>1. rel' = rel /\ pc[p] # "idle" /\ want' = want
      BY <1>3, <2>3, Zenon DEF Drop, DropScan, LockToDrop, DropTaken, DropPinned, WaitIO,
           DropClear, DropDelete, At, store
    <3>2. want[p] \in Tags /\ buf[p] \in 0 .. NBuffers
      BY <3>1, Zenon DEF WantsBlock, LocalOK
    <3>3. \A b \in Buf : tag'[b] = tag[b] \/ tag'[b] = None
      <4>1. CASE DropClear(p)
        BY <4>1, Zenon DEF DropClear, ClearHeader, HeaderOK
      <4> QED BY <1>3, <4>1, DropFrame, Zenon
    <3>4. buf'[p] = buf[p] \/ (buf'[p] = buf[p] + 1 /\ tag[buf[p]] # want[p])
      <4>1. CASE DropDelete(p)
        <5>1. pc[p] = "dropdelete" /\ buf'[p] = buf[p] + 1
          BY <4>1, Zenon DEF DropDelete, At, LocalOK
        <5>2. buf[p] \in Buf
          BY <5>1, Zenon DEF WantsBlock
        <5> QED BY <3>2, <5>1, <5>2, Zenon DEF TableSound, Changing
      <4>2. CASE ~DropDelete(p)
        BY <1>3, <2>3, <4>2, Zenon DEF Drop, DropScan, LockToDrop, DropTaken, DropPinned,
             WaitIO, DropClear, LocalOK
      <4> QED BY <4>1, <4>2, Zenon
    <3>5. \A b \in Buf : b < buf'[p] => b < buf[p] \/ (b = buf[p] /\ tag[b] # want[p])
      <4>1. PICK i \in 0 .. NBuffers : i = buf[p]
        BY <3>2, Zenon
      <4>2. \A b \in Buf : b < i + 1 => b < i \/ b = i
        BY BufferNumbers, Zenon
      <4> QED BY <3>4, <4>1, <4>2, Zenon
    <3>6. \A b \in Buf : b < buf'[p] => tag'[b] # want'[p]
      <4> SUFFICES ASSUME NEW b \in Buf, b < buf'[p] PROVE tag'[b] # want'[p]
        BY Zenon
      <4>1. tag[b] # want[p]
        BY <3>1, <3>5, Zenon DEF DropsSound
      <4>2. want[p] # None
        BY <3>2, Zenon
      <4> QED BY <3>1, <3>3, <4>1, <4>2, Zenon
    <3>7. \A q \in Droppers \ {p} : pc'[q] # "idle" =>
            \A b \in Buf : b < buf'[q] => tag'[b] # want'[q]
      BY <3>3 DEF DropsSound, WantsBlock, Moves, Proc
    <3>8. \A q \in Droppers : pc'[q] # "idle" => rel'[want'[q]] # "live"
      BY <3>1, Zenon DEF DropsSound, Moves, Proc
    <3> QED BY <3>1, <3>6, <3>7, <3>8, Zenon DEF DropsSound
  <2> QED BY <2>1, <2>2, <2>3, Zenon
<1>4. ASSUME NEW b \in Buf, NEW ok \in BOOLEAN, CompleteRead(b, ok)  PROVE DropsSound'
  <2>1. UNCHANGED <<rel, tag, want, buf>>
    BY <1>4, CompleteFrame, Zenon
  <2>2. \A q \in Droppers : pc'[q] = pc[q]
    BY <1>4, CompleteFrame, Zenon DEF PlacesOK, DropPlaces, Proc
  <2> QED BY <2>1, <2>2, Zenon DEF DropsSound
<1> QED BY <1>1, <1>2, <1>3, <1>4, Zenon DEF Next

\* No step gives a buffer to a dropped relation.
LEMMA GoneStep ==
  ASSUME DroppedIsGone, DropsSound, HeaderOK, StoreOK, PlacesOK, LocalOK, WantsBlock,
         PinsHold, HeadersSound, Next
  PROVE  DroppedIsGone'
<1>1. ASSUME NEW p \in Backends, Alloc(p) \/ Access(p)  PROVE DroppedIsGone'
  BY <1>1, TagsLive, Zenon DEF DroppedIsGone, Live
<1>2. ASSUME NEW p \in Backends \cup Writers, Flush(p)  PROVE DroppedIsGone'
  BY <1>2, FlushFrame, Zenon DEF DroppedIsGone, Proc
<1>3. ASSUME NEW p \in Droppers, Drop(p)  PROVE DroppedIsGone'
  <2>1. \A b \in Buf : tag'[b] = tag[b] \/ tag'[b] = None
    <3>1. CASE DropClear(p)
      BY <3>1, Zenon DEF DropClear, ClearHeader, HeaderOK
    <3> QED BY <1>3, <3>1, DropFrame, Zenon DEF Proc
  <2>2. CASE EndDrop(p)
    <3>1. \A b \in Buf : tag[b] # want[p]
      <4>1. pc[p] # "idle" /\ buf[p] = NBuffers
        BY <2>2, Zenon DEF EndDrop, At
      <4>2. \A b \in Buf : b < NBuffers
        BY BufferNumbers, Zenon
      <4> QED BY <4>1, <4>2, Zenon DEF DropsSound
    <3> QED BY <2>1, <2>2, <3>1, Zenon DEF EndDrop, DroppedIsGone, StoreOK
  <2>3. CASE \E t \in Tags : BeginDrop(p, t)
    BY <2>1, <2>3 DEF BeginDrop, DroppedIsGone, StoreOK
  <2>4. CASE UNCHANGED rel
    BY <2>1, <2>4, Zenon DEF DroppedIsGone
  <2> QED BY <1>3, <2>2, <2>3, <2>4, DropFrame, Zenon DEF Proc
<1>4. ASSUME NEW b \in Buf, NEW ok \in BOOLEAN, CompleteRead(b, ok)  PROVE DroppedIsGone'
  BY <1>4, CompleteFrame DEF DroppedIsGone
<1> QED BY <1>1, <1>2, <1>3, <1>4, Zenon DEF Next

-----------------------------------------------------------------------------
(***************************************************************************)
(* The pins.  A step of p takes away only pins of p, and changes no        *)
(* identity of a buffer that another process has pinned.                   *)
(***************************************************************************)
\* The pins of the other processes survive a step of p that respects them.
LEMMA PinsKept ==
  ASSUME PinsHold, NEW p \in Proc, Moves(p),
         \A b \in Buf : pins[b] \ {p} \subseteq pins'[b],
         \A b \in Buf : pins'[b] \subseteq pins[b] \/ pins[b] = {} \/ tag[b] # None,
         \A b \in Buf : \/ pins[b] \subseteq {p}
                        \/ tag'[b] = tag[b] /\ (valid[b] => valid'[b]),
         PinHolds(p)'
  PROVE  PinsHold'
<1> SUFFICES ASSUME NEW q \in Proc  PROVE PinHolds(q)'
  BY Zenon DEF PinsHold
<1>0. CASE q = p
  BY <1>0, Zenon DEF PinHolds
<1> SUFFICES ASSUME q # p  PROVE PinHolds(q)'
  BY <1>0, Zenon
<1>1. pc'[q] = pc[q] /\ want'[q] = want[q] /\ old'[q] = old[q] /\ buf'[q] = buf[q]
  BY Zenon DEF Moves
<1>2. PinHolds(q)
  BY Zenon DEF PinsHold, PinHolds
<1>3. CASE pc[q] \notin PinPlaces
  BY <1>1, <1>3, Zenon DEF PinHolds, PinPlaces, VictimPlaces
<1>4. CASE pc[q] \in PinPlaces
  <2>1. buf[q] \in Buf /\ q \in pins[buf[q]] /\ q \in pins'[buf[q]]
    BY <1>2, <1>4, Zenon DEF PinHolds
  <2>2. tag'[buf[q]] = tag[buf[q]] /\ (valid[buf[q]] => valid'[buf[q]])
    BY <2>1, Zenon
  <2>3. pc[q] \in OwnPlaces => pins'[buf[q]] = {q}
    BY <1>2, <2>1, Zenon DEF PinHolds
  <2> QED BY <1>1, <1>2, <2>1, <2>2, <2>3, Zenon DEF PinHolds
<1> QED BY <1>3, <1>4, Zenon

\* A block found in the table by its reader, or by a backend that lost the
\* race for it, has the wanted identity.
LEMMA FoundTag ==
  ASSUME PartitionsLocked, TableSound, WantsBlock, MappingOK, NEW p \in Backends,
         pc[p] \in {"found", "collision"}
  PROVE  table[want[p]] \in Buf /\ tag[table[want[p]]] = want[p]
<1> p \in Proc /\ want[p] \in Tags
  BY Zenon DEF WantsBlock, Proc
<1>1. Agree(want[p])
  <2>1. CASE pc[p] = "found"
    BY <2>1, FreeAgrees, Zenon DEF PartitionsLocked
  <2>2. CASE pc[p] = "collision"
    BY <2>2, LockedAgrees, Zenon DEF HoldsPartition, Changing
  <2> QED BY <2>1, <2>2, Zenon
<1> QED BY <1>1 DEF TableSound, Agree, MappingOK

\* BufferAlloc takes nobody's pin or page.
LEMMA PinsAlloc ==
  ASSUME PinsHold, HeaderOK, MappingOK, PlacesOK, LocalOK, WantsBlock, HeadersSound,
         PartitionsLocked, TableSound, NEW p \in Backends, Alloc(p)
  PROVE  PinsHold'
<1> p \in Proc /\ Moves(p) /\ OwnPin(p) /\ p # Aio
  BY AllocFrame, OwnPins, Zenon DEF Proc
<1>1. PinHolds(p) /\ \A b \in Buf : pins[b] \ {p} \subseteq pins'[b]
  BY DEF PinsHold, PinHolds, OwnPin
<1>2. ASSUME NEW t \in Tags, Lookup(p, t)  PROVE PinsHold'
  <2>1. UNCHANGED <<tag, valid, pins>> /\ pc'[p] \in {"victim", "found"}
    BY <1>2, Zenon DEF Lookup, header, Goto, PlacesOK
  <2>2. PinHolds(p)'
    BY <2>1, Zenon DEF PinHolds, PinPlaces, OwnPlaces, VictimPlaces, ReadPlaces, HoldPlaces,
         FlushPlaces
  <2> QED BY <1>1, <2>1, <2>2, PinsKept, Zenon
<1>3. CASE PinFound(p)
  <2>1. /\ UNCHANGED <<tag, valid, buf, want>> /\ PinBuffer(p, buf[p])
        /\ pc[p] = "found" /\ pc'[p] = IF valid[buf[p]] THEN "have" ELSE "read"
    BY <1>3, Zenon DEF PinFound, Goto, PlacesOK, At
  <2>2. buf[p] \in Buf /\ tag[buf[p]] = want[p] /\ want[p] \in Tags
    BY <2>1, FoundTag, Zenon DEF TableSound, WantsBlock
  <2>3. \A b \in Buf : pins'[b] = IF b = buf[p] THEN pins[b] \cup {p} ELSE pins[b]
    BY <2>1, Zenon DEF PinBuffer, HeaderOK
  <2>4. PinHolds(p)'
    BY <2>1, <2>2, <2>3, Zenon DEF PinHolds, PinPlaces, OwnPlaces, VictimPlaces,
         ReadPlaces, HoldPlaces, FlushPlaces
  <2>5. \A b \in Buf : pins'[b] \subseteq pins[b] \/ tag[b] # None
    BY <2>2, <2>3, Zenon
  <2> QED BY <1>1, <2>1, <2>4, <2>5, PinsKept, Zenon
<1>4. ASSUME NEW b \in Buf, GetVictim(p, b)  PROVE PinsHold'
  <2>1. /\ UNCHANGED <<tag, valid>> /\ PinBuffer(p, b) /\ buf'[p] = b /\ pins[b] = {}
        /\ pc'[p] = IF dirty[b] THEN "flush" ELSE IF tag[b] # None THEN "evict" ELSE "insert"
    BY <1>4, Zenon DEF GetVictim, Goto, PlacesOK, LocalOK
  <2>2. dirty[b] => tag[b] # None
    BY Zenon DEF HeadersSound
  <2>3. \A c \in Buf : pins'[c] = IF c = b THEN {p} ELSE pins[c]
    BY <2>1, Zenon DEF PinBuffer, HeaderOK
  <2>4. PinHolds(p)'
    BY <2>1, <2>2, <2>3, Zenon DEF PinHolds, PinPlaces, OwnPlaces, VictimPlaces, ReadPlaces,
         HoldPlaces, FlushPlaces
  <2>5. \A c \in Buf : pins'[c] \subseteq pins[c] \/ pins[c] = {}
    BY <2>1, <2>3, Zenon
  <2> QED BY <1>1, <2>1, <2>4, <2>5, PinsKept, Zenon
<1>5. CASE LockVictim(p) \/ LockToEvict(p) \/ BufTableDelete(p) \/ InsertEntry(p)
  <2>1. UNCHANGED <<tag, valid, pins>>
    BY <1>5, Zenon DEF LockVictim, LockToEvict, BufTableDelete, InsertEntry, header
  <2>2. /\ buf'[p] = buf[p]
        /\ \/ pc[p] = "flush" /\ pc'[p] = "start"
           \/ pc[p] = "evict" /\ pc'[p] = "recheck" /\ old'[p] = tag[buf[p]]
           \/ pc[p] \in OwnPlaces /\ pc'[p] \in OwnPlaces
    BY <1>5, Zenon DEF LockVictim, LockToEvict, BufTableDelete, InsertEntry, At, Goto,
         PlacesOK, LocalOK, OwnPlaces
  <2>3. PinHolds(p)'
    BY <1>1, <2>1, <2>2, Zenon DEF PinHolds, PinPlaces, OwnPlaces, VictimPlaces, ReadPlaces,
         HoldPlaces, FlushPlaces
  <2> QED BY <1>1, <2>1, <2>3, PinsKept, Zenon
<1>6. CASE VictimLocked(p) \/ RejectVictim(p) \/ VictimInUse(p)
  <2>1. UNCHANGED <<tag, valid>> /\ UnpinBuffer(p, buf[p]) /\ pc'[p] = "victim"
    BY <1>6, Zenon DEF VictimLocked, RejectVictim, VictimInUse, LetGo, Goto, PlacesOK
  <2>2. \A b \in Buf : pins'[b] \subseteq pins[b]
    BY <2>1, Zenon DEF UnpinBuffer, HeaderOK
  <2>3. PinHolds(p)'
    BY <2>1, Zenon DEF PinHolds, PinPlaces, OwnPlaces, VictimPlaces, ReadPlaces, HoldPlaces,
         FlushPlaces
  <2> QED BY <1>1, <2>1, <2>2, <2>3, PinsKept, Zenon
<1>7. CASE EvictVictim(p)
  <2>1. /\ tag' = [tag EXCEPT ![buf[p]] = None] /\ valid' = [valid EXCEPT ![buf[p]] = FALSE]
        /\ pins' = pins /\ pins[buf[p]] = {p} /\ buf' = buf
        /\ pc[p] = "recheck" /\ pc'[p] = "delete"
    BY <1>7, Zenon DEF EvictVictim, ClearHeader, InUse, At, Goto, PlacesOK
  <2>2. buf[p] \in Buf
    BY <1>1, <2>1, Zenon DEF PinHolds, PinPlaces, VictimPlaces
  <2>3. PinHolds(p)'
    BY <2>1, <2>2, Zenon DEF PinHolds, PinPlaces, OwnPlaces, VictimPlaces, ReadPlaces,
         HoldPlaces, FlushPlaces, HeaderOK
  <2>4. \A b \in Buf : \/ pins[b] \subseteq {p}
                       \/ tag'[b] = tag[b] /\ (valid[b] => valid'[b])
    BY <2>1, Zenon DEF HeaderOK
  <2> QED BY <1>1, <2>1, <2>3, <2>4, PinsKept, Zenon
<1>8. CASE SetTag(p)
  <2>1. /\ tag' = [tag EXCEPT ![buf[p]] = want[p]] /\ UNCHANGED <<valid, pins, buf, want>>
        /\ pc[p] = "settag" /\ pc'[p] = "read"
    BY <1>8, Zenon DEF SetTag, At, Goto, PlacesOK
  <2>2. buf[p] \in Buf /\ pins[buf[p]] = {p}
    BY <1>1, <2>1, Zenon DEF PinHolds, PinPlaces, OwnPlaces
  <2>3. PinHolds(p)'
    BY <2>1, <2>2, Zenon DEF PinHolds, PinPlaces, OwnPlaces, VictimPlaces, ReadPlaces,
         HoldPlaces, FlushPlaces, HeaderOK
  <2>4. \A b \in Buf : \/ pins[b] \subseteq {p}
                       \/ tag'[b] = tag[b] /\ (valid[b] => valid'[b])
    BY <2>1, <2>2, Zenon DEF HeaderOK
  <2> QED BY <1>1, <2>1, <2>3, <2>4, PinsKept, Zenon
<1>9. CASE UseExisting(p)
  <2> DEFINE c == table[want[p]]
  <2>1. /\ UNCHANGED <<tag, valid, want>> /\ buf'[p] = c
        /\ pins' = [pins EXCEPT ![buf[p]] = @ \ {p}, ![c] = @ \cup {p}]
        /\ pc[p] = "collision" /\ pc'[p] = IF valid[c] THEN "have" ELSE "read"
    BY <1>9, Zenon DEF UseExisting, At, Goto, PlacesOK, LocalOK
  <2>2. c \in Buf /\ tag[c] = want[p] /\ want[p] \in Tags
    BY <2>1, FoundTag, Zenon DEF WantsBlock
  <2>3. \A b \in Buf : pins'[b] \subseteq pins[b] \cup (IF b = c THEN {p} ELSE {})
    BY <2>1, <2>2, Zenon DEF HeaderOK
  <2>4. p \in pins'[c]
    BY <2>1, <2>2, Zenon DEF HeaderOK
  <2> HIDE DEF c
  <2>5. PinHolds(p)'
    BY <2>1, <2>2, <2>4, Zenon DEF PinHolds, PinPlaces, OwnPlaces, VictimPlaces, ReadPlaces,
         HoldPlaces, FlushPlaces
  <2>6. \A b \in Buf : pins'[b] \subseteq pins[b] \/ tag[b] # None
    BY <2>2, <2>3, Zenon
  <2> QED BY <1>1, <2>1, <2>5, <2>6, PinsKept, Zenon
<1> QED BY <1>2, <1>3, <1>4, <1>5, <1>6, <1>7, <1>8, <1>9, Zenon DEF Alloc

\* Every step leaves each process the buffer it has pinned.
LEMMA PinsStep ==
  ASSUME PinsHold, HeaderOK, MappingOK, PlacesOK, LocalOK, WantsBlock, HeadersSound,
         PartitionsLocked, TableSound, Next
  PROVE  PinsHold'
<1>1. ASSUME NEW p \in Backends, Access(p)  PROVE PinsHold'
  <2> p \in Proc /\ Moves(p) /\ UNCHANGED <<tag, valid>> /\ p # Aio
    BY <1>1, AccessFrame, Zenon DEF Proc
  <2>1. PinHolds(p)
    BY Zenon DEF PinsHold, PinHolds
  <2>2. CASE StartRead(p) /\ ~valid[buf[p]]
    <3>1. /\ PinBuffer(Aio, buf[p]) /\ UNCHANGED <<buf, want>>
          /\ pc[p] = "read" /\ pc'[p] = "reading"
      BY <2>2, Zenon DEF StartRead, At, Goto, PlacesOK
    <3>2. want[p] \in Tags /\ buf[p] \in Buf /\ p \in pins[buf[p]] /\ tag[buf[p]] = want[p]
      BY <2>1, <3>1, Zenon DEF WantsBlock, PinHolds, PinPlaces, ReadPlaces
    <3>3. \A b \in Buf : pins'[b] = IF b = buf[p] THEN pins[b] \cup {Aio} ELSE pins[b]
      BY <3>1, Zenon DEF PinBuffer, HeaderOK
    <3>4. PinHolds(p)'
      BY <3>1, <3>2, <3>3, Zenon DEF PinHolds, PinPlaces, OwnPlaces, VictimPlaces,
           ReadPlaces, HoldPlaces, FlushPlaces
    <3>5. \A b \in Buf : pins[b] \subseteq pins'[b] /\ (pins'[b] \subseteq pins[b] \/ tag[b] # None)
      BY <3>2, <3>3, Zenon
    <3> QED BY <3>4, <3>5, PinsKept, Zenon
  <2>3. CASE UnpinBuffer(p, buf[p]) /\ pc'[p] = "idle"
    <3>1. \A b \in Buf : pins[b] \ {p} \subseteq pins'[b] /\ pins'[b] \subseteq pins[b]
      BY <2>3, Zenon DEF UnpinBuffer, HeaderOK
    <3>2. PinHolds(p)'
      BY <2>3, Zenon DEF PinHolds, PinPlaces, OwnPlaces, VictimPlaces, ReadPlaces, HoldPlaces,
           FlushPlaces
    <3> QED BY <3>1, <3>2, PinsKept, Zenon
  <2>4. CASE /\ UNCHANGED <<pins, buf, want>> /\ pc[p] \in {"read"} \cup HoldPlaces
             /\ pc'[p] \in HoldPlaces /\ (pc[p] = "read" => valid[buf[p]])
    <3>1. PinHolds(p)'
      BY <2>1, <2>4, Zenon DEF PinHolds, PinPlaces, OwnPlaces, VictimPlaces, ReadPlaces,
           HoldPlaces, FlushPlaces
    <3> QED BY <2>4, <3>1, PinsKept, Zenon
  <2>5. \/ StartRead(p) /\ ~valid[buf[p]]
        \/ UnpinBuffer(p, buf[p]) /\ pc'[p] = "idle"
        \/ /\ UNCHANGED <<pins, buf, want>> /\ pc[p] \in {"read"} \cup HoldPlaces
           /\ pc'[p] \in HoldPlaces /\ (pc[p] = "read" => valid[buf[p]])
    BY <1>1, Zenon DEF Access, StartRead, ReadError, ReleaseBuffer, LockExclusive,
         Update, UnlockExclusive, LockShared, UnlockShared, SetHint, HintAlreadyDirty,
         HintLog, MarkHint, At, Goto, PlacesOK, LetGo, HoldPlaces, header, local
  <2> QED BY <2>2, <2>3, <2>4, <2>5, Zenon
<1>2. ASSUME NEW p \in Backends \cup Writers, Flush(p)  PROVE PinsHold'
  <2> p \in Proc /\ Moves(p) /\ UNCHANGED <<tag, valid>>
    BY <1>2, FlushFrame, Zenon DEF Proc
  <2>1. PinHolds(p)
    BY Zenon DEF PinsHold, PinHolds
  <2>2. ASSUME NEW b \in Buf, SyncOneBuffer(p, b)  PROVE PinsHold'
    <3>1. /\ PinBuffer(p, b) /\ buf'[p] = b /\ pc'[p] = "flushlock" /\ valid[b]
      BY <2>2, Zenon DEF SyncOneBuffer, Goto, PlacesOK, LocalOK
    <3>2. \A c \in Buf : pins'[c] = IF c = b THEN pins[c] \cup {p} ELSE pins[c]
      BY <3>1, Zenon DEF PinBuffer, HeaderOK
    <3>3. tag[b] # None
      BY <3>1, Zenon DEF HeadersSound
    <3>4. PinHolds(p)'
      BY <3>1, <3>2, <3>3, Zenon DEF PinHolds, PinPlaces, OwnPlaces, VictimPlaces,
           ReadPlaces, HoldPlaces, FlushPlaces
    <3>5. \A c \in Buf : pins[c] \subseteq pins'[c] /\ (pins'[c] \subseteq pins[c] \/ tag[c] # None)
      BY <3>2, <3>3, Zenon
    <3> QED BY <3>4, <3>5, PinsKept, Zenon
  <2>3. CASE UnpinBuffer(p, buf[p]) /\ pc'[p] = "idle"
    <3>1. \A b \in Buf : pins[b] \ {p} \subseteq pins'[b] /\ pins'[b] \subseteq pins[b]
      BY <2>3, Zenon DEF UnpinBuffer, HeaderOK
    <3>2. PinHolds(p)'
      BY <2>3, Zenon DEF PinHolds, PinPlaces, OwnPlaces, VictimPlaces, ReadPlaces, HoldPlaces,
           FlushPlaces
    <3> QED BY <3>1, <3>2, PinsKept, Zenon
  <2>4. CASE /\ UNCHANGED <<pins, buf>> /\ pc[p] \in {"flushlock"} \cup FlushPlaces
             /\ pc'[p] \in {"evict"} \cup FlushPlaces
    <3>1. PinHolds(p)'
      BY <2>1, <2>4, Zenon DEF PinHolds, PinPlaces, OwnPlaces, VictimPlaces, ReadPlaces,
           HoldPlaces, FlushPlaces
    <3> QED BY <2>4, <3>1, PinsKept, Zenon
  <2>5. \/ \E b \in Buf : SyncOneBuffer(p, b)
        \/ UnpinBuffer(p, buf[p]) /\ pc'[p] = "idle"
        \/ /\ UNCHANGED <<pins, buf>> /\ pc[p] \in {"flushlock"} \cup FlushPlaces
           /\ pc'[p] \in {"evict"} \cup FlushPlaces
    BY <1>2, Zenon DEF Flush, LockForFlush, StartWrite, ReadLSN, XLogFlush, SmgrWrite,
         WriteError, EndWrite, AfterFlush, At, Goto, PlacesOK, LetGo, FlushPlaces, header
  <2> QED BY <2>2, <2>3, <2>4, <2>5, Zenon
<1>3. ASSUME NEW p \in Droppers, Drop(p)  PROVE PinsHold'
  <2> p \in Proc /\ Moves(p) /\ pins' = pins
    BY <1>3, DropFrame, Zenon DEF Proc
  <2>1. PinHolds(p)'
    <3>1. pc'[p] \in DropPlaces
      BY <1>3, Zenon DEF Drop, BeginDrop, DropScan, EndDrop, LockToDrop, DropTaken,
           DropPinned, WaitIO, DropClear, DropDelete, At, Goto, PlacesOK, DropPlaces
    <3> QED BY <3>1, Zenon DEF DropPlaces, PinHolds, PinPlaces, OwnPlaces, VictimPlaces,
         ReadPlaces, HoldPlaces, FlushPlaces
  <2>2. \A b \in Buf : pins[b] = {} \/ (tag'[b] = tag[b] /\ valid'[b] = valid[b])
    <3>1. CASE DropClear(p)
      BY <3>1, Zenon DEF DropClear, ClearHeader, HeaderOK
    <3>2. CASE UNCHANGED <<tag, valid, dirty, justDirtied, io>>
      BY <3>2, Zenon
    <3> QED BY <1>3, <3>1, <3>2, DropFrame, Zenon
  <2> QED BY <2>1, <2>2, PinsKept, Zenon
<1>4. ASSUME NEW b \in Buf, NEW ok \in BOOLEAN, CompleteRead(b, ok)  PROVE PinsHold'
  <2> SUFFICES ASSUME NEW q \in Proc  PROVE PinHolds(q)'
    BY Zenon DEF PinsHold, PinHolds
  <2>1. PinHolds(q)
    BY Zenon DEF PinsHold, PinHolds
  <2>2. UNCHANGED <<tag, want, old, buf>> /\ ~valid[b] /\ Aio \in pins[b]
    BY <1>4, CompleteFrame, Zenon DEF CompleteRead
  <2>3. \A c \in Buf : /\ c # b => pins'[c] = pins[c] /\ valid'[c] = valid[c]
                       /\ c = b => pins'[c] = pins[c] \ {Aio} /\ valid'[c] = ok
    BY <1>4, Zenon DEF CompleteRead, UnpinBuffer, HeaderOK
  <2>4. \/ pc'[q] = pc[q]
        \/ pc[q] = "reading" /\ buf[q] = b /\ pc'[q] = IF ok THEN "have" ELSE "failed"
    BY <1>4, CompleteFrame
  <2>5. CASE pc'[q] = pc[q]
    <3>1. pc[q] \in OwnPlaces => buf[q] # b
      BY <2>1, <2>2, Zenon DEF PinHolds
    <3>2. pc[q] \in HoldPlaces => buf[q] # b
      BY <2>1, <2>2, Zenon DEF PinHolds
    <3>3. pc[q] \in PinPlaces => q \in pins'[buf[q]]
      BY <2>1, <2>3, Zenon DEF PinHolds
    <3>4. pc[q] \in OwnPlaces \cup HoldPlaces => pc[q] \in PinPlaces
      BY Zenon DEF PinPlaces
    <3> QED BY <2>1, <2>2, <2>3, <2>5, <3>1, <3>2, <3>3, <3>4, Zenon DEF PinHolds
  <2>6. CASE pc[q] = "reading" /\ buf[q] = b /\ pc'[q] = IF ok THEN "have" ELSE "failed"
    <3>1. q \in pins'[b] /\ tag[b] = want[q]
      <4>1. pc[q] \in ReadPlaces /\ pc[q] \in PinPlaces
        BY <2>6, Zenon DEF PinPlaces, ReadPlaces
      <4>2. q \in pins[b] /\ q # Aio
        BY <2>1, <2>6, <4>1, Zenon DEF PinHolds
      <4>3. tag[buf[q]] = want[q]
        BY <2>1, <4>1, Zenon DEF PinHolds
      <4> QED BY <2>3, <2>6, <4>2, <4>3, Zenon
    <3> QED BY <2>2, <2>3, <2>6, <3>1, Zenon DEF PinHolds, PinPlaces, OwnPlaces, VictimPlaces,
         ReadPlaces, HoldPlaces, FlushPlaces
  <2> QED BY <2>4, <2>5, <2>6, Zenon
<1> QED BY <1>1, <1>2, <1>3, <1>4, PinsAlloc, Zenon DEF Next

-----------------------------------------------------------------------------
(***************************************************************************)
(* The content locks.                                                      *)
(***************************************************************************)
\* The content locks of the others survive a step of p.
LEMMA LocksKept ==
  ASSUME LocksHeld, PinsHold, ContentOK, NEW p \in Proc, Moves(p),
         \A b \in Buf : lockX[b] \notin {p, None} => lockX'[b] = lockX[b],
         \A b \in Buf : lockS[b] \ {p} \subseteq lockS'[b],
         \A b \in Buf : lockX'[b] = None \/ lockS'[b] = {},
         pc'[p] = "locked" => lockX'[buf'[p]] = p,
         pc'[p] \in SharePlaces => p \in lockS'[buf'[p]]
  PROVE  LocksHeld'
<1>1. \A q \in Proc : pc[q] \in {"locked"} \cup SharePlaces => buf[q] \in Buf
  BY Zenon DEF PinsHold, PinHolds, PinPlaces, VictimPlaces, HoldPlaces, SharePlaces
<1>2. \A q \in Proc \ {p} : pc'[q] = "locked" => lockX'[buf'[q]] = q
  BY <1>1 DEF Moves, LocksHeld
<1>3. \A q \in Proc \ {p} : pc'[q] \in SharePlaces => q \in lockS'[buf'[q]]
  BY <1>1, Zenon DEF Moves, LocksHeld, SharePlaces
<1> QED BY <1>2, <1>3 DEF LocksHeld, SharePlaces

\* So they do if p takes or releases a share lock.
LEMMA ShareKept ==
  ASSUME LocksHeld, PinsHold, ContentOK, NEW p \in Proc, Moves(p), pc'[p] # "locked",
         \/ UNCHANGED <<lockX, lockS>> /\ (pc'[p] \in SharePlaces =>
                                             pc[p] \in SharePlaces /\ buf'[p] = buf[p])
         \/ LockShare(p, buf[p]) /\ buf'[p] = buf[p] /\ buf[p] \in Buf
         \/ UnlockShare(p, buf[p]) /\ pc'[p] \notin SharePlaces
  PROVE  LocksHeld'
<1>1. CASE UNCHANGED <<lockX, lockS>> /\ (pc'[p] \in SharePlaces =>
                                            pc[p] \in SharePlaces /\ buf'[p] = buf[p])
  <2>1. pc'[p] \in SharePlaces => p \in lockS'[buf'[p]]
    BY <1>1, Zenon DEF LocksHeld, SharePlaces
  <2>2. \A b \in Buf : lockX'[b] = None \/ lockS'[b] = {}
    BY <1>1, Zenon DEF LocksHeld
  <2> QED BY <1>1, <2>1, <2>2, LocksKept, Zenon
<1>2. CASE LockShare(p, buf[p]) /\ buf'[p] = buf[p] /\ buf[p] \in Buf
  <2>1. /\ lockX' = lockX /\ lockX[buf[p]] = None
        /\ \A b \in Buf : lockS'[b] = IF b = buf[p] THEN lockS[b] \cup {p} ELSE lockS[b]
    BY <1>2, Zenon DEF LockShare, ContentOK
  <2>2. \A b \in Buf : lockX'[b] = None \/ lockS'[b] = {}
    BY <2>1, Zenon DEF LocksHeld
  <2>3. p \in lockS'[buf'[p]] /\ \A b \in Buf : lockS[b] \ {p} \subseteq lockS'[b]
    BY <1>2, <2>1, Zenon
  <2> QED BY <2>1, <2>2, <2>3, LocksKept, Zenon
<1>3. CASE UnlockShare(p, buf[p]) /\ pc'[p] \notin SharePlaces
  <2>1. /\ lockX' = lockX
        /\ \A b \in Buf : lockS[b] \ {p} \subseteq lockS'[b] /\ lockS'[b] \subseteq lockS[b]
    BY <1>3, Zenon DEF UnlockShare, ContentOK
  <2>2. \A b \in Buf : lockX'[b] = None \/ lockS'[b] = {}
    BY <2>1, Zenon DEF LocksHeld
  <2> QED BY <1>3, <2>1, <2>2, LocksKept, Zenon
<1> QED BY <1>1, <1>2, <1>3, Zenon

\* Who relies on a content lock has it.
LEMMA LocksStep ==
  ASSUME LocksHeld, PinsHold, ContentOK, HeaderOK, HeadersSound, PlacesOK, LocalOK, Next
  PROVE  LocksHeld'
<1>1. ASSUME NEW p \in Backends, Alloc(p)  PROVE LocksHeld'
  <2> p \in Proc /\ Moves(p)
    BY <1>1, AllocFrame, Zenon DEF Proc
  <2>1. CASE LockVictim(p)
    <3>1. LockShare(p, buf[p]) /\ buf'[p] = buf[p] /\ pc[p] = "flush" /\ pc'[p] = "start"
      BY <2>1, Zenon DEF LockVictim, At, Goto, PlacesOK
    <3>2. buf[p] \in Buf
      BY <3>1, Zenon DEF PinsHold, PinHolds, PinPlaces, VictimPlaces
    <3> QED BY <3>1, <3>2, ShareKept, Zenon
  <2>2. CASE ~LockVictim(p)
    <3>1. UNCHANGED <<lockX, lockS>> \/ UnlockShare(p, buf[p])
      BY <1>1, <2>2, Zenon DEF Alloc, Lookup, GetVictim, PinFound, VictimLocked,
           RejectVictim, LockToEvict, EvictVictim, VictimInUse, BufTableDelete,
           InsertEntry, SetTag, UseExisting, content
    <3>2. pc'[p] \in {"victim", "found", "have", "read", "flush", "evict", "insert",
                      "recheck", "delete", "settag", "collision"}
      BY <1>1, <2>2, Zenon DEF Alloc, Lookup, GetVictim, PinFound, VictimLocked,
           RejectVictim, LockToEvict, EvictVictim, VictimInUse, BufTableDelete,
           InsertEntry, SetTag, UseExisting, Goto, PlacesOK
    <3>3. pc'[p] \notin {"locked"} \cup SharePlaces
      BY <3>2, Zenon DEF SharePlaces, FlushPlaces
    <3> QED BY <3>1, <3>3, ShareKept, Zenon
  <2> QED BY <2>1, <2>2, Zenon
<1>2. ASSUME NEW p \in Backends, Access(p)  PROVE LocksHeld'
  <2> p \in Proc /\ Moves(p)
    BY <1>2, AccessFrame, Zenon DEF Proc
  <2>1. CASE LockExclusive(p) \/ UnlockExclusive(p)
    <3>1. /\ buf'[p] = buf[p] /\ lockS' = lockS
          /\ \/ /\ pc'[p] = "locked" /\ lockX[buf[p]] = None /\ lockS[buf[p]] = {}
                /\ lockX' = [lockX EXCEPT ![buf[p]] = p] /\ pc[p] = "have"
             \/ /\ pc'[p] = "have" /\ lockX' = [lockX EXCEPT ![buf[p]] = None]
                /\ pc[p] = "locked"
      BY <2>1, Zenon DEF LockExclusive, UnlockExclusive, At, Goto, PlacesOK
    <3>2. buf[p] \in Buf /\ (pc[p] = "locked" => lockX[buf[p]] = p)
      BY <3>1, Zenon DEF PinsHold, PinHolds, PinPlaces, HoldPlaces, LocksHeld
    <3>3. \A b \in Buf : lockX'[b] = None \/ lockS'[b] = {}
      BY <3>1, <3>2, Zenon DEF LocksHeld, ContentOK
    <3>4. \A b \in Buf : lockX[b] \notin {p, None} => lockX'[b] = lockX[b]
      BY <3>1, <3>2, Zenon DEF ContentOK
    <3>5. pc'[p] = "locked" => lockX'[buf'[p]] = p
      BY <3>1, <3>2, Zenon DEF ContentOK
    <3> QED BY <3>1, <3>3, <3>4, <3>5, LocksKept, Zenon DEF SharePlaces, FlushPlaces
  <2>2. CASE Update(p)
    BY <2>2, Zenon DEF Update, local, LocksHeld
  <2>3. CASE LockShared(p)
    <3>1. LockShare(p, buf[p]) /\ buf'[p] = buf[p] /\ pc[p] = "have" /\ pc'[p] = "shared"
      BY <2>3, Zenon DEF LockShared, At, Goto, PlacesOK
    <3>2. buf[p] \in Buf
      BY <3>1, Zenon DEF PinsHold, PinHolds, PinPlaces, HoldPlaces
    <3> QED BY <3>1, <3>2, ShareKept, Zenon
  <2>4. CASE StartRead(p) \/ ReadError(p) \/ ReleaseBuffer(p) \/ UnlockShared(p)
             \/ SetHint(p) \/ HintAlreadyDirty(p) \/ HintLog(p) \/ MarkHint(p)
    <3>1. /\ pc'[p] # "locked"
          /\ \/ /\ UNCHANGED <<lockX, lockS>>
                /\ \/ pc'[p] \notin SharePlaces
                   \/ pc[p] \in SharePlaces /\ buf'[p] = buf[p]
             \/ UnlockShare(p, buf[p]) /\ pc'[p] \notin SharePlaces
      BY <2>4, Zenon DEF StartRead, ReadError, ReleaseBuffer, UnlockShared, SetHint,
           HintAlreadyDirty, HintLog, MarkHint, At, Goto, PlacesOK, content,
           SharePlaces, FlushPlaces
    <3> QED BY <3>1, ShareKept, Zenon
  <2> QED BY <1>2, <2>1, <2>2, <2>3, <2>4, Zenon DEF Access
<1>3. ASSUME NEW p \in Backends \cup Writers, Flush(p)  PROVE LocksHeld'
  <2> p \in Proc /\ Moves(p)
    BY <1>3, FlushFrame, Zenon DEF Proc
  <2>1. CASE LockForFlush(p)
    <3>1. LockShare(p, buf[p]) /\ buf'[p] = buf[p] /\ pc[p] = "flushlock" /\ pc'[p] = "start"
      BY <2>1, Zenon DEF LockForFlush, At, Goto, PlacesOK
    <3>2. buf[p] \in Buf
      BY <3>1, Zenon DEF PinsHold, PinHolds, PinPlaces, VictimPlaces
    <3> QED BY <3>1, <3>2, ShareKept, Zenon
  <2>2. CASE ~LockForFlush(p)
    <3>1. /\ pc'[p] # "locked"
          /\ \/ /\ UNCHANGED <<lockX, lockS>>
                /\ \/ pc'[p] \notin SharePlaces
                   \/ pc[p] \in SharePlaces /\ buf'[p] = buf[p]
             \/ UnlockShare(p, buf[p]) /\ pc'[p] \notin SharePlaces
      BY <1>3, <2>2, Zenon DEF Flush, SyncOneBuffer, StartWrite, ReadLSN, XLogFlush,
           SmgrWrite, WriteError, EndWrite, AfterFlush, At, Goto, PlacesOK, content,
           SharePlaces, FlushPlaces
    <3> QED BY <3>1, ShareKept, Zenon
  <2> QED BY <2>1, <2>2, Zenon
<1>4. ASSUME NEW p \in Droppers, Drop(p)  PROVE LocksHeld'
  <2> p \in Proc /\ Moves(p) /\ UNCHANGED <<lockX, lockS>>
    BY <1>4, DropFrame, Zenon DEF Proc, content
  <2>1. pc'[p] \notin {"locked"} \cup SharePlaces
    BY <1>4, Zenon DEF Drop, BeginDrop, DropScan, EndDrop, LockToDrop, DropTaken,
         DropPinned, WaitIO, DropClear, DropDelete, At, Goto, PlacesOK,
         SharePlaces, FlushPlaces
  <2> QED BY <2>1, ShareKept, Zenon
<1>5. ASSUME NEW b \in Buf, NEW ok \in BOOLEAN, CompleteRead(b, ok)  PROVE LocksHeld'
  <2>1. UNCHANGED <<lockX, lockS, buf>>
    BY <1>5, CompleteFrame, Zenon
  <2>2. \A q \in Proc : pc'[q] = pc[q] \/ pc'[q] \notin {"locked"} \cup SharePlaces
    BY <1>5, CompleteFrame, Zenon DEF SharePlaces, FlushPlaces
  <2> QED BY <2>1, <2>2, Zenon DEF LocksHeld, SharePlaces
<1> QED BY <1>1, <1>2, <1>3, <1>4, <1>5, Zenon DEF Next

-----------------------------------------------------------------------------
(***************************************************************************)
(* The writes in progress.                                                 *)
(***************************************************************************)
\* A write in progress survives a step of another process.
LEMMA WritesKept ==
  ASSUME WritesSafe, PinsHold, LocksHeld, ContentOK, StoreOK, NEW p \in Proc, Moves(p),
         flushed' = flushed \/ (flushed' \in 0 .. MaxLSN /\ flushed <= flushed'),
         \A b \in Buf :
           io[b] \notin {p, None} /\ dirty[b] /\ ~(lockS[b] \subseteq {p}) /\ ~(pins[b] \subseteq {p})
             => io'[b] = io[b] /\ dirty'[b] /\ page'[b].lsn = page[b].lsn,
         pc'[p] \in WritePlaces => io'[buf'[p]] = p /\ dirty'[buf'[p]],
         pc'[p] = "xlogflush" => page'[buf'[p]].lsn <= recptr'[p],
         pc'[p] = "write" => page'[buf'[p]].lsn <= flushed'
  PROVE  WritesSafe'
<1> SUFFICES ASSUME NEW q \in Proc, q # p, pc[q] \in WritePlaces
    PROVE  /\ io'[buf[q]] = q /\ dirty'[buf[q]]
           /\ pc[q] = "xlogflush" => page'[buf[q]].lsn <= recptr[q]
           /\ pc[q] = "write" => page'[buf[q]].lsn <= flushed'
  <2>1. \A q \in Proc : q # p => /\ pc'[q] = pc[q] /\ buf'[q] = buf[q]
                                 /\ recptr'[q] = recptr[q]
    BY Zenon DEF Moves
  <2>2. "xlogflush" \in WritePlaces /\ "write" \in WritePlaces
    BY Zenon DEF WritePlaces
  <2> SUFFICES ASSUME NEW q \in Proc
      PROVE  /\ pc'[q] \in WritePlaces => io'[buf'[q]] = q /\ dirty'[buf'[q]]
             /\ pc'[q] = "xlogflush" => page'[buf'[q]].lsn <= recptr'[q]
             /\ pc'[q] = "write" => page'[buf'[q]].lsn <= flushed'
    BY Zenon DEF WritesSafe
  <2>3. CASE q = p
    BY <2>3, Zenon
  <2>4. CASE q # p /\ pc[q] \in WritePlaces
    BY <2>1, <2>4, Zenon
  <2>5. CASE q # p /\ pc[q] \notin WritePlaces
    <3>1. pc'[q] \notin WritePlaces
      BY <2>1, <2>5, Zenon
    <3>2. pc'[q] # "xlogflush" /\ pc'[q] # "write"
      BY <2>2, <3>1, Zenon
    <3> QED BY <3>1, <3>2, Zenon
  <2> QED BY <2>3, <2>4, <2>5, Zenon
<1>1. /\ io[buf[q]] = q /\ dirty[buf[q]]
      /\ pc[q] = "xlogflush" => page[buf[q]].lsn <= recptr[q]
      /\ pc[q] = "write" => page[buf[q]].lsn <= flushed
  BY Zenon DEF WritesSafe
<1>2. buf[q] \in Buf /\ q \in pins[buf[q]] /\ q \in lockS[buf[q]]
  BY Zenon DEF PinsHold, PinHolds, PinPlaces, VictimPlaces, FlushPlaces, WritePlaces, LocksHeld
<1>3. io'[buf[q]] = q /\ dirty'[buf[q]] /\ page'[buf[q]].lsn = page[buf[q]].lsn
  BY <1>1, <1>2, Zenon
<1>4. page[buf[q]].lsn \in 0 .. MaxLSN
  BY <1>2, PageTyped, Zenon
<1>5. pc[q] = "write" => page'[buf[q]].lsn <= flushed'
  BY <1>1, <1>3, <1>4 DEF StoreOK
<1> QED BY <1>1, <1>3, <1>5, Zenon

\* A page being written keeps its I/O flag, stays dirty and has its log flushed.
LEMMA WritesStep ==
  ASSUME WritesSafe, PinsHold, LocksHeld, ContentOK, StoreOK, HeaderOK, HeadersSound,
         PlacesOK, LocalOK, Next
  PROVE  WritesSafe'
<1>1. ASSUME NEW p \in Backends, Alloc(p)  PROVE WritesSafe'
  <2> p \in Proc /\ Moves(p) /\ UNCHANGED <<page, flushed>>
    BY <1>1, AllocFrame, Zenon DEF Proc, store
  <2>1. pc'[p] \notin WritePlaces
    BY <1>1, Zenon DEF Alloc, Lookup, GetVictim, PinFound, LockVictim, VictimLocked,
         RejectVictim, LockToEvict, EvictVictim, VictimInUse, BufTableDelete,
         InsertEntry, SetTag, UseExisting, Goto, PlacesOK, WritePlaces
  <2>2. \A b \in Buf : pins[b] \subseteq {p} \/ (io'[b] = io[b] /\ dirty'[b] = dirty[b])
    <3>1. CASE EvictVictim(p)
      BY <3>1, Zenon DEF EvictVictim, ClearHeader, InUse, HeaderOK
    <3>2. CASE SetTag(p)
      BY <3>2, Zenon DEF SetTag
    <3> QED BY <1>1, <3>1, <3>2, AllocFrame, Zenon
  <2> QED BY <2>1, <2>2, WritesKept, Zenon DEF WritePlaces
<1>2. ASSUME NEW p \in Backends, Access(p)  PROVE WritesSafe'
  <2> p \in Proc /\ Moves(p) /\ UNCHANGED flushed
    BY <1>2, AccessFrame, Zenon DEF Proc
  <2>1. pc'[p] \notin WritePlaces
    BY <1>2, Zenon DEF Access, StartRead, ReadError, ReleaseBuffer, LockExclusive,
         Update, UnlockExclusive, LockShared, UnlockShared, SetHint, HintAlreadyDirty,
         HintLog, MarkHint, At, Goto, PlacesOK, local, WritePlaces
  <2>2. CASE StartRead(p)
    <3>1. UNCHANGED <<dirty, page>> /\ \A b \in Buf : io'[b] = io[b] \/ ~dirty[b]
      BY <2>2, Zenon DEF StartRead, content, HeadersSound, HeaderOK
    <3> QED BY <2>1, <3>1, WritesKept, Zenon DEF WritePlaces
  <2>3. CASE Update(p)
    <3>1. /\ pc[p] = "locked" /\ io' = io
          /\ \A b \in Buf : (dirty[b] => dirty'[b]) /\ (b # buf[p] => page'[b] = page[b])
      BY <2>3, Zenon DEF Update, At, HeaderOK, ContentOK
    <3>2. buf[p] \in Buf => lockS[buf[p]] = {}
      <4>1. p # None
        BY PoolAssumption, Zenon
      <4>2. lockX[buf[p]] = p
        BY <3>1, Zenon DEF LocksHeld
      <4> QED BY <4>1, <4>2, Zenon DEF LocksHeld
    <3> QED BY <2>1, <3>1, <3>2, WritesKept, Zenon DEF WritePlaces
  <2>4. CASE SetHint(p)
    <3>1. UNCHANGED <<io, dirty>> /\ \A b \in Buf : page'[b].lsn = page[b].lsn
      BY <2>4, Zenon DEF SetHint, header, ContentOK
    <3> QED BY <2>1, <3>1, WritesKept, Zenon DEF WritePlaces
  <2>5. CASE MarkHint(p)
    <3>1. /\ io' = io
          /\ \A b \in Buf : dirty[b] => dirty'[b] /\ page'[b].lsn = page[b].lsn
      BY <2>5, Zenon DEF MarkHint, HeaderOK, ContentOK
    <3> QED BY <2>1, <3>1, WritesKept, Zenon DEF WritePlaces
  <2>6. CASE UNCHANGED <<io, dirty, page>>
    BY <2>1, <2>6, WritesKept, Zenon DEF WritePlaces
  <2> QED BY <1>2, <2>2, <2>3, <2>4, <2>5, <2>6, AccessFrame, Zenon
<1>3. ASSUME NEW p \in Backends \cup Writers, Flush(p)  PROVE WritesSafe'
  <2> p \in Proc /\ Moves(p) /\ UNCHANGED page
    BY <1>3, FlushFrame, Zenon DEF Proc
  <2>1. CASE StartWrite(p)
    <3>1. /\ UNCHANGED <<dirty, flushed, buf>> /\ io[buf[p]] = None /\ pc[p] = "start"
          /\ \/ dirty[buf[p]] /\ io' = [io EXCEPT ![buf[p]] = p] /\ pc'[p] = "readlsn"
             \/ io' = io /\ pc'[p] = "unlock"
      BY <2>1, Zenon DEF StartWrite, store, At, Goto, PlacesOK
    <3>2. buf[p] \in Buf /\ p \in lockS[buf[p]]
      BY <3>1, Zenon DEF PinsHold, PinHolds, PinPlaces, VictimPlaces, FlushPlaces, LocksHeld
    <3>3. pc'[p] \in WritePlaces => io'[buf'[p]] = p /\ dirty'[buf'[p]]
      BY <3>1, <3>2, Zenon DEF WritePlaces, HeaderOK
    <3>4. \A b \in Buf : io[b] # None => io'[b] = io[b]
      BY <3>1, Zenon DEF HeaderOK
    <3>5. pc'[p] \notin {"xlogflush", "write"}
      BY <3>1, Zenon
    <3> QED BY <3>1, <3>3, <3>4, <3>5, WritesKept, Zenon
  <2>2. CASE ReadLSN(p) \/ XLogFlush(p)
    <3>1. UNCHANGED <<dirty, io, buf>> /\ pc[p] \in {"readlsn", "xlogflush"} 
      BY <2>2, Zenon DEF ReadLSN, XLogFlush, header, At
    <3>2. buf[p] \in Buf
      BY <3>1, Zenon DEF PinsHold, PinHolds, PinPlaces, VictimPlaces, FlushPlaces
    <3>3. page[buf[p]].lsn \in 0 .. MaxLSN
      BY <3>2, PageTyped, Zenon
    <3>4. io[buf[p]] = p /\ dirty[buf[p]]
      BY <3>1, Zenon DEF WritesSafe, WritePlaces
    <3>5. CASE ReadLSN(p)
      <4>1. pc'[p] = "xlogflush" /\ recptr'[p] = page[buf[p]].lsn /\ flushed' = flushed
        BY <3>5, Zenon DEF ReadLSN, Goto, PlacesOK, LocalOK, store
      <4>2. page[buf[p]].lsn <= page[buf[p]].lsn
        BY <3>3
      <4> QED BY <3>1, <3>4, <4>1, <4>2, WritesKept, Zenon
    <3>6. CASE XLogFlush(p)
      <4>1. /\ pc[p] = "xlogflush" /\ pc'[p] = "write"
            /\ flushed' = IF flushed < recptr[p] THEN recptr[p] ELSE flushed
        BY <3>6, Zenon DEF XLogFlush, At, Goto, PlacesOK
      <4>2. page[buf[p]].lsn <= recptr[p] /\ recptr[p] \in 0 .. MaxLSN
        BY <4>1, Zenon DEF WritesSafe, LocalOK
      <4>3. flushed' \in 0 .. MaxLSN /\ flushed <= flushed' /\ page[buf[p]].lsn <= flushed'
        BY <3>3, <4>1, <4>2 DEF StoreOK
      <4> QED BY <3>1, <3>4, <4>1, <4>3, WritesKept, Zenon
    <3> QED BY <2>2, <3>5, <3>6, Zenon
  <2>3. CASE SmgrWrite(p)
    <3>1. UNCHANGED <<dirty, io, buf, flushed>> /\ pc[p] = "write" /\ pc'[p] = "written"
      BY <2>3, Zenon DEF SmgrWrite, header, At, Goto, PlacesOK
    <3>2. io[buf[p]] = p /\ dirty[buf[p]]
      BY <3>1, Zenon DEF WritesSafe, WritePlaces
    <3> QED BY <3>1, <3>2, WritesKept, Zenon
  <2>4. CASE WriteError(p) \/ EndWrite(p)
    <3>1. /\ pc[p] \in WritePlaces /\ pc'[p] \in {"idle", "unlock"} /\ flushed' = flushed
          /\ \A b \in Buf : b # buf[p] => io'[b] = io[b] /\ dirty'[b] = dirty[b]
      BY <2>4, Zenon DEF WriteError, EndWrite, At, Goto, PlacesOK, HeaderOK, store,
           WritePlaces
    <3>2. io[buf[p]] = p
      BY <3>1, Zenon DEF WritesSafe
    <3> QED BY <3>1, <3>2, WritesKept, Zenon DEF WritePlaces
  <2>5. CASE (\E b \in Buf : SyncOneBuffer(p, b)) \/ LockForFlush(p) \/ AfterFlush(p)
    <3>1. UNCHANGED <<io, dirty, flushed>> /\ pc'[p] \notin WritePlaces
      BY <2>5, Zenon DEF SyncOneBuffer, LockForFlush, AfterFlush, Goto, PlacesOK, header,
           store, WritePlaces
    <3> QED BY <3>1, WritesKept, Zenon DEF WritePlaces
  <2> QED BY <1>3, <2>1, <2>2, <2>3, <2>4, <2>5, Zenon DEF Flush
<1>4. ASSUME NEW p \in Droppers, Drop(p)  PROVE WritesSafe'
  <2> p \in Proc /\ Moves(p) /\ UNCHANGED <<page, flushed>>
    BY <1>4, DropFrame, Zenon DEF Proc, content
  <2>1. pc'[p] \notin WritePlaces
    BY <1>4, Zenon DEF Drop, BeginDrop, DropScan, EndDrop, LockToDrop, DropTaken,
         DropPinned, WaitIO, DropClear, DropDelete, At, Goto, PlacesOK, WritePlaces
  <2>2. \A b \in Buf : pins[b] = {} \/ (io'[b] = io[b] /\ dirty'[b] = dirty[b])
    <3>1. CASE DropClear(p)
      BY <3>1, Zenon DEF DropClear, ClearHeader, HeaderOK
    <3> QED BY <1>4, <3>1, DropFrame, Zenon
  <2> QED BY <2>1, <2>2, WritesKept, Zenon DEF WritePlaces
<1>5. ASSUME NEW b \in Buf, NEW ok \in BOOLEAN, CompleteRead(b, ok)  PROVE WritesSafe'
  <2>1. UNCHANGED <<dirty, flushed, recptr, buf>> /\ ~dirty[b]
    BY <1>5, CompleteFrame DEF HeadersSound
  <2>2. \A c \in Buf : c # b => io'[c] = io[c] /\ page'[c] = page[c]
    BY <1>5, Zenon DEF CompleteRead, HeaderOK, ContentOK
  <2>3. \A q \in Proc : pc'[q] = pc[q] \/ pc'[q] \notin WritePlaces
    BY <1>5, CompleteFrame, Zenon DEF WritePlaces
  <2>4. \A q \in Proc : pc[q] \in WritePlaces => buf[q] \in Buf /\ buf[q] # b
    BY <2>1 DEF WritesSafe, PinsHold, PinHolds, PinPlaces, VictimPlaces, FlushPlaces,
         WritePlaces
  <2> SUFFICES ASSUME NEW q \in Proc, pc'[q] \in WritePlaces
      PROVE  /\ io'[buf'[q]] = q /\ dirty'[buf'[q]]
             /\ pc'[q] = "xlogflush" => page'[buf'[q]].lsn <= recptr'[q]
             /\ pc'[q] = "write" => page'[buf'[q]].lsn <= flushed'
    BY Zenon DEF WritesSafe, WritePlaces
  <2>5. pc'[q] = pc[q] /\ buf'[q] = buf[q] /\ buf[q] \in Buf /\ buf[q] # b
    BY <2>1, <2>3, <2>4, Zenon
  <2> QED BY <2>1, <2>2, <2>5, Zenon DEF WritesSafe
<1> QED BY <1>1, <1>2, <1>3, <1>4, <1>5, Zenon DEF Next

-----------------------------------------------------------------------------
(***************************************************************************)
(* The write-ahead rule.                                                   *)
(***************************************************************************)
\* No step writes a page ahead of its log.
LEMMA LogStep ==
  ASSUME LogBeforeData, WritesSafe, PinsHold, HeaderOK, ContentOK, StoreOK, PlacesOK,
         LocalOK, HeadersSound, Next
  PROVE  LogBeforeData'
<1>1. \A t \in Tags : disk[t].lsn \in 0 .. MaxLSN
  BY Zenon DEF StoreOK, Page
<1>2. ASSUME UNCHANGED <<disk, flushed>>  PROVE LogBeforeData'
  BY <1>2, Zenon DEF LogBeforeData
<1>3. ASSUME NEW p \in Backends \cup Writers, Flush(p)  PROVE LogBeforeData'
  <2> p \in Proc
    BY Zenon DEF Proc
  <2>1. CASE XLogFlush(p)
    <3>1. disk' = disk /\ flushed <= flushed' /\ flushed' \in 0 .. MaxLSN
      BY <2>1 DEF XLogFlush, StoreOK, LocalOK
    <3> QED BY <1>1, <3>1 DEF LogBeforeData, StoreOK
  <2>2. CASE SmgrWrite(p)
    <3>1. pc[p] = "write" /\ flushed' = flushed
      BY <2>2, Zenon DEF SmgrWrite, At
    <3>2. page[buf[p]].lsn <= flushed
      BY <3>1, Zenon DEF WritesSafe
    <3> QED BY <2>2, <3>1, <3>2 DEF SmgrWrite, LogBeforeData, StoreOK
  <2> QED BY <1>2, <1>3, <2>1, <2>2, FlushFrame, Zenon
<1>4. ASSUME NEW p \in Backends, Alloc(p) \/ Access(p)  PROVE LogBeforeData'
  BY <1>2, <1>4, AllocFrame, AccessFrame, Zenon DEF store, Proc
<1>5. ASSUME NEW p \in Droppers, Drop(p)  PROVE LogBeforeData'
  BY <1>2, <1>5, DropFrame, Zenon DEF Proc
<1>6. ASSUME NEW b \in Buf, NEW ok \in BOOLEAN, CompleteRead(b, ok)  PROVE LogBeforeData'
  BY <1>2, <1>6, CompleteFrame, Zenon
<1> QED BY <1>3, <1>4, <1>5, <1>6, Zenon DEF Next

-----------------------------------------------------------------------------
(***************************************************************************)
(* The pages.                                                              *)
(***************************************************************************)
\* A block is in one buffer.
LEMMA OneBuffer ==
  ASSUME TableSound, NEW b \in Buf, NEW c \in Buf, tag[b] = tag[c], tag[b] \in Tags
  PROVE  b = c
BY DEF TableSound, Agree

\* Nobody else writes out the buffer that p writes out.
LEMMA OneWriter ==
  ASSUME WritesSafe, PinsHold, HeaderOK, TableSound, NEW p \in Proc, NEW q \in Proc \ {p},
         pc[p] \in WritePlaces, pc[q] \in WritePlaces
  PROVE  buf[p] # buf[q] /\ tag[buf[p]] # tag[buf[q]]
<1>1. buf[p] # buf[q]
  BY Zenon DEF WritesSafe
<1>2. buf[p] \in Buf /\ buf[q] \in Buf /\ tag[buf[p]] # None
  BY Zenon DEF PinsHold, PinHolds, PinPlaces, VictimPlaces, FlushPlaces, WritePlaces
<1> QED BY <1>1, <1>2, OneBuffer, Zenon DEF HeaderOK

\* A backend that uses a page uses a valid page of a live relation.
LEMMA UsedPage ==
  ASSUME PinsHold, WantsBlock, DropsSound, PagesSound, NEW p \in Backends,
         pc[p] \in HoldPlaces
  PROVE  /\ buf[p] \in Buf /\ valid[buf[p]] /\ tag[buf[p]] \in Tags /\ Live(tag[buf[p]])
         /\ Covers(page[buf[p]], tag[buf[p]])
<1>1. buf[p] \in Buf /\ valid[buf[p]] /\ tag[buf[p]] = want[p]
  BY Zenon DEF PinsHold, PinHolds, PinPlaces, Proc
<1>2. want[p] \in Tags /\ Live(want[p])
  BY DEF WantsBlock, DropsSound, Live, HoldPlaces
<1> QED BY <1>1, <1>2, Zenon DEF PagesSound

\* Pages stay current when a step changes neither them nor their history.
LEMMA PagesKept ==
  ASSUME PagesSound, NEW p \in Proc, Moves(p), UNCHANGED <<page, latest, hinted>>,
         \A b \in Buf : valid'[b] /\ LiveNext(tag'[b]) =>
           valid[b] /\ tag'[b] = tag[b] /\ Live(tag[b]),
         \A q \in Proc \ {p} : pc[q] = "written" /\ LiveNext(tag'[buf[q]]) =>
           /\ tag'[buf[q]] = tag[buf[q]] /\ Live(tag[buf[q]])
           /\ disk'[tag[buf[q]]] = disk[tag[buf[q]]] /\ justDirtied'[buf[q]] = justDirtied[buf[q]],
         pc'[p] # "written",
         pc'[p] \in {"hint", "markhint"} => pc[p] = "hint" /\ buf'[p] = buf[p]
  PROVE  PagesSound'
<1>1. \A b \in Buf : valid'[b] /\ Live(tag[b])' => Covers(page[b], tag[b])'
  BY DEF PagesSound, Covers, Live, LiveNext
<1>2. \A q \in Proc : pc'[q] \in {"hint", "markhint"} => page'[buf'[q]].hint
  BY Zenon DEF PagesSound, Moves
<1>3. ASSUME NEW q \in Proc, pc'[q] = "written", ~justDirtied'[buf'[q]],
             LiveNext(tag'[buf'[q]])
      PROVE  Covers(disk[tag[buf[q]]], tag[buf[q]])'
  <2>1. q # p /\ pc[q] = "written" /\ buf'[q] = buf[q]
    BY <1>3, Zenon DEF Moves
  <2>2. /\ tag'[buf[q]] = tag[buf[q]] /\ Live(tag[buf[q]])
        /\ disk'[tag[buf[q]]] = disk[tag[buf[q]]] /\ justDirtied'[buf[q]] = justDirtied[buf[q]]
    BY <1>3, <2>1, Zenon
  <2>3. Covers(disk[tag[buf[q]]], tag[buf[q]])
    BY <1>3, <2>1, <2>2, Zenon DEF PagesSound
  <2>4. tag'[buf'[q]] = tag[buf[q]] /\ disk'[tag'[buf'[q]]] = disk[tag[buf[q]]]
    BY <2>1, <2>2, Zenon
  <2>5. UNCHANGED <<latest, hinted>>
    BY Zenon
  <2> QED BY <2>3, <2>4, <2>5, Zenon DEF Covers
<1> QED BY <1>1, <1>2, <1>3, Zenon DEF PagesSound, Live, LiveNext

\* The steps of p that change a page or the history of its block.
LEMMA PagesAccess ==
  ASSUME PagesSound, HeaderOK, ContentOK, StoreOK, PlacesOK, LocalOK, PinsHold, WantsBlock,
         TableSound, DropsSound, NEW p \in Backends,
         Update(p) \/ SetHint(p) \/ HintAlreadyDirty(p) \/ MarkHint(p)
  PROVE  PagesSound'
<1> DEFINE c == buf[p]
           t == tag[buf[p]]
<1> p \in Proc /\ pc[p] \in {"locked", "shared", "hint", "markhint"}
  BY Zenon DEF Update, SetHint, HintAlreadyDirty, MarkHint, At, Proc
<1>1. /\ c \in Buf /\ valid[c] /\ t \in Tags /\ Live(t) /\ Covers(page[c], t)
  BY UsedPage, Zenon DEF HoldPlaces
<1>2. UNCHANGED <<tag, valid, buf, disk, rel>>
  BY Zenon DEF Update, SetHint, HintAlreadyDirty, MarkHint, header, store, local
<1>3. \A b \in Buf : tag[b] = t => b = c
  BY <1>1, OneBuffer, Zenon
<1>4. \A q \in Proc : pc'[q] = pc[q] \/ (q = p /\ pc'[q] \in {"hint", "shared"})
  BY Zenon DEF Update, SetHint, HintAlreadyDirty, MarkHint, local, Goto, PlacesOK
<1>5. \A q \in Proc : pc[q] = "written" => buf[q] \in Buf
  BY Zenon DEF PinsHold, PinHolds, PinPlaces, VictimPlaces, FlushPlaces
<1>6. \A b \in Buf : b # c => page'[b] = page[b]
  BY Zenon DEF Update, SetHint, HintAlreadyDirty, MarkHint, content, ContentOK
<1>7. \A u \in Tags : u # t => latest'[u] = latest[u] /\ hinted'[u] = hinted[u]
  BY Zenon DEF Update, SetHint, HintAlreadyDirty, MarkHint, store, StoreOK
<1>8. \A q \in Proc : pc[q] \in {"hint", "markhint"} => page[buf[q]].hint
  BY Zenon DEF PagesSound
<1>9. page'[c].ver = latest'[t] /\ (hinted'[t] => page'[c].hint)
  <2>1. CASE Update(p)
    BY <1>1, <2>1, Zenon DEF Update, Covers, ContentOK, StoreOK
  <2>2. CASE SetHint(p)
    BY <1>1, <2>2, Zenon DEF SetHint, Covers, ContentOK, store
  <2>3. CASE HintAlreadyDirty(p)
    BY <1>1, <1>8, <2>3, Zenon DEF HintAlreadyDirty, At, Covers, content
  <2>4. CASE MarkHint(p)
    BY <1>1, <1>8, <2>4, Zenon DEF MarkHint, At, Covers, ContentOK
  <2> QED BY <2>1, <2>2, <2>3, <2>4, Zenon
<1>10. /\ page[c].hint => page'[c].hint
       /\ pc'[p] = "hint" /\ pc[p] # "hint" => page'[c].hint
  BY <1>1 DEF Update, SetHint, HintAlreadyDirty, MarkHint, content, ContentOK, local,
       At, Goto, PlacesOK
<1>11. \A b \in Buf : /\ justDirtied[b] => justDirtied'[b]
                      /\ justDirtied'[b] = justDirtied[b] \/ b = c
  BY Zenon DEF Update, SetHint, HintAlreadyDirty, MarkHint, header, HeaderOK
<1>12. justDirtied'[c] \/ (latest' = latest /\ hinted' = hinted)
  BY <1>1, Zenon DEF Update, SetHint, HintAlreadyDirty, MarkHint, header, store, HeaderOK
<1> HIDE DEF c, t
<1>13. c = buf[p] /\ t = tag[c]
  BY Zenon DEF c, t
<1>14. \A b \in Buf : valid'[b] /\ Live(tag[b])' => Covers(page[b], tag[b])'
  <2> SUFFICES ASSUME NEW b \in Buf, valid[b], Live(tag[b])
      PROVE  page'[b].ver = latest'[tag[b]] /\ (hinted'[tag[b]] => page'[b].hint)
    BY <1>2, Zenon DEF Live, Covers
  <2>1. CASE b = c
    BY <1>9, <1>13, <2>1, Zenon
  <2>2. CASE b # c
    <3>1. tag[b] # t /\ tag[b] \in Tags
      BY <1>3, <2>2, Zenon DEF Live, HeaderOK
    <3> QED BY <1>6, <1>7, <2>2, <3>1, Zenon DEF PagesSound, Covers
  <2> QED BY <2>1, <2>2, Zenon
<1>15. \A q \in Proc : pc'[q] \in {"hint", "markhint"} => page'[buf'[q]].hint
  <2> SUFFICES ASSUME NEW q \in Proc, pc'[q] \in {"hint", "markhint"}
      PROVE  page'[buf[q]].hint
    BY <1>2, Zenon
  <2>1. CASE pc[q] \in {"hint", "markhint"}
    <3>1. buf[q] \in Buf /\ page[buf[q]].hint
      BY <1>8, <2>1, Zenon DEF PinsHold, PinHolds, PinPlaces, HoldPlaces
    <3> QED BY <1>6, <1>10, <3>1, Zenon
  <2>2. CASE pc[q] \notin {"hint", "markhint"}
    <3>1. q = p /\ pc'[p] = "hint" /\ pc[p] # "hint"
      BY <1>4, <2>2, Zenon
    <3> QED BY <1>10, <1>13, <3>1, Zenon
  <2> QED BY <2>1, <2>2, Zenon
<1>16. ASSUME NEW q \in Proc, pc'[q] = "written", ~justDirtied'[buf[q]], Live(tag[buf[q]])
       PROVE  /\ disk[tag[buf[q]]].ver = latest'[tag[buf[q]]]
              /\ hinted'[tag[buf[q]]] => disk[tag[buf[q]]].hint
  <2>1. pc[q] = "written" /\ buf[q] \in Buf /\ ~justDirtied[buf[q]]
    BY <1>4, <1>5, <1>11, <1>16, Zenon
  <2>2. Covers(disk[tag[buf[q]]], tag[buf[q]]) /\ tag[buf[q]] \in Tags
    BY <1>16, <2>1, Zenon DEF PagesSound, Live, HeaderOK
  <2>3. CASE tag[buf[q]] = t
    <3>1. buf[q] = c
      BY <1>3, <2>1, <2>3, Zenon
    <3> QED BY <1>12, <1>16, <2>2, <3>1, Zenon DEF Covers
  <2>4. CASE tag[buf[q]] # t
    BY <1>7, <2>2, <2>4, Zenon DEF Covers
  <2> QED BY <2>3, <2>4, Zenon
<1> QED BY <1>2, <1>14, <1>15, <1>16, Zenon DEF PagesSound, Live, Covers

\* Every step keeps the valid pages current.
LEMMA PagesStep ==
  ASSUME PagesSound, NoLostUpdate, HeaderOK, ContentOK, StoreOK, PlacesOK, LocalOK,
         PinsHold, WantsBlock, HeadersSound, TableSound, WritesSafe, DropsSound, Next
  PROVE  PagesSound'
<1>1. ASSUME NEW p \in Backends, Alloc(p)  PROVE PagesSound'
  <2> p \in Proc /\ Moves(p) /\ UNCHANGED <<page, latest, hinted, disk, rel>>
    BY <1>1, AllocFrame, Zenon DEF Proc, store
  <2>1. pc'[p] \notin {"hint", "markhint", "written"}
    BY <1>1, Zenon DEF Alloc, Lookup, GetVictim, PinFound, LockVictim, VictimLocked,
         RejectVictim, LockToEvict, EvictVictim, VictimInUse, BufTableDelete,
         InsertEntry, SetTag, UseExisting, Goto, PlacesOK
  <2>2. \A q \in Proc : pc[q] = "written" => buf[q] \in Buf /\ tag[buf[q]] # None
    BY Zenon DEF PinsHold, PinHolds, PinPlaces, VictimPlaces, FlushPlaces
  <2>3. CASE EvictVictim(p)
    <3>1. \A b \in Buf : \/ tag'[b] = None
                         \/ /\ tag'[b] = tag[b] /\ valid'[b] = valid[b]
                            /\ justDirtied'[b] = justDirtied[b]
      BY <2>3, Zenon DEF EvictVictim, ClearHeader, HeaderOK
    <3> QED BY <2>1, <2>2, <3>1, PagesKept, Zenon DEF Live, LiveNext
  <2>4. CASE SetTag(p)
    <3>1. UNCHANGED <<valid, justDirtied>> /\ pc[p] = "settag"
      BY <2>4, Zenon DEF SetTag, At
    <3>2. buf[p] \in Buf /\ tag[buf[p]] = None
      BY <3>1, Zenon DEF PinsHold, PinHolds, PinPlaces, OwnPlaces
    <3>3. \A b \in Buf : tag'[b] = tag[b] \/ (tag[b] = None /\ ~valid[b])
      BY <2>4, <3>2, Zenon DEF SetTag, HeaderOK, HeadersSound
    <3> QED BY <2>1, <2>2, <3>1, <3>3, PagesKept, Zenon DEF Live, LiveNext
  <2>5. CASE UNCHANGED <<tag, valid, dirty, justDirtied, io>>
    BY <2>1, <2>5, PagesKept, Zenon DEF Live, LiveNext
  <2> QED BY <1>1, <2>3, <2>4, <2>5, AllocFrame, Zenon
<1>2. ASSUME NEW p \in Backends, Access(p)  PROVE PagesSound'
  <2>1. CASE Update(p) \/ SetHint(p) \/ HintAlreadyDirty(p) \/ MarkHint(p)
    BY <2>1, PagesAccess, Zenon
  <2>2. CASE ~(Update(p) \/ SetHint(p) \/ HintAlreadyDirty(p) \/ MarkHint(p))
    <3>1. /\ p \in Proc /\ Moves(p)
          /\ UNCHANGED <<page, latest, hinted, disk, rel, tag, valid, justDirtied>>
      BY <1>2, <2>2, AccessFrame, Zenon DEF Proc
    <3>2. /\ pc'[p] # "written"
          /\ pc'[p] \in {"hint", "markhint"} => pc[p] = "hint" /\ buf'[p] = buf[p]
      BY <1>2, <2>2, <3>1, Zenon DEF Access, StartRead, ReadError, ReleaseBuffer,
           LockExclusive, UnlockExclusive, LockShared, UnlockShared, HintLog, At, Goto,
           PlacesOK
    <3> QED BY <3>1, <3>2, PagesKept, Zenon DEF Live, LiveNext
  <2> QED BY <2>1, <2>2, Zenon
<1>3. ASSUME NEW p \in Backends \cup Writers, Flush(p)  PROVE PagesSound'
  <2> p \in Proc /\ Moves(p) /\ UNCHANGED <<tag, valid, page, rel, latest, hinted>>
    BY <1>3, FlushFrame, Zenon DEF Proc
  <2>1. CASE SmgrWrite(p)
    <3>1. /\ pc[p] = "write" /\ pc'[p] = "written" /\ UNCHANGED <<buf, justDirtied>>
          /\ disk' = [disk EXCEPT ![tag[buf[p]]] = page[buf[p]]]
      BY <2>1, Zenon DEF SmgrWrite, header, At, Goto, PlacesOK
    <3>2. buf[p] \in Buf /\ tag[buf[p]] \in Tags /\ valid[buf[p]]
      <4>1. buf[p] \in Buf /\ dirty[buf[p]]
        BY <3>1, Zenon DEF PinsHold, PinHolds, PinPlaces, VictimPlaces, FlushPlaces,
             WritesSafe, WritePlaces
      <4> QED BY <4>1, Zenon DEF HeaderOK, HeadersSound
    <3>3. Live(tag[buf[p]]) => Covers(disk'[tag[buf[p]]], tag[buf[p]])
      BY <3>1, <3>2, Zenon DEF PagesSound, StoreOK
    <3>4. \A q \in Proc \ {p} : pc'[q] = pc[q]
      BY Zenon DEF Moves
    <3>5. \A q \in Proc \ {p} : pc[q] = "written" => disk'[tag[buf[q]]] = disk[tag[buf[q]]]
      BY <3>1, OneWriter DEF WritePlaces, StoreOK
    <3>6. ASSUME NEW q \in Proc, pc'[q] = "written", ~justDirtied[buf[q]], Live(tag[buf[q]])
          PROVE  Covers(disk'[tag[buf[q]]], tag[buf[q]])
      BY <3>3, <3>4, <3>5, <3>6, Zenon DEF PagesSound
    <3>7. \A q \in Proc : pc'[q] \in {"hint", "markhint"} => page[buf[q]].hint
      BY <3>1, <3>4, Zenon DEF PagesSound
    <3> QED BY <3>1, <3>6, <3>7, Zenon DEF PagesSound, Live, Covers
  <2>2. CASE ReadLSN(p)
    <3>1. /\ pc[p] = "readlsn" /\ pc'[p] = "xlogflush" /\ disk' = disk
          /\ justDirtied' = [justDirtied EXCEPT ![buf[p]] = FALSE]
      BY <2>2, Zenon DEF ReadLSN, store, At, Goto, PlacesOK
    <3>2. \A q \in Proc \ {p} : pc[q] = "written" => buf[q] \in Buf /\ buf[q] # buf[p]
      BY <3>1, OneWriter, Zenon DEF WritePlaces, PinsHold, PinHolds, PinPlaces,
           VictimPlaces, FlushPlaces
    <3>3. \A q \in Proc \ {p} : pc[q] = "written" => justDirtied'[buf[q]] = justDirtied[buf[q]]
      BY <3>1, <3>2, Zenon DEF HeaderOK
    <3> QED BY <3>1, <3>3, PagesKept, Zenon DEF Live, LiveNext
  <2>3. CASE ~SmgrWrite(p) /\ ~ReadLSN(p)
    <3>1. disk' = disk
      BY <1>3, <2>3, FlushFrame, Zenon
    <3>2. justDirtied' = justDirtied /\ pc'[p] \notin {"hint", "markhint", "written"}
      BY <1>3, <2>3, Zenon DEF Flush, SyncOneBuffer, LockForFlush, StartWrite,
           XLogFlush, WriteError, EndWrite, AfterFlush, header, Goto, PlacesOK
    <3> QED BY <3>1, <3>2, PagesKept, Zenon DEF Live, LiveNext
  <2> QED BY <2>1, <2>2, <2>3, Zenon
<1>4. ASSUME NEW p \in Droppers, Drop(p)  PROVE PagesSound'
  <2> p \in Proc /\ Moves(p) /\ UNCHANGED <<page, latest, hinted, disk>>
    BY <1>4, DropFrame, Zenon DEF Proc, content
  <2>1. pc'[p] \notin {"hint", "markhint", "written"}
    BY <1>4, Zenon DEF Drop, BeginDrop, DropScan, EndDrop, LockToDrop, DropTaken,
         DropPinned, WaitIO, DropClear, DropDelete, At, Goto, PlacesOK
  <2>2. \A q \in Proc : pc[q] = "written" => buf[q] \in Buf
    BY Zenon DEF PinsHold, PinHolds, PinPlaces, VictimPlaces, FlushPlaces
  <2>3. \A t \in Tags : rel'[t] = "live" => rel[t] = "live"
    <3>1. CASE EndDrop(p)
      BY <3>1, Zenon DEF EndDrop, StoreOK
    <3>2. CASE \E t \in Tags : BeginDrop(p, t)
      BY <3>2, Zenon DEF BeginDrop, StoreOK
    <3> QED BY <1>4, <3>1, <3>2, DropFrame, Zenon
  <2>4. \A b \in Buf : \/ tag'[b] = None
                       \/ /\ tag'[b] = tag[b] /\ valid'[b] = valid[b]
                          /\ justDirtied'[b] = justDirtied[b]
    <3>1. CASE DropClear(p)
      BY <3>1, Zenon DEF DropClear, ClearHeader, HeaderOK
    <3> QED BY <1>4, <3>1, DropFrame, Zenon
  <2>5. \A b \in Buf : LiveNext(tag'[b]) =>
          /\ tag'[b] = tag[b] /\ valid'[b] = valid[b] /\ justDirtied'[b] = justDirtied[b]
          /\ Live(tag[b])
    BY <2>3, <2>4 DEF Live, LiveNext, HeaderOK
  <2> QED BY <2>1, <2>2, <2>5, PagesKept, Zenon
<1>5. ASSUME NEW b \in Buf, NEW ok \in BOOLEAN, CompleteRead(b, ok)  PROVE PagesSound'
  <2>1. UNCHANGED <<tag, disk, rel, latest, hinted, buf, justDirtied>> /\ ~valid[b]
    BY <1>5, CompleteFrame
  <2>2. \A q \in Proc : pc'[q] = pc[q] \/ pc'[q] \notin {"hint", "markhint", "written"}
    BY <1>5, CompleteFrame, Zenon
  <2>3. /\ \A c \in Buf : c # b => page'[c] = page[c] /\ valid'[c] = valid[c]
        /\ valid'[b] => page'[b] = disk[tag[b]]
    BY <1>5, Zenon DEF CompleteRead, HeaderOK, ContentOK
  <2>4. Live(tag[b]) => Covers(disk[tag[b]], tag[b])
    <3> SUFFICES ASSUME Live(tag[b]), NEW c \in Buf, tag[c] = tag[b], valid[c]  PROVE FALSE
      BY Zenon DEF NoLostUpdate, Live, HeaderOK
    <3> QED BY <2>1, OneBuffer, Zenon DEF Live, HeaderOK
  <2>5. \A q \in Proc : pc[q] \in {"hint", "markhint"} => buf[q] \in Buf /\ buf[q] # b
    BY <2>1 DEF PinsHold, PinHolds, PinPlaces, HoldPlaces
  <2>6. \A c \in Buf : valid'[c] /\ Live(tag[c]) => Covers(page'[c], tag[c])
    BY <2>3, <2>4, Zenon DEF PagesSound
  <2>7. \A q \in Proc : pc'[q] \in {"hint", "markhint"} => page'[buf[q]].hint
    BY <2>2, <2>3, <2>5, Zenon DEF PagesSound
  <2>8. \A q \in Proc : pc'[q] = "written" => pc[q] = "written"
    BY <2>2, Zenon
  <2> QED BY <2>1, <2>6, <2>7, <2>8, Zenon DEF PagesSound, Live, Covers
<1> QED BY <1>1, <1>2, <1>3, <1>4, <1>5, Zenon DEF Next

-----------------------------------------------------------------------------
(***************************************************************************)
(* The updates.                                                            *)
(***************************************************************************)
\* A step that changes no block's history loses no update if the dirty pages stay.
LEMMA UpdatesKept ==
  ASSUME NoLostUpdate, UNCHANGED <<disk, latest, hinted>>,
         \A t \in Tags : rel'[t] = "live" => rel[t] = "live",
         \A b \in Buf : valid[b] /\ dirty[b] /\ Live(tag[b]) =>
           /\ tag'[b] = tag[b] /\ valid'[b] /\ dirty'[b]
           /\ page'[b].ver = page[b].ver /\ (page[b].hint => page'[b].hint)
  PROVE  NoLostUpdate'
<1> SUFFICES ASSUME NEW t \in Tags, rel[t] = "live"
    PROVE  \/ disk[t].ver = latest[t] /\ (hinted[t] => disk[t].hint)
           \/ \E b \in Buf : /\ tag'[b] = t /\ valid'[b] /\ dirty'[b]
                             /\ page'[b].ver = latest[t] /\ (hinted[t] => page'[b].hint)
  BY Zenon DEF NoLostUpdate, Covers
<1>1. CASE Covers(disk[t], t)
  BY <1>1, Zenon DEF Covers
<1>2. ASSUME NEW b \in Buf, tag[b] = t, valid[b], dirty[b], Covers(page[b], t)
      PROVE  /\ tag'[b] = t /\ valid'[b] /\ dirty'[b]
             /\ page'[b].ver = latest[t] /\ (hinted[t] => page'[b].hint)
  <2>1. Live(tag[b])
    BY <1>2, Zenon DEF Live
  <2> QED BY <1>2, <2>1, Zenon DEF Covers
<1> QED BY <1>1, <1>2, Zenon DEF NoLostUpdate

\* No step loses an update.
LEMMA UpdatesStep ==
  ASSUME NoLostUpdate, PagesSound, HeaderOK, ContentOK, StoreOK, PlacesOK, LocalOK,
         PinsHold, WantsBlock, HeadersSound, TableSound, WritesSafe, DropsSound, Next
  PROVE  NoLostUpdate'
<1>1. ASSUME NEW p \in Backends, Alloc(p)  PROVE NoLostUpdate'
  <2> p \in Proc /\ UNCHANGED <<page, disk, latest, hinted, rel>>
    BY <1>1, AllocFrame, Zenon DEF Proc, store
  <2>1. CASE EvictVictim(p)
    <3>1. \A b \in Buf : dirty[b] =>
            tag'[b] = tag[b] /\ valid'[b] = valid[b] /\ dirty'[b] = dirty[b]
      BY <2>1, Zenon DEF EvictVictim, ClearHeader, InUse, HeaderOK
    <3> QED BY <3>1, UpdatesKept, Zenon
  <2>2. CASE SetTag(p)
    <3>1. UNCHANGED <<valid, dirty>> /\ pc[p] = "settag"
      BY <2>2, Zenon DEF SetTag, At
    <3>2. buf[p] \in Buf /\ tag[buf[p]] = None
      BY <3>1, Zenon DEF PinsHold, PinHolds, PinPlaces, OwnPlaces
    <3>3. \A b \in Buf : Live(tag[b]) => tag'[b] = tag[b]
      BY <2>2, <3>2, Zenon DEF SetTag, HeaderOK, Live
    <3> QED BY <3>1, <3>3, UpdatesKept, Zenon
  <2>3. CASE UNCHANGED <<tag, valid, dirty, justDirtied, io>>
    BY <2>3, UpdatesKept, Zenon
  <2> QED BY <1>1, <2>1, <2>2, <2>3, AllocFrame, Zenon
<1>2. ASSUME NEW p \in Backends, Access(p)  PROVE NoLostUpdate'
  <2> p \in Proc /\ UNCHANGED <<tag, valid, disk, rel>>
    BY <1>2, AccessFrame, Zenon DEF Proc
  <2>1. CASE Update(p) \/ HintAlreadyDirty(p) \/ MarkHint(p)
    <3> DEFINE c == buf[p]
               t == tag[buf[p]]
    <3>1. pc[p] \in HoldPlaces
      BY <2>1, Zenon DEF Update, HintAlreadyDirty, MarkHint, At, HoldPlaces
    <3>2. c \in Buf /\ valid[c] /\ t \in Tags /\ Live(t)
      BY <3>1, UsedPage, Zenon
    <3>3. \A u \in Tags : u # t => latest'[u] = latest[u] /\ hinted'[u] = hinted[u]
      BY <2>1, Zenon DEF Update, HintAlreadyDirty, MarkHint, StoreOK
    <3>4. /\ dirty'[c]
          /\ \A b \in Buf : b # c => dirty'[b] = dirty[b] /\ page'[b] = page[b]
      BY <2>1, <3>2, Zenon DEF Update, HintAlreadyDirty, MarkHint, header, content, HeaderOK,
           ContentOK
    <3>5. PagesSound'
      BY <2>1, PagesAccess, Zenon
    <3> HIDE DEF c, t
    <3>6. t = tag[c]
      BY Zenon DEF c, t
    <3>7. page'[c].ver = latest'[t] /\ (hinted'[t] => page'[c].hint)
      BY <3>2, <3>5, <3>6, Zenon DEF PagesSound, Live, Covers
    <3> SUFFICES ASSUME NEW u \in Tags, rel[u] = "live"
        PROVE  \/ disk[u].ver = latest'[u] /\ (hinted'[u] => disk[u].hint)
               \/ \E b \in Buf : /\ tag[b] = u /\ valid[b] /\ dirty'[b]
                                 /\ page'[b].ver = latest'[u] /\ (hinted'[u] => page'[b].hint)
      BY Zenon DEF NoLostUpdate, Covers
    <3>8. CASE u = t
      BY <3>2, <3>4, <3>6, <3>7, <3>8, Zenon
    <3>9. CASE u # t
      <4>1. \/ disk[u].ver = latest[u] /\ (hinted[u] => disk[u].hint)
            \/ \E b \in Buf : /\ tag[b] = u /\ valid[b] /\ dirty[b]
                              /\ page[b].ver = latest[u] /\ (hinted[u] => page[b].hint)
        BY Zenon DEF NoLostUpdate, Covers
      <4> QED BY <3>3, <3>4, <3>6, <3>9, <4>1, Zenon
    <3> QED BY <3>8, <3>9, Zenon
  <2>2. CASE SetHint(p)
    <3>1. /\ UNCHANGED <<dirty, latest, hinted>>
          /\ \A b \in Buf : page'[b].ver = page[b].ver /\ (page[b].hint => page'[b].hint)
      BY <2>2, Zenon DEF SetHint, header, store, ContentOK
    <3> QED BY <3>1, UpdatesKept, Zenon
  <2>3. CASE ~(Update(p) \/ HintAlreadyDirty(p) \/ MarkHint(p) \/ SetHint(p))
    <3>1. UNCHANGED <<dirty, page, latest, hinted>>
      BY <1>2, <2>3, AccessFrame, Zenon
    <3> QED BY <3>1, UpdatesKept, Zenon
  <2> QED BY <2>1, <2>2, <2>3, Zenon
<1>3. ASSUME NEW p \in Backends \cup Writers, Flush(p)  PROVE NoLostUpdate'
  <2> p \in Proc /\ UNCHANGED <<tag, valid, page, rel, latest, hinted>>
    BY <1>3, FlushFrame, Zenon DEF Proc
  <2>1. CASE SmgrWrite(p)
    <3>1. /\ pc[p] = "write" /\ dirty' = dirty
          /\ disk' = [disk EXCEPT ![tag[buf[p]]] = page[buf[p]]]
      BY <2>1, Zenon DEF SmgrWrite, header, At
    <3>2. buf[p] \in Buf /\ tag[buf[p]] \in Tags /\ valid[buf[p]]
      BY <3>1 DEF PinsHold, PinHolds, PinPlaces, VictimPlaces, FlushPlaces, HeaderOK,
           WritesSafe, WritePlaces, HeadersSound
    <3>3. rel[tag[buf[p]]] = "live" => Covers(disk'[tag[buf[p]]], tag[buf[p]])
      BY <3>1, <3>2, Zenon DEF PagesSound, StoreOK, Live
    <3>4. \A t \in Tags : t # tag[buf[p]] => disk'[t] = disk[t]
      BY <3>1, Zenon DEF StoreOK
    <3>5. ASSUME NEW t \in Tags, rel[t] = "live"
          PROVE  \/ Covers(disk'[t], t)
                 \/ \E b \in Buf : tag[b] = t /\ valid[b] /\ dirty[b] /\ Covers(page[b], t)
      BY <3>3, <3>4, <3>5, Zenon DEF NoLostUpdate
    <3> QED BY <3>1, <3>5, Zenon DEF NoLostUpdate, Covers
  <2>2. CASE EndWrite(p)
    <3>1. /\ pc[p] = "written" /\ disk' = disk
          /\ dirty' = [dirty EXCEPT ![buf[p]] = justDirtied[buf[p]]]
      BY <2>2, Zenon DEF EndWrite, store, At
    <3>2. buf[p] \in Buf
      BY <3>1, Zenon DEF PinsHold, PinHolds, PinPlaces, VictimPlaces, FlushPlaces
    <3>3. /\ \A b \in Buf : b # buf[p] => dirty'[b] = dirty[b]
          /\ dirty'[buf[p]] = justDirtied[buf[p]]
      BY <3>1, <3>2, Zenon DEF HeaderOK
    <3>4. ~justDirtied[buf[p]] /\ Live(tag[buf[p]]) => Covers(disk[tag[buf[p]]], tag[buf[p]])
      BY <3>1, Zenon DEF PagesSound
    <3>5. ASSUME NEW t \in Tags, rel[t] = "live"
          PROVE  \/ Covers(disk[t], t)
                 \/ \E b \in Buf : tag[b] = t /\ valid[b] /\ dirty'[b] /\ Covers(page[b], t)
      <4>1. ASSUME NEW b \in Buf, tag[b] = t, valid[b], dirty[b], Covers(page[b], t)
            PROVE  dirty'[b] \/ Covers(disk[t], t)
        BY <3>3, <3>4, <3>5, <4>1, Zenon DEF Live
      <4> QED BY <3>5, <4>1, Zenon DEF NoLostUpdate
    <3> QED BY <3>1, <3>5, Zenon DEF NoLostUpdate, Covers
  <2>3. CASE ~SmgrWrite(p) /\ ~EndWrite(p)
    <3>1. disk' = disk
      BY <1>3, <2>3, FlushFrame, Zenon
    <3>2. dirty' = dirty
      BY <1>3, <2>3, Zenon DEF Flush, SyncOneBuffer, LockForFlush, StartWrite, ReadLSN,
           XLogFlush, WriteError, AfterFlush, header
    <3> QED BY <3>1, <3>2, UpdatesKept, Zenon
  <2> QED BY <2>1, <2>2, <2>3, Zenon
<1>4. ASSUME NEW p \in Droppers, Drop(p)  PROVE NoLostUpdate'
  <2> p \in Proc /\ UNCHANGED <<page, latest, hinted, disk>>
    BY <1>4, DropFrame, Zenon DEF Proc, content
  <2>1. \A t \in Tags : rel'[t] = "live" => rel[t] = "live"
    <3>1. CASE EndDrop(p)
      BY <3>1, Zenon DEF EndDrop, StoreOK
    <3>2. CASE \E t \in Tags : BeginDrop(p, t)
      BY <3>2, Zenon DEF BeginDrop, StoreOK
    <3> QED BY <1>4, <3>1, <3>2, DropFrame, Zenon
  <2>2. \A b \in Buf : Live(tag[b]) =>
          tag'[b] = tag[b] /\ valid'[b] = valid[b] /\ dirty'[b] = dirty[b]
    <3>1. CASE DropClear(p)
      <4>1. ~Live(tag[buf[p]])
        BY <3>1, Zenon DEF DropClear, At, DropsSound, Live
      <4> QED BY <3>1, <4>1, Zenon DEF DropClear, ClearHeader, HeaderOK
    <3> QED BY <1>4, <3>1, DropFrame, Zenon
  <2> QED BY <2>1, <2>2, UpdatesKept, Zenon
<1>5. ASSUME NEW b \in Buf, NEW ok \in BOOLEAN, CompleteRead(b, ok)  PROVE NoLostUpdate'
  <2>1. UNCHANGED <<tag, dirty, disk, rel, latest, hinted>> /\ ~valid[b]
    BY <1>5, CompleteFrame
  <2>2. \A c \in Buf : c # b => page'[c] = page[c] /\ valid'[c] = valid[c]
    BY <1>5, Zenon DEF CompleteRead, HeaderOK, ContentOK
  <2> QED BY <2>1, <2>2, UpdatesKept, Zenon
<1> QED BY <1>1, <1>2, <1>3, <1>4, <1>5, Zenon DEF Next

-----------------------------------------------------------------------------
(***************************************************************************)
(* The invariant and what follows from it.                                 *)
(***************************************************************************)
(***************************************************************************)
(* The theorems.                                                           *)
(***************************************************************************)
\* The invariant holds of the empty pool.
LEMMA PoolInit == ASSUME Init  PROVE PoolInv
<1>1. Blank \in Page /\ 0 \in 0 .. MaxLSN /\ 0 \in 0 .. NBuffers
  BY DEF Blank, Page
<1>2. HeaderOK /\ ContentOK /\ MappingOK /\ StoreOK /\ PlacesOK /\ LocalOK
  <2>1. HeaderOK
    BY Zenon DEF Init, HeaderOK
  <2>2. ContentOK
    BY <1>1, Zenon DEF Init, ContentOK
  <2>3. MappingOK
    BY Zenon DEF Init, MappingOK
  <2>4. StoreOK
    BY <1>1, Zenon DEF Init, StoreOK
  <2>5. PlacesOK
    BY Zenon DEF Init, PlacesOK, Places, BackendPlaces, DropPlaces, Proc
  <2>6. LocalOK
    BY <1>1, Zenon DEF Init, LocalOK
  <2> QED BY <2>1, <2>2, <2>3, <2>4, <2>5, <2>6, Zenon
<1>3. \A p \in Proc : pc[p] = "idle" /\ want[p] = None
  BY Zenon DEF Init
<1>4. PinsHold
  BY <1>3, Zenon DEF PinsHold, PinHolds, PinPlaces, OwnPlaces, VictimPlaces, ReadPlaces,
       HoldPlaces, FlushPlaces
<1>5. WantsBlock /\ DropsSound
  BY <1>3, Zenon DEF WantsBlock, DropsSound, Proc
<1>6. HeadersSound
  BY Zenon DEF Init, HeadersSound
<1>7. PartitionsLocked
  BY <1>3, Zenon DEF Init, PartitionsLocked, HoldsPartition
<1>8. TableSound
  BY <1>3, Zenon DEF Init, TableSound, Agree, Changing
<1>9. LocksHeld /\ WritesSafe
  BY <1>3, Zenon DEF Init, LocksHeld, WritesSafe, WritePlaces, FlushPlaces
<1>10. PagesSound
  BY <1>3, Zenon DEF Init, PagesSound
<1>11. LogBeforeData /\ NoLostUpdate /\ DroppedIsGone
  BY DEF Init, LogBeforeData, NoLostUpdate, DroppedIsGone, Covers, Blank
<1> QED BY <1>2, <1>4, <1>5, <1>6, <1>7, <1>8, <1>9, <1>10, <1>11, Zenon DEF PoolInv

\* Every step keeps the invariant.
LEMMA PoolStep == ASSUME PoolInv, Next  PROVE PoolInv'
<1> USE DEF PoolInv
<1>1. HeaderOK' /\ ContentOK' /\ MappingOK' /\ StoreOK' /\ PlacesOK' /\ LocalOK'
  BY HeaderStep, ContentStep, MappingStep, StoreStep, PlacesStep, LocalStep, Zenon
<1>2. PinsHold' /\ WantsBlock' /\ HeadersSound'
  BY PinsStep, WantsStep, HeadersStep, Zenon
<1>3. PartitionsLocked' /\ TableSound' /\ LocksHeld' /\ WritesSafe'
  BY PartitionsStep, TableStep, LocksStep, WritesStep, Zenon
<1>4. PagesSound' /\ DropsSound' /\ LogBeforeData' /\ NoLostUpdate' /\ DroppedIsGone'
  BY PagesStep, DropsStep, LogStep, UpdatesStep, GoneStep, Zenon
<1> QED BY <1>1, <1>2, <1>3, <1>4, Zenon

\* So does a stuttering step.
LEMMA PoolStutter == ASSUME PoolInv, UNCHANGED vars  PROVE PoolInv'
<1>1. /\ UNCHANGED <<tag, valid, dirty, justDirtied, io, pins>>
      /\ UNCHANGED <<page, lockX, lockS, table, mapX, mapS>>
      /\ UNCHANGED <<disk, insert, flushed, rel, latest, hinted>>
      /\ UNCHANGED <<pc, want, old, buf, recptr>>
  BY Zenon DEF vars, header, content, mapping, store, local
<1>2. HeaderOK' /\ ContentOK' /\ MappingOK' /\ StoreOK' /\ PlacesOK' /\ LocalOK'
  BY <1>1, Zenon DEF PoolInv, HeaderOK, ContentOK, MappingOK, StoreOK, PlacesOK, LocalOK
<1>3. PinsHold' /\ WantsBlock' /\ HeadersSound'
  BY <1>1, Zenon DEF PoolInv, PinsHold, PinHolds, WantsBlock, HeadersSound
<1>4. PartitionsLocked'
  BY <1>1, Zenon DEF PoolInv, PartitionsLocked, HoldsPartition
<1>5. TableSound'
  BY <1>1 DEF PoolInv, TableSound, Agree, Changing
<1>6. LocksHeld' /\ WritesSafe'
  BY <1>1, Zenon DEF PoolInv, LocksHeld, WritesSafe
<1>7. PagesSound' /\ NoLostUpdate'
  BY <1>1, Zenon DEF PoolInv, PagesSound, NoLostUpdate, Covers, Live
<1>8. DropsSound' /\ LogBeforeData' /\ DroppedIsGone'
  BY <1>1, Zenon DEF PoolInv, DropsSound, LogBeforeData, DroppedIsGone
<1> QED BY <1>2, <1>3, <1>4, <1>5, <1>6, <1>7, <1>8, Zenon DEF PoolInv

(***************************************************************************)
(* The inductive invariant holds throughout: where a process is in         *)
(* BufferAlloc, FlushBuffer, the read or DropRelationBuffers determines    *)
(* which pins, locks and flags it can rely on.                             *)
(***************************************************************************)
THEOREM PoolInvariant == Spec => []PoolInv
<1>1. Init => PoolInv
  BY PoolInit, Zenon
<1>2. PoolInv /\ [Next]_vars => PoolInv'
  BY PoolStep, PoolStutter, Zenon
<1> QED BY <1>1, <1>2, PTL DEF Spec

(***************************************************************************)
(* Types: buffer headers, locks, table, files and the places of the        *)
(* processes keep their types.                                             *)
(***************************************************************************)
THEOREM PoolTypeCorrect == Spec => []TypeOK
<1>1. PoolInv => TypeOK
  BY TypeParts, Zenon DEF PoolInv
<1> QED BY <1>1, PoolInvariant, PTL

(***************************************************************************)
(* However many backends run BufferAlloc for one block, while others evict *)
(* and drop it, the block is never in two buffers.                         *)
(***************************************************************************)
THEOREM PoolHoldsBlockOnce == Spec => []OneBufferPerBlock
<1>1. PoolInv => OneBufferPerBlock
  BY OneBuffer, Zenon DEF PoolInv, OneBufferPerBlock, HeaderOK
<1> QED BY <1>1, PoolInvariant, PTL

(***************************************************************************)
(* Whoever may look into the mapping table, because nobody has the         *)
(* partition exclusively, finds there what the headers say: BufTableInsert *)
(* and the tag, BufTableDelete and the clearing of the tag are never seen  *)
(* apart.                                                                  *)
(***************************************************************************)
THEOREM PoolTableCorrect == Spec => []TableMatchesHeaders
<1>1. PoolInv => TableMatchesHeaders
  BY FreeAgrees, Zenon DEF PoolInv, TableMatchesHeaders, Agree
<1> QED BY <1>1, PoolInvariant, PTL

(***************************************************************************)
(* A backend that holds a page after BufferAlloc and the read has the      *)
(* block it asked for, valid and with its last update.                     *)
(***************************************************************************)
THEOREM PoolPagesCurrent == Spec => []PinnedPageIsCurrent
<1>1. ASSUME PoolInv, NEW p \in Backends, pc[p] \in HoldPlaces
      PROVE  /\ p \in pins[buf[p]] /\ tag[buf[p]] = want[p] /\ valid[buf[p]]
             /\ page[buf[p]].ver = latest[want[p]]
  <2>1. p \in pins[buf[p]] /\ tag[buf[p]] = want[p]
    BY <1>1, Zenon DEF PoolInv, PinsHold, PinHolds, PinPlaces, Proc
  <2>2. valid[buf[p]] /\ page[buf[p]].ver = latest[tag[buf[p]]]
    BY <1>1, UsedPage, Zenon DEF PoolInv, Covers
  <2> QED BY <2>1, <2>2, Zenon
<1>2. PoolInv => PinnedPageIsCurrent
  BY <1>1, Zenon DEF PinnedPageIsCurrent
<1> QED BY <1>2, PoolInvariant, PTL

(***************************************************************************)
(* Write-back loses no update and no reported hint, whatever changes the   *)
(* page during FlushBuffer and whoever evicts and rereads it.              *)
(***************************************************************************)
THEOREM PoolKeepsUpdates == Spec => []NoLostUpdate
<1>1. PoolInv => NoLostUpdate
  BY Zenon DEF PoolInv
<1> QED BY <1>1, PoolInvariant, PTL

(***************************************************************************)
(* FlushBuffer obeys the write-ahead rule.                                 *)
(***************************************************************************)
THEOREM PoolLogsFirst == Spec => []LogBeforeData
<1>1. PoolInv => LogBeforeData
  BY Zenon DEF PoolInv
<1> QED BY <1>1, PoolInvariant, PTL

(***************************************************************************)
(* DropRelationBuffers leaves no buffer of the relation behind.            *)
(***************************************************************************)
THEOREM PoolDropsAll == Spec => []DroppedIsGone
<1>1. PoolInv => DroppedIsGone
  BY Zenon DEF PoolInv
<1> QED BY <1>1, PoolInvariant, PTL
=============================================================================
