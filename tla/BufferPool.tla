----------------------------- MODULE BufferPool -----------------------------
(***************************************************************************)
(* The shared buffer pool of bufmgr.c around the eviction policy: the      *)
(* mapping table and its partition locks, the flags of a buffer header,    *)
(* pins, content locks, reads through the asynchronous I/O subsystem,      *)
(* write-back, and the dropping of a relation's buffers.  The policy is    *)
(* its contract: it hands out, pinned, some buffer that nobody pins.       *)
(*                                                                         *)
(* A backend keeps one shared pin per buffer however often it pins it, so  *)
(* the reference count of a buffer is the number of its holders in pins.   *)
(* What happens between LockBufHdr and UnlockBufHdr is one step, and so    *)
(* is an update of an exclusively locked page together with its log        *)
(* record: nobody else may look at the page in between.                    *)
(***************************************************************************)
EXTENDS Naturals, FiniteSets

CONSTANTS
  NBuffers,     \* shared buffers, numbered from 0
  Tags,         \* disk blocks, the identities a buffer may have
  Partitions,   \* partitions of the mapping table
  PartitionOf,  \* the partition of each tag
  Backends,     \* processes that read and change pages
  Writers,      \* the background writer and the checkpointer
  Droppers,     \* processes that drop or truncate relations
  Aio,          \* the asynchronous I/O subsystem, as a holder of pins
  None,
  MaxLSN        \* bound on the log records written

Proc == Backends \cup Writers \cup Droppers
Buf == 0 .. NBuffers - 1

ASSUME PoolAssumption ==
  /\ NBuffers \in Nat \ {0}
  /\ MaxLSN \in Nat
  /\ PartitionOf \in [Tags -> Partitions]
  /\ None \notin Proc \cup Tags \cup Buf
  /\ Aio \notin Proc
  /\ Backends \cap Writers = {}
  /\ Backends \cap Droppers = {}
  /\ Writers \cap Droppers = {}

VARIABLES
  tag, valid, dirty, justDirtied, io, pins,     \* buffer headers
  page, lockX, lockS,                           \* contents and content locks
  table, mapX, mapS,                            \* mapping table, partition locks
  disk, insert, flushed, rel,                   \* data files and the log
  latest, hinted,                               \* history: changes made to a block
  pc, want, old, buf, recptr                    \* where each process is

header == <<tag, valid, dirty, justDirtied, io, pins>>
content == <<page, lockX, lockS>>
mapping == <<table, mapX, mapS>>
store == <<disk, insert, flushed, rel, latest, hinted>>
local == <<pc, want, old, buf, recptr>>
vars == <<header, content, mapping, store, local>>

Page == [ver : 0 .. MaxLSN, hint : BOOLEAN, lsn : 0 .. MaxLSN]
Blank == [ver |-> 0, hint |-> FALSE, lsn |-> 0]

Init ==
  /\ tag = [b \in Buf |-> None]
  /\ valid = [b \in Buf |-> FALSE]
  /\ dirty = [b \in Buf |-> FALSE]
  /\ justDirtied = [b \in Buf |-> FALSE]
  /\ io = [b \in Buf |-> None]
  /\ pins = [b \in Buf |-> {}]
  /\ page = [b \in Buf |-> Blank]
  /\ lockX = [b \in Buf |-> None]
  /\ lockS = [b \in Buf |-> {}]
  /\ table = [t \in Tags |-> None]
  /\ mapX = [k \in Partitions |-> None]
  /\ mapS = [k \in Partitions |-> {}]
  /\ disk = [t \in Tags |-> Blank]
  /\ insert = 0
  /\ flushed = 0
  /\ rel = [t \in Tags |-> "live"]
  /\ latest = [t \in Tags |-> 0]
  /\ hinted = [t \in Tags |-> FALSE]
  /\ pc = [p \in Proc |-> "idle"]
  /\ want = [p \in Proc |-> None]
  /\ old = [p \in Proc |-> None]
  /\ buf = [p \in Proc |-> 0]
  /\ recptr = [p \in Proc |-> 0]

At(p, from) == pc[p] = from
Goto(p, to) == pc' = [pc EXCEPT ![p] = to]

PinBuffer(p, b) == pins' = [pins EXCEPT ![b] = @ \cup {p}]
UnpinBuffer(p, b) == pins' = [pins EXCEPT ![b] = @ \ {p}]

\* p releases its buffer and forgets which one it was.
LetGo(p) == UnpinBuffer(p, buf[p]) /\ buf' = [buf EXCEPT ![p] = 0]

\* LWLockAcquire(BufMappingPartitionLock(t), LW_EXCLUSIVE) and its release.
MapLockX(p, t) ==
  /\ mapX[PartitionOf[t]] = None
  /\ mapS[PartitionOf[t]] = {}
  /\ mapX' = [mapX EXCEPT ![PartitionOf[t]] = p]
  /\ UNCHANGED mapS

MapUnlockX(t) == mapX' = [mapX EXCEPT ![PartitionOf[t]] = None] /\ UNCHANGED mapS

\* BufferLockAttempt in share mode, and the release of a share lock.
LockShare(p, b) ==
  /\ lockX[b] = None
  /\ lockS' = [lockS EXCEPT ![b] = @ \cup {p}]
  /\ UNCHANGED <<page, lockX>>

UnlockShare(p, b) ==
  lockS' = [lockS EXCEPT ![b] = @ \ {p}] /\ UNCHANGED <<page, lockX>>

-----------------------------------------------------------------------------
(***************************************************************************)
(* BufferAlloc: find the block in the pool, or else claim a victim buffer, *)
(* take away its old identity and give it the new one.                     *)
(***************************************************************************)
Lookup(p, t) ==
  /\ At(p, "idle") /\ rel[t] = "live"
  /\ mapX[PartitionOf[t]] = None
  /\ want' = [want EXCEPT ![p] = t]
  /\ \/ /\ table[t] = None
        /\ Goto(p, "victim")
        /\ UNCHANGED <<buf, mapping>>
     \/ /\ table[t] # None
        /\ Goto(p, "found")
        /\ buf' = [buf EXCEPT ![p] = table[t]]
        /\ mapS' = [mapS EXCEPT ![PartitionOf[t]] = @ \cup {p}]
        /\ UNCHANGED <<table, mapX>>
  /\ UNCHANGED <<header, content, store, old, recptr>>

PinFound(p) ==
  /\ At(p, "found")
  /\ PinBuffer(p, buf[p])
  /\ mapS' = [mapS EXCEPT ![PartitionOf[want[p]]] = @ \ {p}]
  /\ Goto(p, IF valid[buf[p]] THEN "have" ELSE "read")
  /\ UNCHANGED <<tag, valid, dirty, justDirtied, io, content, table, mapX, store,
                 want, old, buf, recptr>>

\* StrategyGetBuffer; what GetVictimBuffer does next depends on the flags it saw.
GetVictim(p, b) ==
  /\ At(p, "victim")
  /\ pins[b] = {}
  /\ PinBuffer(p, b)
  /\ buf' = [buf EXCEPT ![p] = b]
  /\ Goto(p, IF dirty[b] THEN "flush" ELSE IF tag[b] # None THEN "evict" ELSE "insert")
  /\ UNCHANGED <<tag, valid, dirty, justDirtied, io, content, mapping, store,
                 want, old, recptr>>

\* The victim's contents are locked only if that needs no wait.
LockVictim(p) ==
  /\ At(p, "flush")
  /\ LockShare(p, buf[p])
  /\ Goto(p, "start")
  /\ UNCHANGED <<header, mapping, store, want, old, buf, recptr>>

\* The contents are locked, so the victim is given up.
VictimLocked(p) ==
  /\ At(p, "flush")
  /\ lockX[buf[p]] # None
  /\ LetGo(p)
  /\ Goto(p, "victim")
  /\ UNCHANGED <<tag, valid, dirty, justDirtied, io, content, mapping, store,
                 want, old, recptr>>

\* StrategyRejectBuffer: a bulk read will not wait for the log.
RejectVictim(p) ==
  /\ At(p, "start") /\ p \in Backends
  /\ page[buf[p]].lsn > flushed
  /\ UnlockShare(p, buf[p])
  /\ LetGo(p)
  /\ Goto(p, "victim")
  /\ UNCHANGED <<tag, valid, dirty, justDirtied, io, mapping, store,
                 want, old, recptr>>

-----------------------------------------------------------------------------
(***************************************************************************)
(* FlushBuffer, with a pin and a share lock on the contents.  A step       *)
(* waits in StartBufferIO while another process has I/O on the buffer.     *)
(***************************************************************************)
StartWrite(p) ==
  /\ At(p, "start")
  /\ io[buf[p]] = None
  /\ \/ /\ dirty[buf[p]]
        /\ io' = [io EXCEPT ![buf[p]] = p]
        /\ Goto(p, "readlsn")
     \/ ~dirty[buf[p]] /\ Goto(p, "unlock") /\ UNCHANGED io
  /\ UNCHANGED <<tag, valid, dirty, justDirtied, pins, content, mapping, store,
                 want, old, buf, recptr>>

ReadLSN(p) ==
  /\ At(p, "readlsn")
  /\ recptr' = [recptr EXCEPT ![p] = page[buf[p]].lsn]
  /\ justDirtied' = [justDirtied EXCEPT ![buf[p]] = FALSE]
  /\ Goto(p, "xlogflush")
  /\ UNCHANGED <<tag, valid, dirty, io, pins, content, mapping, store,
                 want, old, buf>>

XLogFlush(p) ==
  /\ At(p, "xlogflush")
  /\ flushed' = IF flushed < recptr[p] THEN recptr[p] ELSE flushed
  /\ recptr' = [recptr EXCEPT ![p] = 0]
  /\ Goto(p, "write")
  /\ UNCHANGED <<header, content, mapping, disk, insert, rel, latest, hinted,
                 want, old, buf>>

SmgrWrite(p) ==
  /\ At(p, "write")
  /\ disk' = [disk EXCEPT ![tag[buf[p]]] = page[buf[p]]]
  /\ Goto(p, "written")
  /\ UNCHANGED <<header, content, mapping, insert, flushed, rel, latest, hinted,
                 want, old, buf, recptr>>

\* An error in XLogFlush or smgrwrite: AbortBufferIO, then ResOwnerReleaseBuffer.
WriteError(p) ==
  /\ pc[p] \in {"xlogflush", "write"}
  /\ io' = [io EXCEPT ![buf[p]] = None]
  /\ UnlockShare(p, buf[p])
  /\ LetGo(p)
  /\ Goto(p, "idle")
  /\ recptr' = [recptr EXCEPT ![p] = 0]
  /\ want' = [want EXCEPT ![p] = None]
  /\ UNCHANGED <<tag, valid, dirty, justDirtied, mapping, store, old>>

\* Mutant: the page counts as clean although it changed during the write.
EndWriteClean(p) ==
  /\ At(p, "written")
  /\ io' = [io EXCEPT ![buf[p]] = None]
  /\ dirty' = [dirty EXCEPT ![buf[p]] = FALSE]
  /\ Goto(p, "unlock")
  /\ UNCHANGED <<tag, valid, justDirtied, pins, content, mapping, store,
                 want, old, buf, recptr>>

\* TerminateBufferIO(clear_dirty): not if the page was dirtied during the write.
EndWrite(p) ==
  /\ At(p, "written")
  /\ io' = [io EXCEPT ![buf[p]] = None]
  /\ dirty' = [dirty EXCEPT ![buf[p]] = justDirtied[buf[p]]]
  /\ Goto(p, "unlock")
  /\ UNCHANGED <<tag, valid, justDirtied, pins, content, mapping, store,
                 want, old, buf, recptr>>

\* Mutant: the background writer goes on to evict the page, too.
AlwaysEvict(p) ==
  /\ At(p, "unlock")
  /\ UnlockShare(p, buf[p])
  /\ Goto(p, "evict")
  /\ UNCHANGED <<header, mapping, store, want, old, buf, recptr>>

\* GetVictimBuffer goes on to evict the page, SyncOneBuffer lets go of it.
AfterFlush(p) ==
  /\ At(p, "unlock")
  /\ UnlockShare(p, buf[p])
  /\ \/ p \in Backends /\ Goto(p, "evict") /\ UNCHANGED <<pins, buf>>
     \/ p \in Writers /\ Goto(p, "idle") /\ LetGo(p)
  /\ UNCHANGED <<tag, valid, dirty, justDirtied, io, mapping, store,
                 want, old, recptr>>

\* SyncOneBuffer up to PinBuffer_Locked; it may skip a recently used buffer.
SyncOneBuffer(p, b) ==
  /\ At(p, "idle") /\ p \in Writers
  /\ valid[b] /\ dirty[b]
  /\ PinBuffer(p, b)
  /\ buf' = [buf EXCEPT ![p] = b]
  /\ Goto(p, "flushlock")
  /\ UNCHANGED <<tag, valid, dirty, justDirtied, io, content, mapping, store,
                 want, old, recptr>>

\* FlushUnlockedBuffer waits for the share lock.
LockForFlush(p) ==
  /\ At(p, "flushlock")
  /\ LockShare(p, buf[p])
  /\ Goto(p, "start")
  /\ UNCHANGED <<header, mapping, store, want, old, buf, recptr>>

-----------------------------------------------------------------------------
(***************************************************************************)
(* InvalidateVictimBuffer: under the partition lock, and unless somebody   *)
(* else has pinned or dirtied the page since, clear the header and then    *)
(* delete the table entry.                                                 *)
(***************************************************************************)
ClearHeader(b) ==
  /\ tag' = [tag EXCEPT ![b] = None]
  /\ valid' = [valid EXCEPT ![b] = FALSE]
  /\ dirty' = [dirty EXCEPT ![b] = FALSE]
  /\ justDirtied' = [justDirtied EXCEPT ![b] = FALSE]
  /\ io' = [io EXCEPT ![b] = None]

LockToEvict(p) ==
  /\ At(p, "evict")
  /\ MapLockX(p, tag[buf[p]])
  /\ old' = [old EXCEPT ![p] = tag[buf[p]]]
  /\ Goto(p, "recheck")
  /\ UNCHANGED <<header, content, table, store, want, buf, recptr>>

\* Mutant: pins taken since the victim was chosen are not noticed.
InUseIfDirty(p) == dirty[buf[p]] \/ ~valid[buf[p]]

InUse(p) == pins[buf[p]] # {p} \/ dirty[buf[p]]

EvictVictim(p) ==
  /\ At(p, "recheck")
  /\ ~InUse(p)
  /\ ClearHeader(buf[p])
  /\ Goto(p, "delete")
  /\ UNCHANGED <<pins, content, mapping, store, want, old, buf, recptr>>

VictimInUse(p) ==
  /\ At(p, "recheck")
  /\ InUse(p)
  /\ MapUnlockX(old[p])
  /\ LetGo(p)
  /\ old' = [old EXCEPT ![p] = None]
  /\ Goto(p, "victim")
  /\ UNCHANGED <<tag, valid, dirty, justDirtied, io, content, table, store,
                 want, recptr>>

\* Mutant: the entry of the evicted page stays in the table.
DeleteNothing(p) ==
  /\ At(p, "delete")
  /\ MapUnlockX(old[p])
  /\ old' = [old EXCEPT ![p] = None]
  /\ Goto(p, "insert")
  /\ UNCHANGED <<header, content, table, store, want, buf, recptr>>

BufTableDelete(p) ==
  /\ At(p, "delete")
  /\ table' = [table EXCEPT ![old[p]] = None]
  /\ MapUnlockX(old[p])
  /\ old' = [old EXCEPT ![p] = None]
  /\ Goto(p, "insert")
  /\ UNCHANGED <<header, content, store, want, buf, recptr>>

\* Mutant: an entry somebody else made is replaced.
InsertOver(p) ==
  /\ At(p, "insert")
  /\ MapLockX(p, want[p])
  /\ table' = [table EXCEPT ![want[p]] = buf[p]]
  /\ Goto(p, "settag")
  /\ UNCHANGED <<header, content, store, want, old, buf, recptr>>

\* BufTableInsert makes the entry, unless somebody else made one first.
InsertEntry(p) ==
  /\ At(p, "insert")
  /\ MapLockX(p, want[p])
  /\ \/ /\ table[want[p]] = None
        /\ table' = [table EXCEPT ![want[p]] = buf[p]]
        /\ Goto(p, "settag")
     \/ /\ table[want[p]] # None
        /\ Goto(p, "collision")
        /\ UNCHANGED table
  /\ UNCHANGED <<header, content, store, want, old, buf, recptr>>

SetTag(p) ==
  /\ At(p, "settag")
  /\ tag' = [tag EXCEPT ![buf[p]] = want[p]]
  /\ MapUnlockX(want[p])
  /\ Goto(p, "read")
  /\ UNCHANGED <<valid, dirty, justDirtied, io, pins, content, table, store,
                 want, old, buf, recptr>>

\* The victim is given up and the buffer found in its place is pinned.
UseExisting(p) ==
  /\ At(p, "collision")
  /\ LET b == table[want[p]] IN
       /\ pins' = [pins EXCEPT ![buf[p]] = @ \ {p}, ![b] = @ \cup {p}]
       /\ buf' = [buf EXCEPT ![p] = b]
       /\ Goto(p, IF valid[b] THEN "have" ELSE "read")
  /\ MapUnlockX(want[p])
  /\ UNCHANGED <<tag, valid, dirty, justDirtied, io, content, table, store,
                 want, old, recptr>>

-----------------------------------------------------------------------------
(***************************************************************************)
(* Reading the page in: the backend starts the I/O and the I/O subsystem,  *)
(* with a pin of its own, completes it, be the backend still there or not. *)
(***************************************************************************)
StartRead(p) ==
  /\ At(p, "read")
  /\ io[buf[p]] = None
  /\ \/ /\ ~valid[buf[p]]
        /\ io' = [io EXCEPT ![buf[p]] = p]
        /\ PinBuffer(Aio, buf[p])
        /\ Goto(p, "reading")
     \/ valid[buf[p]] /\ Goto(p, "have") /\ UNCHANGED <<io, pins>>
  /\ UNCHANGED <<tag, valid, dirty, justDirtied, content, mapping, store,
                 want, old, buf, recptr>>

\* buffer_readv_complete_one for buffer b; its issuer, if it waits, learns the outcome.
CompleteRead(b, ok) ==
  /\ Aio \in pins[b]
  /\ page' = [page EXCEPT ![b] = IF ok THEN disk[tag[b]] ELSE @]
  /\ valid' = [valid EXCEPT ![b] = ok]
  /\ io' = [io EXCEPT ![b] = None]
  /\ UnpinBuffer(Aio, b)
  /\ IF pc[io[b]] = "reading" /\ buf[io[b]] = b
     THEN Goto(io[b], IF ok THEN "have" ELSE "failed") ELSE UNCHANGED pc
  /\ UNCHANGED <<tag, dirty, justDirtied, lockX, lockS, mapping, store,
                 want, old, buf, recptr>>

\* An error or a cancel releases the backend's pin, the I/O may still be under way.
ReadError(p) ==
  /\ pc[p] \in {"read", "reading", "failed"}
  /\ LetGo(p)
  /\ want' = [want EXCEPT ![p] = None]
  /\ Goto(p, "idle")
  /\ UNCHANGED <<tag, valid, dirty, justDirtied, io, content, mapping, store,
                 old, recptr>>

ReleaseBuffer(p) ==
  /\ At(p, "have")
  /\ LetGo(p)
  /\ want' = [want EXCEPT ![p] = None]
  /\ Goto(p, "idle")
  /\ UNCHANGED <<tag, valid, dirty, justDirtied, io, content, mapping, store,
                 old, recptr>>

-----------------------------------------------------------------------------
(***************************************************************************)
(* Changing a page: an update, under the exclusive lock, is logged; a hint *)
(* may be set under the share lock and is then reported to                 *)
(* MarkBufferDirtyHint.  Log positions are numbered from 1, and 0 is       *)
(* InvalidXLogRecPtr.                                                      *)
(***************************************************************************)
LockExclusive(p) ==
  /\ At(p, "have")
  /\ lockX[buf[p]] = None /\ lockS[buf[p]] = {}
  /\ lockX' = [lockX EXCEPT ![buf[p]] = p]
  /\ Goto(p, "locked")
  /\ UNCHANGED <<header, page, lockS, mapping, store, want, old, buf, recptr>>

\* The access method changes the page, calls MarkBufferDirty and logs the change.
Update(p) ==
  /\ At(p, "locked")
  /\ insert < MaxLSN
  /\ insert' = insert + 1
  /\ page' = [page EXCEPT ![buf[p]] =
                [ver |-> insert + 1, hint |-> @.hint, lsn |-> insert + 1]]
  /\ dirty' = [dirty EXCEPT ![buf[p]] = TRUE]
  /\ justDirtied' = [justDirtied EXCEPT ![buf[p]] = TRUE]
  /\ latest' = [latest EXCEPT ![tag[buf[p]]] = insert + 1]
  /\ UNCHANGED <<tag, valid, io, pins, lockX, lockS, mapping, disk, flushed, rel,
                 hinted, local>>

UnlockExclusive(p) ==
  /\ At(p, "locked")
  /\ lockX' = [lockX EXCEPT ![buf[p]] = None]
  /\ Goto(p, "have")
  /\ UNCHANGED <<header, page, lockS, mapping, store, want, old, buf, recptr>>

LockShared(p) ==
  /\ At(p, "have")
  /\ LockShare(p, buf[p])
  /\ Goto(p, "shared")
  /\ UNCHANGED <<header, mapping, store, want, old, buf, recptr>>

UnlockShared(p) ==
  /\ At(p, "shared")
  /\ UnlockShare(p, buf[p])
  /\ Goto(p, "have")
  /\ UNCHANGED <<header, mapping, store, want, old, buf, recptr>>

SetHint(p) ==
  /\ At(p, "shared")
  /\ page' = [page EXCEPT ![buf[p]] = [ver |-> @.ver, hint |-> TRUE, lsn |-> @.lsn]]
  /\ Goto(p, "hint")
  /\ UNCHANGED <<header, lockX, lockS, mapping, store, want, old, buf, recptr>>

\* MarkBufferDirtyHint: the unlocked test finds both flags set.
HintAlreadyDirty(p) ==
  /\ At(p, "hint")
  /\ dirty[buf[p]] /\ justDirtied[buf[p]]
  /\ hinted' = [hinted EXCEPT ![tag[buf[p]]] = TRUE]
  /\ Goto(p, "shared")
  /\ UNCHANGED <<header, content, mapping, disk, insert, flushed, rel, latest,
                 want, old, buf, recptr>>

\* The page may need a log record of its own, or, in recovery, stays clean.
HintLog(p) ==
  /\ At(p, "hint")
  /\ ~(dirty[buf[p]] /\ justDirtied[buf[p]])
  /\ \/ /\ insert < MaxLSN
        /\ insert' = insert + 1
        /\ recptr' = [recptr EXCEPT ![p] = insert + 1]
        /\ Goto(p, "markhint")
     \/ recptr' = [recptr EXCEPT ![p] = 0] /\ Goto(p, "markhint") /\ UNCHANGED insert
     \/ Goto(p, "shared") /\ UNCHANGED <<insert, recptr>>
  /\ UNCHANGED <<header, content, mapping, disk, flushed, rel, latest, hinted,
                 want, old, buf>>

\* Mutant: the page LSN is set also on a page that is dirty already.
MarkHintAlways(p) ==
  /\ At(p, "markhint")
  /\ page' = [page EXCEPT ![buf[p]] =
                [ver |-> @.ver, hint |-> @.hint,
                 lsn |-> IF recptr[p] # 0 THEN recptr[p] ELSE @.lsn]]
  /\ dirty' = [dirty EXCEPT ![buf[p]] = TRUE]
  /\ justDirtied' = [justDirtied EXCEPT ![buf[p]] = TRUE]
  /\ hinted' = [hinted EXCEPT ![tag[buf[p]]] = TRUE]
  /\ recptr' = [recptr EXCEPT ![p] = 0]
  /\ Goto(p, "shared")
  /\ UNCHANGED <<tag, valid, io, pins, lockX, lockS, mapping, disk, insert, flushed,
                 rel, latest, want, old, buf>>

MarkHint(p) ==
  /\ At(p, "markhint")
  /\ page' = [page EXCEPT ![buf[p]] =
                [ver |-> @.ver, hint |-> @.hint,
                 lsn |-> IF ~dirty[buf[p]] /\ recptr[p] # 0 THEN recptr[p] ELSE @.lsn]]
  /\ dirty' = [dirty EXCEPT ![buf[p]] = TRUE]
  /\ justDirtied' = [justDirtied EXCEPT ![buf[p]] = TRUE]
  /\ hinted' = [hinted EXCEPT ![tag[buf[p]]] = TRUE]
  /\ recptr' = [recptr EXCEPT ![p] = 0]
  /\ Goto(p, "shared")
  /\ UNCHANGED <<tag, valid, io, pins, lockX, lockS, mapping, disk, insert, flushed,
                 rel, latest, want, old, buf>>

-----------------------------------------------------------------------------
(***************************************************************************)
(* DropRelationBuffers, by a process that holds the relation's lock: no    *)
(* backend uses the block any more, only write-back and eviction do.  It   *)
(* looks at every buffer in turn and calls InvalidateBuffer on a match.    *)
(***************************************************************************)
BeginDrop(p, t) ==
  /\ At(p, "idle") /\ p \in Droppers
  /\ rel[t] = "live"
  /\ \A q \in Backends : want[q] # t
  /\ rel' = [rel EXCEPT ![t] = "dropping"]
  /\ want' = [want EXCEPT ![p] = t]
  /\ buf' = [buf EXCEPT ![p] = 0]
  /\ Goto(p, "scan")
  /\ UNCHANGED <<header, content, mapping, disk, insert, flushed, latest, hinted,
                 old, recptr>>

DropScan(p) ==
  /\ At(p, "scan")
  /\ buf[p] < NBuffers
  /\ \/ tag[buf[p]] = want[p] /\ Goto(p, "drop") /\ UNCHANGED buf
     \/ tag[buf[p]] # want[p] /\ buf' = [buf EXCEPT ![p] = @ + 1] /\ UNCHANGED pc
  /\ UNCHANGED <<header, content, mapping, store, want, old, recptr>>

\* Every buffer was looked at: the file is removed.
EndDrop(p) ==
  /\ At(p, "scan")
  /\ buf[p] = NBuffers
  /\ rel' = [rel EXCEPT ![want[p]] = "gone"]
  /\ want' = [want EXCEPT ![p] = None]
  /\ buf' = [buf EXCEPT ![p] = 0]
  /\ Goto(p, "idle")
  /\ UNCHANGED <<header, content, mapping, disk, insert, flushed, latest, hinted,
                 old, recptr>>

LockToDrop(p) ==
  /\ At(p, "drop")
  /\ MapLockX(p, want[p])
  /\ Goto(p, "dropcheck")
  /\ UNCHANGED <<header, content, table, store, want, old, buf, recptr>>

\* The buffer got another identity meanwhile.
DropTaken(p) ==
  /\ At(p, "dropcheck")
  /\ tag[buf[p]] # want[p]
  /\ MapUnlockX(want[p])
  /\ buf' = [buf EXCEPT ![p] = @ + 1]
  /\ Goto(p, "scan")
  /\ UNCHANGED <<header, content, table, store, want, old, recptr>>

\* Mutant: a pinned buffer is passed over.
DropSkipPinned(p) ==
  /\ At(p, "dropcheck")
  /\ tag[buf[p]] = want[p] /\ pins[buf[p]] # {}
  /\ MapUnlockX(want[p])
  /\ buf' = [buf EXCEPT ![p] = @ + 1]
  /\ Goto(p, "scan")
  /\ UNCHANGED <<header, content, table, store, want, old, recptr>>

\* Somebody writes it out: wait for the I/O and try again.
DropPinned(p) ==
  /\ At(p, "dropcheck")
  /\ tag[buf[p]] = want[p] /\ pins[buf[p]] # {}
  /\ MapUnlockX(want[p])
  /\ Goto(p, "waitio")
  /\ UNCHANGED <<header, content, table, store, want, old, buf, recptr>>

WaitIO(p) ==
  /\ At(p, "waitio")
  /\ io[buf[p]] = None
  /\ Goto(p, "drop")
  /\ UNCHANGED <<header, content, mapping, store, want, old, buf, recptr>>

DropClear(p) ==
  /\ At(p, "dropcheck")
  /\ tag[buf[p]] = want[p] /\ pins[buf[p]] = {}
  /\ ClearHeader(buf[p])
  /\ Goto(p, "dropdelete")
  /\ UNCHANGED <<pins, content, mapping, store, want, old, buf, recptr>>

DropDelete(p) ==
  /\ At(p, "dropdelete")
  /\ table' = [table EXCEPT ![want[p]] = None]
  /\ MapUnlockX(want[p])
  /\ buf' = [buf EXCEPT ![p] = @ + 1]
  /\ Goto(p, "scan")
  /\ UNCHANGED <<header, content, store, want, old, recptr>>

-----------------------------------------------------------------------------
Alloc(p) ==
  \/ \E t \in Tags : Lookup(p, t)
  \/ \E b \in Buf : GetVictim(p, b)
  \/ PinFound(p) \/ LockVictim(p) \/ VictimLocked(p) \/ RejectVictim(p)
  \/ LockToEvict(p) \/ EvictVictim(p) \/ VictimInUse(p) \/ BufTableDelete(p)
  \/ InsertEntry(p) \/ SetTag(p) \/ UseExisting(p)

Flush(p) ==
  \/ \E b \in Buf : SyncOneBuffer(p, b)
  \/ LockForFlush(p) \/ StartWrite(p) \/ ReadLSN(p) \/ XLogFlush(p) \/ SmgrWrite(p)
  \/ WriteError(p) \/ EndWrite(p) \/ AfterFlush(p)

Access(p) ==
  \/ StartRead(p) \/ ReadError(p) \/ ReleaseBuffer(p)
  \/ LockExclusive(p) \/ Update(p) \/ UnlockExclusive(p)
  \/ LockShared(p) \/ UnlockShared(p) \/ SetHint(p)
  \/ HintAlreadyDirty(p) \/ HintLog(p) \/ MarkHint(p)

Drop(p) ==
  \/ \E t \in Tags : BeginDrop(p, t)
  \/ DropScan(p) \/ EndDrop(p) \/ LockToDrop(p) \/ DropTaken(p) \/ DropPinned(p)
  \/ WaitIO(p) \/ DropClear(p) \/ DropDelete(p)

Next ==
  \/ \E p \in Backends : Alloc(p) \/ Access(p)
  \/ \E p \in Backends \cup Writers : Flush(p)
  \/ \E p \in Droppers : Drop(p)
  \/ \E b \in Buf, ok \in BOOLEAN : CompleteRead(b, ok)

Spec == Init /\ [][Next]_vars

-----------------------------------------------------------------------------
(***************************************************************************)
(* The places a process can be, and the type of the state.                 *)
(***************************************************************************)
FlushPlaces == {"start", "readlsn", "xlogflush", "write", "written", "unlock"}
HoldPlaces == {"have", "locked", "shared", "hint", "markhint"}
BackendPlaces ==
  {"idle", "found", "victim", "flush", "evict", "recheck", "delete", "insert",
   "settag", "collision", "read", "reading", "failed"} \cup FlushPlaces \cup HoldPlaces
DropPlaces == {"idle", "scan", "drop", "dropcheck", "waitio", "dropdelete"}

TypeOK ==
  /\ tag \in [Buf -> Tags \cup {None}]
  /\ valid \in [Buf -> BOOLEAN] /\ dirty \in [Buf -> BOOLEAN]
  /\ justDirtied \in [Buf -> BOOLEAN]
  /\ io \in [Buf -> Proc \cup {None}]
  /\ pins \in [Buf -> SUBSET (Proc \cup {Aio})]
  /\ page \in [Buf -> Page]
  /\ lockX \in [Buf -> Proc \cup {None}] /\ lockS \in [Buf -> SUBSET Proc]
  /\ table \in [Tags -> Buf \cup {None}]
  /\ mapX \in [Partitions -> Proc \cup {None}] /\ mapS \in [Partitions -> SUBSET Proc]
  /\ disk \in [Tags -> Page]
  /\ insert \in 0 .. MaxLSN /\ flushed \in 0 .. MaxLSN
  /\ rel \in [Tags -> {"live", "dropping", "gone"}]
  /\ latest \in [Tags -> 0 .. MaxLSN] /\ hinted \in [Tags -> BOOLEAN]
  /\ pc \in [Proc -> BackendPlaces \cup DropPlaces \cup {"flushlock"}]
  /\ \A p \in Backends : pc[p] \in BackendPlaces
  /\ \A p \in Writers : pc[p] \in {"idle", "flushlock"} \cup FlushPlaces
  /\ \A p \in Droppers : pc[p] \in DropPlaces
  /\ want \in [Proc -> Tags \cup {None}] /\ old \in [Proc -> Tags \cup {None}]
  /\ buf \in [Proc -> 0 .. NBuffers]
  /\ recptr \in [Proc -> 0 .. MaxLSN]

(***************************************************************************)
(* No block is ever in two buffers: BufferAlloc may run for one block in   *)
(* several backends, and the partition lock and the collision test leave   *)
(* one of them the winner.                                                 *)
(***************************************************************************)
OneBufferPerBlock ==
  \A b, c \in Buf : tag[b] = tag[c] /\ tag[b] # None => b = c

(***************************************************************************)
(* Whoever may look into the mapping table finds there exactly the tags in *)
(* the headers.  Eviction and invalidation clear the header before they    *)
(* delete the entry and BufferAlloc makes the entry before it sets the     *)
(* header, each within one hold of the partition lock.                     *)
(***************************************************************************)
TableMatchesHeaders ==
  \A t \in Tags : mapX[PartitionOf[t]] = None =>
    \A b \in Buf : table[t] = b <=> tag[b] = t

(***************************************************************************)
(* A backend that was given a page by BufferAlloc and the read sees, until *)
(* it lets go of its pin, the block it asked for with the last update made *)
(* to it, however long ago and by whomever: neither eviction, nor a drop   *)
(* of another relation, nor a late read completion takes the page away.    *)
(***************************************************************************)
PinnedPageIsCurrent ==
  \A p \in Backends : pc[p] \in HoldPlaces =>
    LET b == buf[p] IN
      p \in pins[b] /\ tag[b] = want[p] /\ valid[b] /\ page[b].ver = latest[want[p]]

Covers(g, t) == g.ver = latest[t] /\ (hinted[t] => g.hint)

(***************************************************************************)
(* No change to a page is lost while its relation exists: it is on disk,   *)
(* or it is in a dirty buffer that will be written.  The hints reported to *)
(* MarkBufferDirtyHint are included, also those set during a write.        *)
(***************************************************************************)
NoLostUpdate ==
  \A t \in Tags : rel[t] = "live" =>
    \/ Covers(disk[t], t)
    \/ \E b \in Buf : tag[b] = t /\ valid[b] /\ dirty[b] /\ Covers(page[b], t)

(***************************************************************************)
(* The write-ahead rule: the log is on disk up to the LSN of every page in *)
(* the data files.  FlushBuffer reads the LSN some steps before it writes. *)
(***************************************************************************)
LogBeforeData == \A t \in Tags : disk[t].lsn <= flushed

(***************************************************************************)
(* Once DropRelationBuffers is done no buffer belongs to the dropped       *)
(* relation, or write-back would fail on a file that does not exist.       *)
(***************************************************************************)
DroppedIsGone ==
  \A t \in Tags : rel[t] = "gone" => \A b \in Buf : tag[b] # t
=============================================================================
