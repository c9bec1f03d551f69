--------------------------- MODULE BufferPoolInv ----------------------------
(***************************************************************************)
(* The inductive invariant of the buffer pool, part by part.               *)
(***************************************************************************)
EXTENDS BufferPool

(***************************************************************************)
(* The type invariant in parts, so that a step uses only what it needs.    *)
(***************************************************************************)
HeaderOK ==
  /\ tag \in [Buf -> Tags \cup {None}]
  /\ valid \in [Buf -> BOOLEAN] /\ dirty \in [Buf -> BOOLEAN]
  /\ justDirtied \in [Buf -> BOOLEAN]
  /\ io \in [Buf -> Proc \cup {None}]
  /\ pins \in [Buf -> SUBSET (Proc \cup {Aio})]

ContentOK ==
  /\ page \in [Buf -> Page]
  /\ lockX \in [Buf -> Proc \cup {None}] /\ lockS \in [Buf -> SUBSET Proc]

MappingOK ==
  /\ table \in [Tags -> Buf \cup {None}]
  /\ mapX \in [Partitions -> Proc \cup {None}] /\ mapS \in [Partitions -> SUBSET Proc]

StoreOK ==
  /\ disk \in [Tags -> Page]
  /\ insert \in 0 .. MaxLSN /\ flushed \in 0 .. MaxLSN
  /\ rel \in [Tags -> {"live", "dropping", "gone"}]
  /\ latest \in [Tags -> 0 .. MaxLSN] /\ hinted \in [Tags -> BOOLEAN]

Places == BackendPlaces \cup DropPlaces \cup {"flushlock"}

PlacesOK ==
  /\ pc \in [Proc -> Places]
  /\ \A p \in Backends : pc[p] \in BackendPlaces
  /\ \A p \in Writers : pc[p] \in {"idle", "flushlock"} \cup FlushPlaces
  /\ \A p \in Droppers : pc[p] \in DropPlaces

LocalOK ==
  /\ want \in [Proc -> Tags \cup {None}] /\ old \in [Proc -> Tags \cup {None}]
  /\ buf \in [Proc -> 0 .. NBuffers]
  /\ recptr \in [Proc -> 0 .. MaxLSN]

(***************************************************************************)
(* The inductive invariant.  What a process knows of its buffer depends on *)
(* where it is: a new victim without identity is its own, a page that is   *)
(* being written back or is about to be evicted has an identity, and a     *)
(* page that is read or used has the identity it asked for.                *)
(***************************************************************************)
OwnPlaces == {"delete", "insert", "settag", "collision"}

VictimPlaces == {"flush", "flushlock", "evict", "recheck"} \cup FlushPlaces

ReadPlaces == {"read", "reading", "failed"}

PinPlaces == OwnPlaces \cup VictimPlaces \cup ReadPlaces \cup HoldPlaces

PinHolds(p) ==
  /\ pc[p] \in PinPlaces => buf[p] \in Buf /\ p \in pins[buf[p]]
  /\ pc[p] \in OwnPlaces => tag[buf[p]] = None /\ pins[buf[p]] = {p}
  /\ pc[p] \in VictimPlaces => tag[buf[p]] # None
  /\ pc[p] = "recheck" => tag[buf[p]] = old[p]
  /\ pc[p] \in ReadPlaces \cup HoldPlaces => tag[buf[p]] = want[p]
  /\ pc[p] \in HoldPlaces => valid[buf[p]]

PinsHold == \A p \in Proc : PinHolds(p)

WantsBlock ==
  /\ \A p \in Backends : pc[p] # "idle" => want[p] \in Tags
  /\ \A p \in Droppers : pc[p] # "idle" => want[p] \in Tags
  /\ \A p \in Droppers : pc[p] \notin {"idle", "scan"} => buf[p] \in Buf

HeadersSound ==
  \A b \in Buf :
    /\ dirty[b] => valid[b]
    /\ valid[b] => tag[b] # None
    /\ Aio \in pins[b] => ~valid[b] /\ io[b] # None /\ tag[b] # None

(***************************************************************************)
(* Partition locks, and the two-step changes of header and table made      *)
(* under them.                                                             *)
(***************************************************************************)
HoldsPartition(p, t) ==
  \/ pc[p] \in {"recheck", "delete"} /\ old[p] = t
  \/ pc[p] \in {"settag", "collision", "dropcheck", "dropdelete"} /\ want[p] = t

Changing(p, t) ==
  \/ pc[p] = "delete" /\ old[p] = t
  \/ pc[p] \in {"settag", "dropdelete"} /\ want[p] = t

PartitionsLocked ==
  /\ \A p \in Proc, t \in Tags : HoldsPartition(p, t) => mapX[PartitionOf[t]] = p
  /\ \A k \in Partitions : mapX[k] = None \/ mapS[k] = {}
  /\ \A p \in Proc : pc[p] \in {"recheck", "delete"} => old[p] \in Tags
  /\ \A p \in Proc : pc[p] = "found" => p \in mapS[PartitionOf[want[p]]]

Agree(t) == \A b \in Buf : table[t] = b <=> tag[b] = t

TableSound ==
  /\ \A t \in Tags : Agree(t) \/ \E p \in Proc : Changing(p, t)
  /\ \A p \in Proc, t \in Tags : Changing(p, t) => \A b \in Buf : tag[b] # t
  /\ \A p \in Proc : pc[p] \in {"found", "settag"} => table[want[p]] = buf[p] /\ buf[p] \in Buf
  /\ \A p \in Proc : pc[p] = "collision" => table[want[p]] # None

LocksHeld ==
  /\ \A b \in Buf : lockX[b] = None \/ lockS[b] = {}
  /\ \A p \in Proc :
       /\ pc[p] = "locked" => lockX[buf[p]] = p
       /\ pc[p] \in FlushPlaces \cup {"shared", "hint", "markhint"} => p \in lockS[buf[p]]

WritePlaces == {"readlsn", "xlogflush", "write", "written"}

WritesSafe ==
  \A p \in Proc :
    /\ pc[p] \in WritePlaces => io[buf[p]] = p /\ dirty[buf[p]]
    /\ pc[p] = "xlogflush" => page[buf[p]].lsn <= recptr[p]
    /\ pc[p] = "write" => page[buf[p]].lsn <= flushed

Live(t) == t # None /\ rel[t] = "live"

PagesSound ==
  /\ \A b \in Buf : valid[b] /\ Live(tag[b]) => Covers(page[b], tag[b])
  /\ \A p \in Proc :
       /\ pc[p] \in {"hint", "markhint"} => page[buf[p]].hint
       /\ pc[p] = "written" /\ ~justDirtied[buf[p]] /\ Live(tag[buf[p]])
            => Covers(disk[tag[buf[p]]], tag[buf[p]])

DropsSound ==
  /\ \A p \in Backends : want[p] # None => rel[want[p]] = "live"
  /\ \A p \in Droppers : pc[p] # "idle" =>
       /\ rel[want[p]] # "live"
       /\ \A b \in Buf : b < buf[p] => tag[b] # want[p]

PoolInv ==
  /\ HeaderOK /\ ContentOK /\ MappingOK /\ StoreOK /\ PlacesOK /\ LocalOK
  /\ PinsHold /\ WantsBlock /\ HeadersSound
  /\ PartitionsLocked /\ TableSound /\ LocksHeld /\ WritesSafe /\ PagesSound
  /\ DropsSound /\ LogBeforeData /\ NoLostUpdate /\ DroppedIsGone

(***************************************************************************)
(* What the steps leave alone.  A process changes its own place only.      *)
(***************************************************************************)
Moves(p) ==
  \A q \in Proc \ {p} :
    /\ pc'[q] = pc[q] /\ want'[q] = want[q] /\ old'[q] = old[q]
    /\ buf'[q] = buf[q] /\ recptr'[q] = recptr[q]

\* Nobody's pins but p's change.
OwnPin(p) == \A b \in Buf : pins'[b] \ {p} = pins[b] \ {p}

TablePlaces == {"found", "delete", "settag", "collision", "dropdelete"}

(***************************************************************************)
(* Content locks and writes.                                               *)
(***************************************************************************)
SharePlaces == FlushPlaces \cup {"shared", "hint", "markhint"}

\* Whether the relation of t is live after the step.
LiveNext(t) == t # None /\ rel'[t] = "live"
=============================================================================
