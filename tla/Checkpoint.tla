---------------------------- MODULE Checkpoint ----------------------------
(***************************************************************************)
(* Torn pages, checkpoints and crash recovery, seen from one shared buffer *)
(* and the block behind it.                                                *)
(*                                                                         *)
(* Backends change the page in two ways.  A logged change (heap_insert is  *)
(* the pattern) holds the content lock exclusively, marks the buffer dirty *)
(* and only then inserts its record.  A hint-bit change holds a share lock *)
(* and goes through MarkBufferDirtyHint, which may have to log an image of *)
(* the page first.  The checkpointer (CreateCheckPoint, BufferSync) and    *)
(* the background writer write the page out; a crash loses shared memory,  *)
(* the unflushed end of the log, and any part of the writes that were not  *)
(* yet fsynced; the startup process replays the log from the redo pointer  *)
(* of the control file and ends with a checkpoint.                         *)
(*                                                                         *)
(* Positions in the log are numbers of records: record i starts at i - 1   *)
(* and ends at i, as StartPos and EndPos do, so that the LSN of a page is  *)
(* the index of its last record and a redo pointer r is followed by record *)
(* r + 1.  Data checksums are on (XLogHintBitIsNeeded), full_page_writes   *)
(* is on, and the relation is permanent.                                   *)
(***************************************************************************)
EXTENDS Integers, Sequences, FiniteSets

CONSTANTS
  Backends,        \* processes that change the page
  MaxUpdates,      \* bound: logged changes
  MaxHints,        \* bound: hint bits set
  MaxCheckpoints,  \* bound: online checkpoints begun
  MaxCrashes       \* bound: crashes

VARIABLES
  page,        \* the shared buffer: an image, or NoPage when not read yet
  flags,       \* BM_DIRTY, BM_JUST_DIRTIED, BM_CHECKPOINT_NEEDED
  pc,          \* what each backend is doing (implies its content lock)
  cached,      \* each backend's private RedoRecPtr and doPageWrites
  copied,      \* each backend's copied_buffer in XLogSaveBufferForHint
  hintLSN,     \* what XLogSaveBufferForHint returned (0: no record)
  delay,       \* backends with DELAY_CHKPT_START set
  writer,      \* each writer's progress through FlushBuffer, with its recptr
  log,         \* the write-ahead log, in memory
  flushed,     \* how much of it XLogFlush has made durable
  media,       \* images written to the file since its last fsync, in order
  insertRedo,  \* XLogCtl->Insert.RedoRecPtr, under the insertion locks
  infoRedo,    \* XLogCtl->RedoRecPtr, the copy under info_lck
  control,     \* the control file: redo pointer and end of the checkpoint
  ckpt,        \* the checkpoint in progress
  startup,     \* "up", or what the startup process does
  replayed,    \* the last record the startup process has applied
  spent        \* how much of each bound is used up

pageVars == <<page, flags>>
backendVars == <<pc, cached, copied, hintLSN, delay>>
logVars == <<log, flushed>>
redoVars == <<insertRedo, infoRedo>>
startVars == <<startup, replayed>>
vars == <<page, flags, pc, cached, copied, hintLSN, delay, writer, log, flushed,
          media, insertRedo, infoRedo, control, ckpt, startup, replayed, spent>>

Writers == {"bgwriter", "checkpointer"}

\* A page is told apart by its LSN, the logged changes it holds and the hint
\* bits set on it; the checksum makes any mixture of two images unreadable.
NoPage == [kind |-> "none"]
Torn == [kind |-> "torn"]
Image(lsn, changes, hints) ==
  [kind |-> "image", lsn |-> lsn, changes |-> changes, hints |-> hints]
NoImage == [kind |-> "no image"]

\* The image written to the file last.
FileImage == media[Len(media)]

Record(type, image) == [type |-> type, image |-> image]
Greater(m, n) == IF m >= n THEN m ELSE n

NoCheckpoint ==
  [step |-> "idle", redo |-> 0, vxids |-> {}, recptr |-> 0, shutdown |-> FALSE]
IdleWriter == [step |-> "idle", recptr |-> 0]
NothingCached == [redo |-> 0, doPageWrites |-> FALSE]

Init ==
  /\ page = Image(0, 0, 0) /\ flags = {}
  /\ pc = [p \in Backends |-> "idle"]
  /\ cached = [p \in Backends |-> NothingCached]
  /\ copied = [p \in Backends |-> NoImage]
  /\ hintLSN = [p \in Backends |-> 0]
  /\ delay = {}
  /\ writer = [w \in Writers |-> IdleWriter]
  /\ log = <<>> /\ flushed = 0
  /\ media = <<Image(0, 0, 0)>>
  /\ insertRedo = 0 /\ infoRedo = 0
  /\ control = [redo |-> 0, loc |-> 0]
  /\ ckpt = NoCheckpoint
  /\ startup = "up" /\ replayed = 0
  /\ spent = [updates |-> 0, hints |-> 0, checkpoints |-> 0, crashes |-> 0]

----------------------------------------------------------------------------
(* Content lock: exclusive for a logged change, share for hints and writes *)

Changing == {p \in Backends : pc[p] = "log_change"}
Hinting == {p \in Backends : pc[p] \notin {"idle", "log_change"}}
Flushing == {w \in Writers : writer[w].step # "idle"}
CanLockExclusive == Changing = {} /\ Hinting = {} /\ Flushing = {}
CanLockShare == Changing = {}

Goto(p, label) == pc' = [pc EXCEPT ![p] = label]
Spend(what) == spent' = [spent EXCEPT ![what] = @ + 1]

----------------------------------------------------------------------------
(* Inserting a log record                                                  *)

\* XLogRecordAssemble: does the registered page need a full-page image?  The
\* decision uses the private copies, which may be out of date.
NeedsBackup(p, registered) ==
  cached[p].doPageWrites /\ registered.lsn <= cached[p].redo

\* XLogInsertRecord, under an insertion lock: the private copies were stale
\* and the record lacks an image it must have, so XLogInsert starts over.
MustReassemble(p, registered) ==
  \/ ~cached[p].doPageWrites
  \/ ~NeedsBackup(p, registered) /\ registered.lsn <= insertRedo

RefreshCached(p) ==
  cached' = [cached EXCEPT ![p] = [redo |-> insertRedo, doPageWrites |-> TRUE]]

\* XLogInsertRecord for a record without block references.
InsertPlain(type) == log' = Append(log, Record(type, NoImage))

----------------------------------------------------------------------------
(* A logged change: lock, change, MarkBufferDirty, XLogInsert, PageSetLSN  *)

MarkBufferDirty == flags' = flags \union {"dirty", "just_dirtied"}

ChangePage(p) ==
  /\ startup = "up" /\ page # NoPage
  /\ pc[p] = "idle" /\ CanLockExclusive
  /\ spent.updates < MaxUpdates /\ Spend("updates")
  /\ page' = [page EXCEPT !.changes = @ + 1]
  /\ MarkBufferDirty
  /\ Goto(p, "log_change")
  /\ UNCHANGED <<cached, copied, hintLSN, delay, writer, logVars, media,
                 redoVars, control, ckpt, startVars>>

\* The record carries an image of the page as changed, or only the change.
LogChange(p) ==
  /\ pc[p] = "log_change"
  /\ RefreshCached(p)
  /\ IF MustReassemble(p, page)
     THEN UNCHANGED <<page, pc, log>>
     ELSE /\ log' = Append(log, Record("change",
                             IF NeedsBackup(p, page) THEN page ELSE NoImage))
          /\ page' = [page EXCEPT !.lsn = Len(log')]
          /\ Goto(p, "idle")
  /\ UNCHANGED <<flags, copied, hintLSN, delay, writer, flushed, media,
                 redoVars, control, ckpt, startVars, spent>>

----------------------------------------------------------------------------
(* A hint bit: set under a share lock, then MarkBufferDirtyHint            *)

\* The bit changes before MarkBufferDirtyHint looks at the buffer's state.
SetHintBit(p) ==
  /\ startup = "up" /\ page # NoPage
  /\ pc[p] = "idle" /\ CanLockShare
  /\ spent.hints < MaxHints /\ Spend("hints")
  /\ page' = [page EXCEPT !.hints = @ + 1]
  /\ Goto(p, "hint_test")
  /\ UNCHANGED <<flags, cached, copied, hintLSN, delay, writer, logVars, media,
                 redoVars, control, ckpt, startVars>>

\* The unlocked test of the flags; a buffer that needs marking delays
\* the start of checkpoints from here on.
HintTest(p) ==
  /\ pc[p] = "hint_test"
  /\ IF {"dirty", "just_dirtied"} \subseteq flags
     THEN Goto(p, "idle") /\ UNCHANGED delay
     ELSE Goto(p, "hint_redo") /\ delay' = delay \union {p}
  /\ UNCHANGED <<pageVars, cached, copied, hintLSN, writer, logVars, media,
                 redoVars, control, ckpt, startVars, spent>>

\* GetRedoRecPtr reads the copy under info_lck, which may lag behind.
HintGetRedo(p) ==
  /\ pc[p] = "hint_redo"
  /\ cached' = [cached EXCEPT ![p].redo = Greater(@, infoRedo)]
  /\ Goto(p, "hint_lsn")
  /\ UNCHANGED <<pageVars, copied, hintLSN, delay, writer, logVars, media,
                 redoVars, control, ckpt, startVars, spent>>

\* BufferGetLSNAtomic, and the test against the redo pointer.
HintGetLSN(p) ==
  /\ pc[p] = "hint_lsn"
  /\ Goto(p, IF page.lsn <= cached[p].redo THEN "hint_copy" ELSE "hint_mark")
  /\ UNCHANGED <<pageVars, cached, copied, hintLSN, delay, writer, logVars,
                 media, redoVars, control, ckpt, startVars, spent>>

HintCopy(p) ==
  /\ pc[p] = "hint_copy"
  /\ copied' = [copied EXCEPT ![p] = page]
  /\ Goto(p, "hint_log")
  /\ UNCHANGED <<pageVars, cached, hintLSN, delay, writer, logVars, media,
                 redoVars, control, ckpt, startVars, spent>>

\* XLogInsert(XLOG_FPI_FOR_HINT), the copied page registered.
HintLog(p) ==
  /\ pc[p] = "hint_log"
  /\ RefreshCached(p)
  /\ IF MustReassemble(p, copied[p])
     THEN UNCHANGED <<pc, copied, hintLSN, log>>
     ELSE /\ log' = Append(log, Record("hint",
                IF NeedsBackup(p, copied[p]) THEN copied[p] ELSE NoImage))
          /\ hintLSN' = [hintLSN EXCEPT ![p] = Len(log')]
          /\ copied' = [copied EXCEPT ![p] = NoImage]
          /\ Goto(p, "hint_mark")
  /\ UNCHANGED <<pageVars, delay, writer, flushed, media, redoVars, control,
                 ckpt, startVars, spent>>

\* Mutant: the checkpoint is delayed on after the buffer has been marked.
HintMarkDelaying(p) ==
  /\ pc[p] = "hint_mark"
  /\ page' = IF "dirty" \notin flags /\ hintLSN[p] # 0
               THEN [page EXCEPT !.lsn = hintLSN[p]] ELSE page
  /\ MarkBufferDirty
  /\ hintLSN' = [hintLSN EXCEPT ![p] = 0]
  /\ Goto(p, "idle")
  /\ UNCHANGED <<delay, cached, copied, writer, logVars, media, redoVars,
                 control, ckpt, startVars, spent>>

\* Under the header lock: the LSN only if the buffer was clean; then the
\* flags; then checkpoints may start again and the content lock goes.
HintMark(p) ==
  /\ pc[p] = "hint_mark"
  /\ page' = IF "dirty" \notin flags /\ hintLSN[p] # 0
               THEN [page EXCEPT !.lsn = hintLSN[p]] ELSE page
  /\ MarkBufferDirty
  /\ hintLSN' = [hintLSN EXCEPT ![p] = 0]
  /\ delay' = delay \ {p}
  /\ Goto(p, "idle")
  /\ UNCHANGED <<cached, copied, writer, logVars, media, redoVars, control,
                 ckpt, startVars, spent>>

----------------------------------------------------------------------------
(* FlushBuffer, by the background writer and by the checkpointer           *)

\* Share lock, StartBufferIO, read the LSN, clear BM_JUST_DIRTIED.
FlushStart(w) ==
  /\ "dirty" \in flags /\ CanLockShare /\ Flushing = {}
  /\ writer' = [writer EXCEPT ![w] = [step |-> "io", recptr |-> page.lsn]]
  /\ flags' = flags \ {"just_dirtied"}

\* XLogFlush; then the page is copied for its checksum and handed to the
\* kernel, which may bring any part of it to the disk from here on.
FlushWrite(w) ==
  /\ writer[w].step = "io"
  /\ flushed' = Greater(flushed, writer[w].recptr)
  /\ media' = Append(media, page)
  /\ writer' = [writer EXCEPT ![w].step = "written"]
  /\ UNCHANGED <<pageVars, backendVars, log, redoVars, control, ckpt, startVars,
                 spent>>

\* TerminateBufferIO: clean, unless the buffer was dirtied again meanwhile.
FlushDone(w) ==
  /\ writer[w].step = "written"
  /\ flags' = IF "just_dirtied" \in flags
                THEN flags ELSE flags \ {"dirty", "checkpoint_needed"}
  /\ writer' = [writer EXCEPT ![w] = IdleWriter]
  /\ ckpt' = IF w = "checkpointer" THEN [ckpt EXCEPT !.step = "fsync"] ELSE ckpt
  /\ UNCHANGED <<page, backendVars, logVars, media, redoVars, control,
                 startVars, spent>>

\* SyncOneBuffer of the background writer, which also runs during recovery.
BgWrite ==
  /\ page # NoPage
  /\ writer["bgwriter"].step = "idle"
  /\ FlushStart("bgwriter")
  /\ UNCHANGED <<page, backendVars, logVars, media, redoVars, control, ckpt,
                 startVars, spent>>

----------------------------------------------------------------------------
(* CreateCheckPoint                                                        *)

\* An online checkpoint, unless nothing was logged since the last one: the
\* XLOG_CHECKPOINT_REDO record starts at the new redo pointer, which is set
\* under all the insertion locks.
BeginCheckpoint ==
  /\ startup = "up" /\ ckpt.step = "idle"
  /\ Len(log) # control.loc
  /\ spent.checkpoints < MaxCheckpoints /\ Spend("checkpoints")
  /\ InsertPlain("redo")
  /\ insertRedo' = Len(log)
  /\ ckpt' = [ckpt EXCEPT !.step = "publish", !.redo = Len(log)]
  /\ UNCHANGED <<pageVars, backendVars, writer, flushed, media, infoRedo,
                 control, startVars>>

\* The end-of-recovery checkpoint: its own record will be the redo point.
BeginEndOfRecovery ==
  /\ startup = "end" /\ ckpt.step = "idle"
  /\ insertRedo' = Len(log)
  /\ ckpt' = [ckpt EXCEPT !.step = "publish", !.redo = Len(log), !.shutdown = TRUE]
  /\ UNCHANGED <<pageVars, backendVars, writer, logVars, media, infoRedo,
                 control, startVars, spent>>

PublishRedo ==
  /\ ckpt.step = "publish"
  /\ infoRedo' = ckpt.redo
  /\ ckpt' = [ckpt EXCEPT !.step = "vxids"]
  /\ UNCHANGED <<pageVars, backendVars, writer, logVars, media, insertRedo,
                 control, startVars, spent>>

\* GetVirtualXIDsDelayingChkpt(DELAY_CHKPT_START).
CollectDelaying ==
  /\ ckpt.step = "vxids"
  /\ ckpt' = [ckpt EXCEPT !.step = "delayed", !.vxids = delay]
  /\ UNCHANGED <<pageVars, backendVars, writer, logVars, media, redoVars,
                 control, startVars, spent>>

\* HaveVirtualXIDsDelayingChkpt: sleep while one of them still delays.
SleepDelaying ==
  /\ ckpt.step = "delayed" /\ ckpt.vxids \cap delay # {}
  /\ UNCHANGED vars

\* Mutant: the buffers are looked at without waiting for anybody.
StartAtOnce ==
  /\ ckpt.step = "delayed"
  /\ ckpt' = [ckpt EXCEPT !.step = "mark", !.vxids = {}]
  /\ UNCHANGED <<pageVars, backendVars, writer, logVars, media, redoVars,
                 control, startVars, spent>>

\* None of them delays any more.
WaitDelaying ==
  /\ ckpt.step = "delayed" /\ ckpt.vxids \cap delay = {}
  /\ ckpt' = [ckpt EXCEPT !.step = "mark", !.vxids = {}]
  /\ UNCHANGED <<pageVars, backendVars, writer, logVars, media, redoVars,
                 control, startVars, spent>>

\* BufferSync, first loop: BM_CHECKPOINT_NEEDED on what is dirty now.
MarkNeeded ==
  /\ ckpt.step = "mark"
  /\ flags' = IF "dirty" \in flags THEN flags \union {"checkpoint_needed"} ELSE flags
  /\ ckpt' = [ckpt EXCEPT !.step = "write"]
  /\ UNCHANGED <<page, backendVars, writer, logVars, media, redoVars, control,
                 startVars, spent>>

\* BufferSync, second loop: write it, unless somebody else already has.
WriteNeeded ==
  /\ ckpt.step = "write"
  /\ IF "checkpoint_needed" \in flags
     THEN FlushStart("checkpointer") /\ ckpt' = [ckpt EXCEPT !.step = "writing"]
     ELSE ckpt' = [ckpt EXCEPT !.step = "fsync"] /\ UNCHANGED <<flags, writer>>
  /\ UNCHANGED <<page, backendVars, logVars, media, redoVars, control,
                 startVars, spent>>

\* ProcessSyncRequests: what was written so far is on the disk, whole.
SyncFiles ==
  /\ ckpt.step = "fsync"
  /\ media' = <<FileImage>>
  /\ ckpt' = [ckpt EXCEPT !.step = "record"]
  /\ UNCHANGED <<pageVars, backendVars, writer, logVars, redoVars, control,
                 startVars, spent>>

\* The checkpoint record, and XLogFlush up to its end.
InsertCheckpoint ==
  /\ ckpt.step = "record"
  /\ InsertPlain("checkpoint")
  /\ flushed' = Len(log')
  /\ ckpt' = [ckpt EXCEPT !.step = "control", !.recptr = Len(log')]
  /\ UNCHANGED <<pageVars, backendVars, writer, media, redoVars, control,
                 startVars, spent>>

\* UpdateControlFile; after the end-of-recovery checkpoint, open for business.
UpdateControl ==
  /\ ckpt.step = "control"
  /\ control' = [redo |-> ckpt.redo, loc |-> ckpt.recptr]
  /\ ckpt' = NoCheckpoint
  /\ startup' = "up"
  /\ UNCHANGED <<pageVars, backendVars, writer, logVars, media, redoVars,
                 replayed, spent>>

----------------------------------------------------------------------------
(* A crash, and recovery by the startup process                            *)

\* Memory is gone.  Of the log some prefix survives that holds what was
\* flushed; each half of the block is from some write since the last fsync.
Crash ==
  /\ startup # "failed"
  /\ spent.crashes < MaxCrashes /\ Spend("crashes")
  /\ \E n \in flushed .. Len(log) : log' = SubSeq(log, 1, n) /\ flushed' = n
  /\ \E a, b \in {media[i] : i \in DOMAIN media} :
       media' = <<IF a = b THEN a ELSE Torn>>
  /\ page' = NoPage /\ flags' = {}
  /\ pc' = [p \in Backends |-> "idle"]
  /\ cached' = [p \in Backends |-> NothingCached]
  /\ copied' = [p \in Backends |-> NoImage]
  /\ hintLSN' = [p \in Backends |-> 0]
  /\ delay' = {}
  /\ writer' = [w \in Writers |-> IdleWriter]
  /\ insertRedo' = control.redo /\ infoRedo' = control.redo
  /\ ckpt' = NoCheckpoint
  /\ startup' = "redo" /\ replayed' = control.redo
  /\ UNCHANGED control

\* The page as redo finds it: in the buffer, or read from the file.
Found == IF page = NoPage THEN FileImage ELSE page

\* XLogReadBufferForRedo restores an image without reading the page; without
\* one the page is read, and a change newer than its LSN is applied.
Restores(i) == log[i].image # NoImage
Reads(i) == log[i].image = NoImage /\ log[i].type = "change"

Redone(i) ==
  CASE Restores(i) -> [log[i].image EXCEPT !.lsn = i]
    [] Reads(i) /\ Found # Torn /\ i > Found.lsn ->
         [Found EXCEPT !.lsn = i, !.changes = @ + 1]
    [] OTHER -> Found

\* Redo of a record that refers to the page, under an exclusive lock; a page
\* that fails verification when it is read ends recovery.
RedoPage(i) ==
  /\ Flushing = {}
  /\ IF Redone(i) = Torn
     THEN startup' = "failed" /\ UNCHANGED <<page, flags, replayed>>
     ELSE /\ page' = Redone(i)
          /\ IF Restores(i) \/ i > Found.lsn THEN MarkBufferDirty
                                             ELSE UNCHANGED flags
          /\ replayed' = i
          /\ UNCHANGED startup

RedoRecord ==
  LET i == replayed + 1 IN
  /\ startup = "redo" /\ i <= Len(log)
  /\ IF Restores(i) \/ Reads(i)
     THEN RedoPage(i)
     ELSE replayed' = i /\ UNCHANGED <<page, flags, startup>>
  /\ UNCHANGED <<backendVars, writer, logVars, media, redoVars, control, ckpt,
                 spent>>

RedoDone ==
  /\ startup = "redo" /\ replayed = Len(log)
  /\ startup' = "end"
  /\ UNCHANGED <<pageVars, backendVars, writer, logVars, media, redoVars,
                 control, ckpt, replayed, spent>>

\* The first access to the block after recovery that left it alone.
ReadBuffer ==
  /\ startup = "up" /\ page = NoPage
  /\ IF FileImage = Torn THEN startup' = "failed" /\ UNCHANGED page
                           ELSE page' = FileImage /\ UNCHANGED startup
  /\ UNCHANGED <<flags, backendVars, writer, logVars, media, redoVars, control,
                 ckpt, replayed, spent>>

----------------------------------------------------------------------------

BackendGoesOn(p) ==
  LogChange(p) \/ HintTest(p) \/ HintGetRedo(p) \/ HintGetLSN(p)
    \/ HintCopy(p) \/ HintLog(p) \/ HintMark(p)

WriterGoesOn(w) == FlushWrite(w) \/ FlushDone(w)

CheckpointerGoesOn ==
  PublishRedo \/ CollectDelaying \/ WaitDelaying \/ MarkNeeded \/ WriteNeeded
    \/ SyncFiles \/ InsertCheckpoint \/ UpdateControl

StartupGoesOn == RedoRecord \/ RedoDone \/ BeginEndOfRecovery

Next ==
  \/ \E p \in Backends : ChangePage(p) \/ SetHintBit(p) \/ BackendGoesOn(p)
  \/ BgWrite \/ (\E w \in Writers : WriterGoesOn(w))
  \/ BeginCheckpoint \/ CheckpointerGoesOn \/ SleepDelaying
  \/ Crash \/ StartupGoesOn \/ ReadBuffer

\* Nobody has to begin anything, and the bounds stop what could go on for
\* ever; what a process has begun it carries through while the server runs.
Fairness ==
  /\ \A p \in Backends : WF_vars(BackendGoesOn(p))
  /\ \A w \in Writers : WF_vars(WriterGoesOn(w))
  /\ WF_vars(CheckpointerGoesOn)
  /\ WF_vars(StartupGoesOn)

Spec == Init /\ [][Next]_vars
FairSpec == Spec /\ Fairness

----------------------------------------------------------------------------
(* Properties                                                              *)

LoggedChanges == Cardinality({i \in DOMAIN log : log[i].type = "change"})

\* Whatever the moment of the crash, and of further crashes during recovery,
\* redo never needs a page that a write left torn, and when it is done the
\* block is readable and holds exactly the logged changes that survived in
\* the log: the full-page images that XLogInsert and MarkBufferDirtyHint
\* decide on, and the flushing order of CreateCheckPoint, suffice.
RecoveryRestores ==
  /\ startup # "failed"
  /\ startup = "end" =>
       Found # Torn /\ Found.changes = LoggedChanges

\* A checkpoint that has begun, and a recovery, come to their end: the wait
\* for backends that delay the checkpoint, for the content lock and for the
\* other writer's I/O are all over some time.
CheckpointCompletes ==
  (ckpt.step # "idle" \/ startup # "up") ~> (ckpt.step = "idle" /\ startup = "up")
=============================================================================
