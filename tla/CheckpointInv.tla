--------------------------- MODULE CheckpointInv ---------------------------
(***************************************************************************)
(* Why recovery restores the page: the inductive invariant of Checkpoint.  *)
(*                                                                         *)
(* It rests on three ideas.  An image of the page always holds exactly the *)
(* logged changes up to its LSN (Holds).  Whoever may have to be repaired  *)
(* after a torn write finds a full-page image in the log between the redo  *)
(* pointer and what is flushed (Imaged).  And a backend that sets a hint   *)
(* bit without logging an image, because it saw an old redo pointer, keeps *)
(* the checkpoint that moved the pointer from looking at the buffer        *)
(* (Delays).                                                               *)
(***************************************************************************)
EXTENDS Checkpoint

HintSteps == {"hint_test", "hint_redo", "hint_lsn", "hint_copy", "hint_log",
              "hint_mark"}
Places == {"idle", "log_change"} \union HintSteps
CheckpointSteps == {"idle", "publish", "vxids", "delayed", "mark", "write",
                    "writing", "fsync", "record", "control"}
RecordTypes == {"change", "hint", "redo", "checkpoint"}

Pages == [kind : {"image"}, lsn : Nat, changes : Nat, hints : Nat]
Records == [type : RecordTypes, image : Pages \union {NoImage}]

TypeOK ==
  /\ page \in Pages \union {NoPage}
  /\ flags \in SUBSET {"dirty", "just_dirtied", "checkpoint_needed"}
  /\ pc \in [Backends -> Places]
  /\ cached \in [Backends -> [redo : Nat, doPageWrites : BOOLEAN]]
  /\ copied \in [Backends -> Pages \union {NoImage}]
  /\ hintLSN \in [Backends -> Nat]
  /\ delay \in SUBSET Backends
  /\ writer \in [Writers -> [step : {"idle", "io", "written"}, recptr : Nat]]
  /\ log \in Seq(Records) /\ flushed \in Nat
  /\ media \in Seq(Pages \union {Torn}) /\ media # <<>>
  /\ insertRedo \in Nat /\ infoRedo \in Nat
  /\ control \in [redo : Nat, loc : Nat]
  /\ ckpt \in [step : CheckpointSteps, redo : Nat, vxids : SUBSET Backends,
               recptr : Nat, shutdown : BOOLEAN]
  /\ startup \in {"up", "redo", "end"} /\ replayed \in Nat

-----------------------------------------------------------------------------
\* The logged changes among the first n records of l.
Changes(l, n) == Cardinality({i \in 1 .. n : l[i].type = "change"})

Logged == Changes(log, Len(log))

\* The image x holds the changes of l up to its LSN, which lies within l.
Holds(l, x) == x.lsn <= Len(l) /\ x.changes = Changes(l, x.lsn)

\* A full-page image in the records of l after r, up to n.
Imaged(l, r, n) == \E i \in r + 1 .. n : l[i].image # NoImage

\* The redo pointers that recovery may start from, now or after the
\* checkpoint in progress.
Redos == {control.redo, insertRedo}

\* An LSN after a redo pointer in R has a full-page image between them.
Backed(l, R, lsn) == \A r \in R : lsn > r => Imaged(l, r, lsn)

\* How far the log is flushed before the page is written.
Reach == Greater(flushed, page.lsn)

\* The checkpoint in progress will not look at the buffer before p is done.
Delays(p) ==
  \/ ckpt.step \in {"publish", "vxids"}
  \/ ckpt.step = "delayed" /\ p \in ckpt.vxids

-----------------------------------------------------------------------------
\* Who holds which lock and who is where.
PlacesInv ==
  /\ \A p, q \in Changing : p = q
  /\ Changing # {} => Hinting = {} /\ Flushing = {} /\ "dirty" \in flags
  /\ \A v, w \in Flushing : v = w
  /\ startup # "up" => \A p \in Backends : pc[p] = "idle"
  /\ page = NoPage => /\ flags = {} /\ Flushing = {}
                      /\ \A p \in Backends : pc[p] = "idle"
  /\ delay = {p \in Backends : pc[p] \in HintSteps \ {"hint_test"}}
  /\ (ckpt.step = "writing") <=> (writer["checkpointer"].step # "idle")
  /\ startup = "redo" => ckpt.step = "idle"

\* The order of the positions in the log.
PositionsInv ==
  /\ control.redo <= infoRedo /\ infoRedo <= insertRedo
  /\ insertRedo <= Len(log)
  /\ control.redo <= flushed /\ flushed <= Len(log)
  /\ ckpt.step # "publish" => infoRedo = insertRedo
  /\ ckpt.step # "idle" => ckpt.redo = insertRedo
  /\ ckpt.step = "control" => insertRedo <= flushed
  /\ startup = "redo" =>
       /\ flushed = Len(log) /\ insertRedo = control.redo
       /\ control.redo <= replayed /\ replayed <= Len(log)

\* Full-page images hold the changes up to their record, and the first record
\* after a redo pointer that concerns the page has one.
LogInv ==
  /\ \A i \in DOMAIN log :
       Restores(i) => log[i].image.changes = Changes(log, i)
  /\ \A r \in Redos : \A i \in r + 1 .. Len(log) :
       Reads(i) => Imaged(log, r, i - 1)

\* What has been written to the file, up to a crash at any moment.
MediaInv ==
  /\ \A i \in DOMAIN media : media[i] # Torn =>
       /\ Holds(log, media[i]) /\ media[i].lsn <= flushed
       /\ Changes(log, control.redo) <= media[i].changes
       /\ Backed(log, Redos, media[i].lsn)
  /\ (\E i, j \in DOMAIN media : media[i] = Torn \/ media[i] # media[j])
       => Imaged(log, control.redo, flushed)

\* The page in the buffer.
PageInv ==
  /\ page # NoPage =>
       /\ page.lsn <= Len(log) /\ Backed(log, Redos, page.lsn)
       /\ IF Changing = {} THEN Holds(log, page)
          ELSE page.changes = Changes(log, page.lsn) + 1
  /\ page # NoPage /\ "dirty" \notin flags =>
       /\ FileImage # Torn /\ FileImage.changes = page.changes
       /\ page.lsn <= flushed
  /\ "dirty" \in flags /\ Changing = {} => Imaged(log, control.redo, Reach)

\* Nothing is missing from the page; during redo, nothing up to replayed.
RecoveryInv ==
  /\ startup \in {"up", "end"} =>
       /\ Found # Torn
       /\ Found.changes = Logged + IF Changing = {} THEN 0 ELSE 1
  /\ startup = "redo" =>
       IF Found = Torn THEN ~Imaged(log, control.redo, replayed)
       ELSE Changes(log, replayed) <= Found.changes

\* Backends on their way through MarkBufferDirtyHint.
HintInv ==
  \A p \in Backends :
    /\ pc[p] = "hint_lsn" =>
         /\ control.redo <= cached[p].redo
         /\ insertRedo <= cached[p].redo \/ Delays(p)
    /\ pc[p] = "hint_log" =>
         /\ copied[p] \in Pages /\ copied[p].lsn <= Len(log)
         /\ copied[p].changes = Logged
         /\ Backed(log, Redos, copied[p].lsn)
    /\ pc[p] = "hint_mark" /\ hintLSN[p] = 0 =>
         /\ Imaged(log, control.redo, Reach)
         /\ Imaged(log, insertRedo, Reach) \/ Delays(p)
    /\ pc[p] = "hint_mark" /\ hintLSN[p] # 0 =>
         /\ hintLSN[p] <= Len(log) /\ control.redo < hintLSN[p]
         /\ insertRedo < hintLSN[p] \/ Delays(p)
         /\ Changes(log, hintLSN[p]) = Logged
         /\ Backed(log, Redos, hintLSN[p])
    /\ pc[p] # "hint_mark" => hintLSN[p] = 0

\* A write in progress.
WriteInv ==
  \A w \in Flushing :
    /\ "dirty" \in flags
    /\ writer[w].step = "io" => writer[w].recptr = page.lsn
    /\ writer[w].step = "written" =>
         /\ page.lsn <= flushed
         /\ FileImage # Torn /\ FileImage.changes = page.changes

\* What the checkpoint in progress has achieved.
Safe(l, r, x) == x # Torn /\ Changes(l, r) <= x.changes

ProgressInv ==
  /\ ckpt.step = "write" /\ "checkpoint_needed" \notin flags =>
       /\ "dirty" \in flags /\ Changing = {} => Imaged(log, insertRedo, Len(log))
       /\ Safe(log, insertRedo, FileImage)
  /\ ckpt.step = "writing" /\ "just_dirtied" \in flags =>
       Imaged(log, insertRedo, Len(log))
  /\ ckpt.step \in {"fsync", "record"} /\ "dirty" \in flags /\ Changing = {} =>
       Imaged(log, insertRedo, Len(log))
  /\ ckpt.step = "control" /\ "dirty" \in flags /\ Changing = {} =>
       Imaged(log, insertRedo, Reach)
  /\ ckpt.step = "fsync" => Safe(log, insertRedo, FileImage)
  /\ ckpt.step \in {"record", "control"} =>
       /\ \A i \in DOMAIN media : Safe(log, insertRedo, media[i])
       /\ (\E i, j \in DOMAIN media : media[i] # media[j]) =>
            Imaged(log, insertRedo, IF ckpt.step = "record" THEN Len(log) ELSE flushed)

IInv ==
  /\ TypeOK /\ PlacesInv /\ PositionsInv /\ LogInv /\ MediaInv /\ PageInv
  /\ RecoveryInv /\ HintInv /\ WriteInv /\ ProgressInv
=============================================================================
