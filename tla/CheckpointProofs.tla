-------------------------- MODULE CheckpointProofs --------------------------
(***************************************************************************)
(* Recovery restores the page, for any number of backends, changes, hints, *)
(* checkpoints and crashes: IInv of CheckpointInv is inductive.            *)
(***************************************************************************)
EXTENDS CheckpointInv, FiniteSetTheorems, TLAPS

USE SMTT(60)

-----------------------------------------------------------------------------
(* The logged changes among the first n records                            *)

(***************************************************************************)
(* The logged changes up to a position are finitely many.                  *)
(***************************************************************************)
LEMMA ChangesFinite ==
  ASSUME NEW l, NEW n \in Nat
  PROVE  IsFiniteSet({i \in 1 .. n : l[i].type = "change"})
<1>1. IsFiniteSet(1 .. n)
  BY FS_Interval
<1>2. {i \in 1 .. n : l[i].type = "change"} \subseteq 1 .. n
  BY Zenon
<1> QED
  BY <1>1, <1>2, FS_Subset, Zenon

(***************************************************************************)
(* How many changes a log holds up to a position is a number.              *)
(***************************************************************************)
LEMMA ChangesType ==
  ASSUME NEW l, NEW n \in Nat
  PROVE  Changes(l, n) \in Nat
  BY ChangesFinite, FS_CardinalityType, Zenon DEF Changes

(***************************************************************************)
(* A longer stretch of the log holds no fewer changes.                     *)
(***************************************************************************)
LEMMA ChangesMonotonic ==
  ASSUME NEW l, NEW m \in Nat, NEW n \in Nat, m <= n
  PROVE  Changes(l, m) <= Changes(l, n)
<1> DEFINE S(k) == {i \in 1 .. k : l[i].type = "change"}
<1>1. S(m) \subseteq S(n)
  OBVIOUS
<1>2. IsFiniteSet(S(n))
  BY ChangesFinite, Zenon
<1> HIDE DEF S
<1>3. Cardinality(S(m)) <= Cardinality(S(n))
  BY <1>1, <1>2, FS_Subset, Zenon
<1> QED
  BY <1>3, Zenon DEF Changes, S

(***************************************************************************)
(* One record more adds one change, or none.                               *)
(***************************************************************************)
LEMMA ChangesNext ==
  ASSUME NEW l, NEW n \in Nat
  PROVE  Changes(l, n + 1) =
           Changes(l, n) + IF l[n + 1].type = "change" THEN 1 ELSE 0
<1> DEFINE S(k) == {i \in 1 .. k : l[i].type = "change"}
<1>1. n + 1 \notin S(n)
  OBVIOUS
<1>2. IsFiniteSet(S(n))
  BY ChangesFinite, Zenon
<1>3. CASE l[n + 1].type = "change"
  <2>1. S(n + 1) = S(n) \union {n + 1}
    BY <1>3
  <2> HIDE DEF S
  <2>2. Cardinality(S(n + 1)) = Cardinality(S(n)) + 1
    BY <1>1, <1>2, <2>1, FS_AddElement, Zenon
  <2> QED
    BY <1>3, <2>2, Zenon DEF Changes, S
<1>4. CASE l[n + 1].type # "change"
  <2>1. S(n + 1) = S(n)
    BY <1>4
  <2>2. Changes(l, n + 1) = Changes(l, n)
    BY <2>1, Zenon DEF Changes
  <2> QED
    BY <1>4, <2>2, ChangesType
<1> QED
  BY <1>3, <1>4, Zenon

(***************************************************************************)
(* A full-page image after one redo pointer is one after every older       *)
(* pointer, and for every longer log.                                      *)
(***************************************************************************)
LEMMA ImagedMonotonic ==
  ASSUME NEW l, NEW q \in Nat, NEW r \in Nat, NEW m \in Nat, NEW n \in Nat,
         q <= r, m <= n, Imaged(l, r, m)
  PROVE  Imaged(l, q, n)
  BY DEF Imaged

(***************************************************************************)
(* A redo pointer at the end of the log has no image after it.             *)
(***************************************************************************)
LEMMA NothingImaged ==
  ASSUME NEW l, NEW r \in Nat
  PROVE  ~Imaged(l, r, r)
  BY DEF Imaged

(***************************************************************************)
(* Changes and images depend only on the records they are counted in.      *)
(***************************************************************************)
LEMMA SamePrefix ==
  ASSUME NEW k, NEW l, NEW m \in Nat, \A i \in 1 .. m : k[i] = l[i]
  PROVE  /\ \A n \in 0 .. m : Changes(k, n) = Changes(l, n)
         /\ \A r \in Nat, n \in 0 .. m : Imaged(k, r, n) <=> Imaged(l, r, n)
<1>1. ASSUME NEW n \in 0 .. m
      PROVE  Changes(k, n) = Changes(l, n)
  <2>1. \A i \in 1 .. n : k[i] = l[i]
    OBVIOUS
  <2>2. {i \in 1 .. n : k[i].type = "change"} = {i \in 1 .. n : l[i].type = "change"}
    BY <2>1, Zenon
  <2> QED
    BY <2>2, Zenon DEF Changes
<1>2. ASSUME NEW r \in Nat, NEW n \in 0 .. m
      PROVE  Imaged(k, r, n) <=> Imaged(l, r, n)
  BY DEF Imaged
<1> QED
  BY <1>1, <1>2, Zenon

(***************************************************************************)
(* The changes a durable log must restore are those counted by Logged.     *)
(***************************************************************************)
LEMMA LoggedChangesAll ==
  ASSUME log \in Seq(Records)
  PROVE  LoggedChanges = Logged
<1>1. DOMAIN log = 1 .. Len(log)
  OBVIOUS
<1> QED
  BY <1>1, Zenon DEF LoggedChanges, Logged, Changes

(***************************************************************************)
(* What the log says of its earlier records when one is added, and when a  *)
(* crash cuts its end off.                                                 *)
(***************************************************************************)
LEMMA Appended ==
  ASSUME log \in Seq(Records), NEW e \in Records, log' = Append(log, e)
  PROVE  /\ log' \in Seq(Records) /\ Len(log') = Len(log) + 1
         /\ \A i \in 1 .. Len(log) : log'[i] = log[i]
         /\ log'[Len(log) + 1] = e
         /\ \A n \in 0 .. Len(log) : Changes(log', n) = Changes(log, n)
         /\ \A r \in Nat, n \in 0 .. Len(log) :
              Imaged(log', r, n) <=> Imaged(log, r, n)
         /\ Logged' = Logged + IF e.type = "change" THEN 1 ELSE 0
         /\ e.image # NoImage => \A r \in 0 .. Len(log) : Imaged(log', r, Len(log'))
<1>1. /\ log' \in Seq(Records) /\ Len(log') = Len(log) + 1 /\ Len(log) \in Nat
      /\ \A i \in 1 .. Len(log) : log'[i] = log[i]
      /\ log'[Len(log) + 1] = e
  OBVIOUS
<1>2. /\ \A n \in 0 .. Len(log) : Changes(log', n) = Changes(log, n)
      /\ \A r \in Nat, n \in 0 .. Len(log) : Imaged(log', r, n) <=> Imaged(log, r, n)
  BY <1>1, SamePrefix, Zenon
<1>3. Changes(log', Len(log) + 1) =
        Changes(log', Len(log)) + IF e.type = "change" THEN 1 ELSE 0
  BY <1>1, ChangesNext, ZenonT(60)
<1>4. Logged' = Logged + IF e.type = "change" THEN 1 ELSE 0
  BY <1>1, <1>2, <1>3 DEF Logged
<1>5. e.image # NoImage => \A r \in 0 .. Len(log) : Imaged(log', r, Len(log'))
  BY <1>1 DEF Imaged
<1> QED
  BY <1>1, <1>2, <1>4, <1>5, Zenon

(***************************************************************************)
(* A crash that cuts the log off changes nothing in front of the cut.      *)
(***************************************************************************)
LEMMA Truncated ==
  ASSUME log \in Seq(Records), NEW m \in 0 .. Len(log), log' = SubSeq(log, 1, m)
  PROVE  /\ log' \in Seq(Records) /\ Len(log') = m
         /\ \A i \in 1 .. m : log'[i] = log[i]
         /\ \A n \in 0 .. m : Changes(log', n) = Changes(log, n)
         /\ \A r \in Nat, n \in 0 .. m : Imaged(log', r, n) <=> Imaged(log, r, n)
<1>1. /\ log' \in Seq(Records) /\ Len(log') = m /\ m \in Nat
      /\ \A i \in 1 .. m : log'[i] = log[i]
  OBVIOUS
<1> QED
  BY <1>1, SamePrefix, ZenonT(60)

(***************************************************************************)
(* A page is none of the markers for no page, no image and a torn page.    *)
(***************************************************************************)
LEMMA PagesAreReal ==
  ASSUME NEW x \in Pages
  PROVE  x # NoPage /\ x # NoImage /\ x # Torn
<1>1. x.kind = "image" /\ NoPage.kind = "none" /\ Torn.kind = "torn"
      /\ NoImage.kind = "no image"
  BY Zenon DEF Pages, NoPage, NoImage, Torn
<1> QED
  BY <1>1, Zenon

-----------------------------------------------------------------------------
(* Setting a hint bit                                                      *)

(***************************************************************************)
(* Moving on within MarkBufferDirtyHint, under the share lock.             *)
(***************************************************************************)
LEMMA HintMoves ==
  ASSUME TypeOK, PlacesInv, NEW p \in Backends, pc[p] \in HintSteps,
         NEW l \in HintSteps \union {"idle"}, Goto(p, l),
         delay' = IF l \in HintSteps \ {"hint_test"} THEN delay \union {p}
                  ELSE delay \ {p},
         UNCHANGED <<writer, startup, ckpt>>, page # NoPage, page' # NoPage,
         flags \subseteq flags'
  PROVE  /\ PlacesInv' /\ Changing = {} /\ Changing' = {}
         /\ startup = "up" /\ Flushing' = Flushing
<1>1. pc \in [Backends -> Places] /\ pc' = [pc EXCEPT ![p] = l]
  BY Zenon DEF TypeOK, Goto
<1>2. p \in Hinting /\ Changing = {} /\ startup = "up"
  BY Zenon DEF PlacesInv, Hinting, HintSteps
<1>3. Changing' = {}
  BY <1>1, <1>2, Zenon DEF Changing, HintSteps
<1>4. Flushing' = Flushing
  BY Zenon DEF Flushing
<1>5. delay' = {q \in Backends : pc'[q] \in HintSteps \ {"hint_test"}}
  BY <1>1, ZenonT(60) DEF PlacesInv
<1> QED
  BY <1>2, <1>3, <1>4, <1>5, Zenon DEF PlacesInv

(***************************************************************************)
(* MarkBufferDirtyHint looks at the flags without the header lock, and     *)
(* goes on to log the hint or does nothing.                                *)
(***************************************************************************)
LEMMA HintTestStep ==
  ASSUME IInv, NEW p \in Backends, HintTest(p)
  PROVE  IInv'
<1> USE DEF IInv, pageVars, logVars, redoVars, startVars, FileImage
<1>1. TypeOK'
  BY ZenonT(60) DEF HintTest, Goto, TypeOK, Places, HintSteps
<1>2. page # NoPage
  BY Zenon DEF PlacesInv, HintTest
<1>3. p \notin delay
  BY Zenon DEF PlacesInv, HintTest
<1>4. PlacesInv' /\ Changing = {} /\ Changing' = {} /\ Flushing' = Flushing
  <2>1. CASE {"dirty", "just_dirtied"} \subseteq flags
    BY <1>2, <1>3, <2>1, HintMoves, Zenon DEF HintTest, HintSteps
  <2>2. CASE ~({"dirty", "just_dirtied"} \subseteq flags)
    BY <1>2, <1>3, <2>2, HintMoves, Zenon DEF HintTest, HintSteps
  <2> QED
    BY <2>1, <2>2, Zenon
<1>5. PositionsInv' /\ LogInv' /\ MediaInv'
  BY ZenonT(60) DEF HintTest, PositionsInv, LogInv, Redos, Restores, Reads, MediaInv, Holds, Backed
<1>6. PageInv' /\ RecoveryInv' /\ WriteInv' /\ ProgressInv'
  BY <1>4, ZenonT(60) DEF HintTest, PageInv, Holds, Backed, Redos, Reach, RecoveryInv, Found,
              Logged, WriteInv, ProgressInv, Safe
<1>7. HintInv'
  BY DEF HintTest, Goto, TypeOK, HintInv, Reach, Delays, Backed, Redos, Logged, HintSteps
<1> QED
  BY <1>1, <1>4, <1>5, <1>6, <1>7, Zenon

(***************************************************************************)
(* With DELAY_CHKPT_START set, XLogSaveBufferForHint reads the copy of the *)
(* redo pointer it decides by, which may lag behind.                       *)
(***************************************************************************)
LEMMA HintGetRedoStep ==
  ASSUME IInv, NEW p \in Backends, HintGetRedo(p)
  PROVE  IInv'
<1> USE DEF IInv, pageVars, logVars, redoVars, startVars, FileImage
<1>1. TypeOK'
  <2>1. cached' \in [Backends -> [redo : Nat, doPageWrites : BOOLEAN]]
    <3>1. PICK n \in Nat : cached' = [cached EXCEPT ![p].redo = n]
      BY Zenon DEF HintGetRedo, TypeOK, Greater
    <3>2. cached \in [Backends -> [redo : Nat, doPageWrites : BOOLEAN]]
      BY Zenon DEF TypeOK
    <3>3. [cached[p] EXCEPT !.redo = n] \in [redo : Nat, doPageWrites : BOOLEAN]
      BY <3>2, Zenon
    <3> QED
      BY <3>1, <3>2, <3>3, Zenon
  <2> QED
    BY <2>1, Zenon DEF HintGetRedo, Goto, TypeOK, Places, HintSteps
<1>2. page # NoPage /\ p \in delay
  BY Zenon DEF PlacesInv, HintGetRedo, HintSteps
<1>3. PlacesInv' /\ Changing = {} /\ Changing' = {} /\ Flushing' = Flushing
  BY <1>2, HintMoves, ZenonT(60) DEF HintGetRedo, HintSteps
<1>4. PositionsInv' /\ LogInv' /\ MediaInv'
  BY ZenonT(60) DEF HintGetRedo, PositionsInv, LogInv, Redos, Restores, Reads, MediaInv, Holds, Backed
<1>5. PageInv' /\ RecoveryInv' /\ WriteInv' /\ ProgressInv'
  BY <1>3, ZenonT(60) DEF HintGetRedo, PageInv, Holds, Backed, Redos, Reach, RecoveryInv, Found,
              Logged, WriteInv, ProgressInv, Safe
<1>6. /\ control.redo <= cached'[p].redo
      /\ insertRedo <= cached'[p].redo \/ Delays(p)
  BY DEF HintGetRedo, TypeOK, PositionsInv, Greater, Delays
<1>7. HintInv'
  BY <1>6 DEF HintGetRedo, Goto, TypeOK, HintInv, Reach, Delays, Backed, Redos,
              Logged, HintSteps
<1> QED
  BY <1>1, <1>3, <1>4, <1>5, <1>7, Zenon

(***************************************************************************)
(* An LSN of the page after a redo pointer is as good as an image.         *)
(***************************************************************************)
LEMMA NewerCovered ==
  ASSUME IInv, page # NoPage, NEW r \in Redos, r < page.lsn
  PROVE  Imaged(log, r, Reach)
<1>1. Imaged(log, r, page.lsn)
  BY Zenon DEF IInv, PageInv, Backed
<1>2. r \in Nat /\ page.lsn \in Nat /\ flushed \in Nat
  BY ZenonT(60) DEF IInv, TypeOK, Redos, Pages
<1> QED
  BY <1>1, <1>2, ImagedMonotonic DEF Reach, Greater

(***************************************************************************)
(* XLogSaveBufferForHint compares the page's LSN with that redo pointer,   *)
(* and needs no image if the page is newer.                                *)
(***************************************************************************)
LEMMA HintGetLSNStep ==
  ASSUME IInv, NEW p \in Backends, HintGetLSN(p)
  PROVE  IInv'
<1> USE DEF IInv, pageVars, logVars, redoVars, startVars, FileImage
<1>1. TypeOK'
  BY Zenon DEF HintGetLSN, Goto, TypeOK, Places, HintSteps
<1>2. page # NoPage /\ p \in delay
  BY Zenon DEF PlacesInv, HintGetLSN, HintSteps
<1>3. PlacesInv' /\ Changing = {} /\ Changing' = {} /\ Flushing' = Flushing
  BY <1>2, HintMoves, Zenon DEF HintGetLSN, HintSteps
<1>4. PositionsInv' /\ LogInv' /\ MediaInv'
  BY ZenonT(60) DEF HintGetLSN, PositionsInv, LogInv, Redos, Restores, Reads, MediaInv, Holds, Backed
<1>5. PageInv' /\ RecoveryInv' /\ WriteInv' /\ ProgressInv'
  BY <1>3, ZenonT(60) DEF HintGetLSN, PageInv, Holds, Backed, Redos, Reach, RecoveryInv, Found,
              Logged, WriteInv, ProgressInv, Safe
<1>6. pc'[p] = "hint_mark" =>
        Imaged(log, control.redo, Reach) /\ (Imaged(log, insertRedo, Reach) \/ Delays(p))
  <2>1. pc'[p] = "hint_mark" => cached[p].redo < page.lsn
    BY <1>2 DEF HintGetLSN, Goto, TypeOK, Pages
  <2>2. control.redo <= cached[p].redo /\ (insertRedo <= cached[p].redo \/ Delays(p))
    BY Zenon DEF HintGetLSN, HintInv
  <2>3. \A r \in Redos : r < page.lsn => Imaged(log, r, Reach)
    BY <1>2, NewerCovered, Zenon
  <2>4. /\ control.redo \in Nat /\ insertRedo \in Nat /\ cached[p].redo \in Nat
        /\ page.lsn \in Nat
    BY <1>2, Zenon DEF TypeOK, Pages
  <2> HIDE DEF IInv
  <2> QED
    BY <2>1, <2>2, <2>3, <2>4 DEF Redos
<1>7. HintInv'
  BY <1>6 DEF HintGetLSN, Goto, TypeOK, HintInv, Reach, Delays, Backed, Redos,
              Logged, HintSteps
<1> QED
  BY <1>1, <1>3, <1>4, <1>5, <1>7, Zenon

(***************************************************************************)
(* XLogSaveBufferForHint copies the page, which others may be hinting      *)
(* meanwhile, to log the copy.                                             *)
(***************************************************************************)
LEMMA HintCopyStep ==
  ASSUME IInv, NEW p \in Backends, HintCopy(p)
  PROVE  IInv'
<1> USE DEF IInv, pageVars, logVars, redoVars, startVars, FileImage
<1>1. page # NoPage /\ p \in delay
  BY Zenon DEF PlacesInv, HintCopy, HintSteps
<1>2. TypeOK'
  BY <1>1, Zenon DEF HintCopy, Goto, TypeOK, Places, HintSteps
<1>3. PlacesInv' /\ Changing = {} /\ Changing' = {} /\ Flushing' = Flushing /\ startup = "up"
  BY <1>1, HintMoves, Zenon DEF HintCopy, HintSteps
<1>4. PositionsInv' /\ LogInv' /\ MediaInv'
  BY ZenonT(60) DEF HintCopy, PositionsInv, LogInv, Redos, Restores, Reads, MediaInv, Holds, Backed
<1>5. PageInv' /\ RecoveryInv' /\ WriteInv' /\ ProgressInv'
  BY <1>3, ZenonT(60) DEF HintCopy, PageInv, Holds, Backed, Redos, Reach, RecoveryInv, Found,
              Logged, WriteInv, ProgressInv, Safe
<1>6. /\ page \in Pages /\ page.lsn <= Len(log) /\ page.changes = Logged
      /\ Backed(log, Redos, page.lsn)
  <2>1. page \in Pages /\ page.lsn <= Len(log) /\ Backed(log, Redos, page.lsn)
    BY <1>1, Zenon DEF TypeOK, PageInv
  <2>2. Logged \in Nat
    BY ChangesType DEF Logged, TypeOK
  <2>3. page.changes = Logged
    BY <1>1, <1>3, <2>2 DEF RecoveryInv, Found
  <2> QED
    BY <2>1, <2>3, Zenon
<1>7. HintInv'
  BY <1>6 DEF HintCopy, Goto, TypeOK, HintInv, Reach, Delays, Backed, Redos,
              Logged, HintSteps
<1> QED
  BY <1>2, <1>3, <1>4, <1>5, <1>7, ZenonT(60)

(***************************************************************************)
(* A hint bit set in the buffer changes nothing that recovery has to       *)
(* restore.                                                                *)
(***************************************************************************)
LEMMA SetHintBitStep ==
  ASSUME IInv, NEW p \in Backends, SetHintBit(p)
  PROVE  IInv'
<1> USE DEF IInv, logVars, redoVars, startVars, FileImage
<1>1. /\ page \in Pages /\ page' \in Pages /\ page'.lsn = page.lsn
      /\ page'.changes = page.changes
  <2>1. page \in Pages /\ page' = [page EXCEPT !.hints = @ + 1]
    BY Zenon DEF SetHintBit, TypeOK
  <2> QED
    BY <2>1 DEF Pages
<1>2. page # NoPage /\ page' # NoPage
  BY <1>1 DEF Pages, NoPage
<1>3. TypeOK'
  BY <1>1, Zenon DEF SetHintBit, Goto, TypeOK, Places, HintSteps
<1>4. Changing = {} /\ Changing' = {} /\ Flushing' = Flushing
  BY Zenon DEF SetHintBit, CanLockShare, Goto, TypeOK, Changing, Flushing
<1>5. PlacesInv'
  <2>1. pc' = [pc EXCEPT ![p] = "hint_test"] /\ pc[p] = "idle" /\ pc \in [Backends -> Places]
    BY Zenon DEF SetHintBit, Goto, TypeOK
  <2>2. delay' = {q \in Backends : pc'[q] \in HintSteps \ {"hint_test"}}
    BY <2>1, Zenon DEF SetHintBit, PlacesInv, HintSteps
  <2> QED
    BY <1>2, <1>4, <2>2, ZenonT(60) DEF SetHintBit, PlacesInv
<1>6. PositionsInv' /\ LogInv' /\ MediaInv'
  BY ZenonT(60) DEF SetHintBit, PositionsInv, LogInv, Redos, Restores, Reads, MediaInv, Holds, Backed
<1>7. PageInv' /\ WriteInv'
  BY <1>1, <1>2, <1>4, Zenon DEF SetHintBit, PageInv, Holds, Backed, Redos, Reach, WriteInv
<1>8. RecoveryInv'
  BY <1>1, <1>2, <1>4, Zenon DEF SetHintBit, RecoveryInv, Found, Logged, Pages, Torn
<1>9. ProgressInv'
  BY <1>1, <1>4, ZenonT(60) DEF SetHintBit, ProgressInv, Safe, Reach
<1>10. HintInv'
  BY <1>1 DEF SetHintBit, Goto, TypeOK, HintInv, Reach, Delays, Backed, Redos,
              Logged, HintSteps
<1> QED
  BY <1>3, <1>5, <1>6, <1>7, <1>10, <1>8, <1>9, Zenon

(***************************************************************************)
(* An image is inserted when the page is older than the redo pointer, and  *)
(* when none is inserted there is an earlier one (XLogInsertRecord).       *)
(***************************************************************************)
LEMMA InsertBacked ==
  ASSUME IInv, NEW p \in Backends, NEW x \in Pages, x.lsn <= Len(log),
         Backed(log, Redos, x.lsn), ~MustReassemble(p, x), NEW type \in RecordTypes,
         log' = Append(log, Record(type, IF NeedsBackup(p, x) THEN x ELSE NoImage))
  PROVE  \A r \in Redos : Imaged(log', r, Len(log'))
<1> DEFINE e == Record(type, IF NeedsBackup(p, x) THEN x ELSE NoImage)
<1>1. log \in Seq(Records) /\ insertRedo \in Nat /\ control.redo \in Nat
  BY Zenon DEF IInv, TypeOK
<1>2. e \in Records
  BY Zenon DEF Record, Records
<1>3. Len(log) \in Nat /\ x.lsn \in Nat
  BY <1>1 DEF Pages
<1>4. control.redo <= insertRedo /\ insertRedo <= Len(log)
  BY <1>1 DEF IInv, PositionsInv, TypeOK
<1>5. log' = Append(log, e)
  BY Zenon
<1> HIDE DEF e
<1>6. /\ Len(log') = Len(log) + 1
      /\ \A r \in Nat, n \in 0 .. Len(log) : Imaged(log', r, n) <=> Imaged(log, r, n)
      /\ e.image # NoImage => \A r \in 0 .. Len(log) : Imaged(log', r, Len(log'))
  BY <1>1, <1>2, <1>5, Appended, ZenonT(60)
<1>7. CASE NeedsBackup(p, x)
  <2>1. e.image # NoImage
    BY <1>7, PagesAreReal, Zenon DEF e, Record
  <2> QED
    BY <1>1, <1>4, <1>3, <1>6, <2>1 DEF Redos
<1>8. CASE ~NeedsBackup(p, x)
  <2>1. insertRedo < x.lsn
    BY <1>1, <1>3, <1>8 DEF MustReassemble
  <2> SUFFICES ASSUME NEW r \in Redos
               PROVE  Imaged(log', r, Len(log'))
    BY Zenon
  <2>2. r \in Nat /\ r < x.lsn
    BY <1>1, <1>3, <1>4, <2>1 DEF Redos
  <2>3. Imaged(log', r, x.lsn)
    BY <1>3, <1>6, <2>2 DEF Backed
  <2> QED
    BY <1>3, <1>6, <2>2, <2>3, ImagedMonotonic
<1> QED
  BY <1>7, <1>8, Zenon

(***************************************************************************)
(* The positions in the log and the pages in the file are of their types,  *)
(* in the form in which the steps below use them.                          *)
(***************************************************************************)
LEMMA Bounds ==
  ASSUME TypeOK, PositionsInv
  PROVE  /\ Len(log) \in Nat /\ log \in Seq(Records)
         /\ flushed \in 0 .. Len(log) /\ control.redo \in 0 .. Len(log)
         /\ insertRedo \in 0 .. Len(log)
         /\ \A i \in DOMAIN media : media[i] \in Pages \union {Torn}
         /\ \A x \in Pages : x.lsn \in Nat /\ x.changes \in Nat
<1>1. Len(log) \in Nat /\ log \in Seq(Records)
  BY DEF TypeOK
<1>2. /\ flushed \in 0 .. Len(log) /\ control.redo \in 0 .. Len(log)
      /\ insertRedo \in 0 .. Len(log)
  BY <1>1 DEF TypeOK, PositionsInv
<1>3. \A i \in DOMAIN media : media[i] \in Pages \union {Torn}
  BY DEF TypeOK
<1>4. \A x \in Pages : x.lsn \in Nat /\ x.changes \in Nat
  BY Zenon DEF Pages
<1> QED
  BY <1>1, <1>2, <1>3, <1>4, ZenonT(60)

(***************************************************************************)
(* A new record leaves alone what is known of what is there already.       *)
(***************************************************************************)
LEMMA LogGrows ==
  ASSUME IInv, NEW e \in Records, log' = Append(log, e),
         insertRedo' \in {insertRedo, Len(log)}, UNCHANGED control,
         e.image # NoImage =>
           e.image.changes = Logged + IF e.type = "change" THEN 1 ELSE 0,
         e.type = "change" /\ e.image = NoImage =>
           \A r \in Redos' : Imaged(log, r, Len(log))
  PROVE  /\ LogInv' /\ Logged' = Logged + IF e.type = "change" THEN 1 ELSE 0
         /\ log' \in Seq(Records) /\ Len(log') = Len(log) + 1
         /\ \A n \in 0 .. Len(log) : Changes(log', n) = Changes(log, n)
         /\ \A r \in Nat, n \in 0 .. Len(log) : Imaged(log', r, n) <=> Imaged(log, r, n)
         /\ \A r \in Nat : Imaged(log, r, Len(log)) => Imaged(log', r, Len(log'))
         /\ \A n \in 0 .. Len(log) : Backed(log, Redos, n) => Backed(log', Redos', n)
         /\ \A x \in Pages : Holds(log, x) => Holds(log', x)
<1>1. /\ log \in Seq(Records) /\ insertRedo \in Nat /\ control.redo \in Nat
      /\ Len(log) \in Nat
  BY DEF IInv, TypeOK
<1>2. /\ Len(log') = Len(log) + 1
      /\ \A i \in 1 .. Len(log) : log'[i] = log[i]
      /\ log'[Len(log) + 1] = e
      /\ \A n \in 0 .. Len(log) : Changes(log', n) = Changes(log, n)
      /\ \A r \in Nat, n \in 0 .. Len(log) : Imaged(log', r, n) <=> Imaged(log, r, n)
      /\ Logged' = Logged + IF e.type = "change" THEN 1 ELSE 0
      /\ log' \in Seq(Records)
  BY <1>1, Appended, ZenonT(60)
<1>3. control.redo \in 0 .. Len(log) /\ insertRedo \in 0 .. Len(log)
  BY <1>1 DEF IInv, PositionsInv, TypeOK
<1>4. \A n \in 0 .. Len(log) : Backed(log, Redos, n) => Backed(log', Redos', n)
  BY <1>1, <1>2, <1>3 DEF Backed, Redos
<1>5. DOMAIN log = 1 .. Len(log) /\ DOMAIN log' = 1 .. Len(log) + 1
  BY <1>1, <1>2
<1>6. ASSUME NEW i \in DOMAIN log', Restores(i)'
      PROVE  log'[i].image.changes = Changes(log', i)
  <2>1. CASE i \in 1 .. Len(log)
    BY <1>1, <1>2, <1>5, <1>6, <2>1 DEF IInv, LogInv, Restores
  <2>2. CASE i = Len(log) + 1
    BY <1>1, <1>2, <1>6, <2>2, ZenonT(60) DEF Restores, Logged
  <2> QED
    BY <1>5, <2>1, <2>2
<1>7. ASSUME NEW r \in Redos', NEW i \in r + 1 .. Len(log'), Reads(i)'
      PROVE  Imaged(log', r, i - 1)
  <2>1. r \in Nat /\ (r \in Redos \/ r = Len(log))
    BY <1>1, Zenon DEF Redos
  <2>2. i \in Nat /\ r + 1 <= i /\ i <= Len(log) + 1
    BY <1>2, <2>1
  <2>3. CASE i = Len(log) + 1
    <3>1. e.type = "change" /\ e.image = NoImage
      BY <1>2, <1>7, <2>3, Zenon DEF Reads
    <3>2. Imaged(log, r, Len(log))
      BY <3>1, ZenonT(60)
    <3>3. Imaged(log', r, Len(log))
      BY <1>1, <1>2, <2>1, <3>2
    <3> QED
      BY <1>1, <2>3, <3>3
  <2>4. CASE i # Len(log) + 1
    <3>1. i \in r + 1 .. Len(log) /\ i - 1 \in 0 .. Len(log) /\ i \in 1 .. Len(log)
      BY <1>1, <2>1, <2>2, <2>4
    <3>2. Reads(i) /\ r \in Redos
      BY <1>1, <1>2, <1>7, <2>1, <3>1 DEF Reads
    <3>3. Imaged(log, r, i - 1)
      BY <3>1, <3>2, Zenon DEF IInv, LogInv
    <3> QED
      BY <1>2, <2>1, <3>1, <3>3, ZenonT(60)
  <2> QED
    BY <2>3, <2>4, Zenon
<1>8. LogInv'
  BY <1>6, <1>7, ZenonT(60) DEF LogInv
<1>9. \A r \in Nat : Imaged(log, r, Len(log)) => Imaged(log', r, Len(log'))
  BY <1>1, <1>2, ImagedMonotonic
<1>10. \A x \in Pages : Holds(log, x) => Holds(log', x)
  BY <1>1, <1>2 DEF Holds, Pages
<1> QED
  BY <1>2, <1>4, <1>8, <1>9, <1>10, ZenonT(60)

(***************************************************************************)
(* The page in the buffer, and how far the log is flushed before it goes.  *)
(***************************************************************************)
LEMMA PageBounds ==
  ASSUME TypeOK, PositionsInv, PageInv, page # NoPage
  PROVE  /\ page \in Pages /\ page.lsn \in 0 .. Len(log) /\ page.changes \in Nat
         /\ Reach \in 0 .. Len(log) /\ page.lsn <= Reach /\ flushed <= Reach
<1>1. page \in Pages /\ page.lsn \in 0 .. Len(log) /\ page.changes \in Nat
  BY Bounds DEF TypeOK, PageInv
<1> QED
  BY <1>1, Bounds DEF Reach, Greater

(***************************************************************************)
(* XLogInsert logs the image, unless the redo pointer has moved on in the  *)
(* meantime and the record has to be assembled again.                      *)
(***************************************************************************)
LEMMA HintLogStep ==
  ASSUME IInv, NEW p \in Backends, HintLog(p)
  PROVE  IInv'
<1> USE DEF pageVars, redoVars, startVars, FileImage
<1>1. /\ TypeOK /\ PlacesInv /\ PositionsInv /\ LogInv /\ MediaInv /\ PageInv
      /\ RecoveryInv /\ HintInv /\ WriteInv /\ ProgressInv
  BY Zenon DEF IInv
<1>2. page # NoPage /\ p \in delay /\ pc[p] = "hint_log"
  BY <1>1, Zenon DEF PlacesInv, HintLog, HintSteps
<1>3. /\ copied[p] \in Pages /\ copied[p].lsn <= Len(log)
      /\ copied[p].changes = Logged /\ Backed(log, Redos, copied[p].lsn)
  BY <1>1, <1>2, Zenon DEF HintInv
<1>4. cached' \in [Backends -> [redo : Nat, doPageWrites : BOOLEAN]]
  BY <1>1, Zenon DEF HintLog, RefreshCached, TypeOK
<1>5. UNCHANGED <<page, flags, delay, writer, flushed, media, insertRedo, infoRedo,
                  control, ckpt, startup, replayed, Redos>>
  BY Zenon DEF HintLog, Redos
<1>6. CASE MustReassemble(p, copied[p])
  <2>1. UNCHANGED <<pc, copied, hintLSN, log>>
    BY <1>6, Zenon DEF HintLog
  <2>2. TypeOK'
    BY <1>1, <1>4, <2>1, ZenonT(60) DEF HintLog, TypeOK
  <2>3. PlacesInv' /\ PositionsInv' /\ LogInv' /\ MediaInv'
    BY <1>1, <2>1, ZenonT(60) DEF HintLog, PlacesInv, Changing, Hinting, Flushing, PositionsInv,
          LogInv, Redos, Restores, Reads, MediaInv, Holds, Backed
  <2>4. PageInv' /\ RecoveryInv' /\ WriteInv' /\ ProgressInv'
    BY <1>1, <2>1, ZenonT(60) DEF HintLog, PageInv, Holds, Backed, Redos, Reach, RecoveryInv,
          Found, Logged, WriteInv, ProgressInv, Safe, Changing, Flushing
  <2>5. HintInv'
    BY <1>1, <1>2, <2>1 DEF HintLog, RefreshCached, TypeOK, HintInv, Reach, Delays,
          Backed, Redos, Logged
  <2> QED
    BY <2>2, <2>3, <2>4, <2>5, ZenonT(60) DEF IInv
<1>7. CASE ~MustReassemble(p, copied[p])
  <2> DEFINE e == Record("hint", IF NeedsBackup(p, copied[p]) THEN copied[p] ELSE NoImage)
  <2>1. /\ log' = Append(log, e)
        /\ hintLSN' = [hintLSN EXCEPT ![p] = Len(log')]
        /\ copied' = [copied EXCEPT ![p] = NoImage]
        /\ Goto(p, "hint_mark")
    BY <1>7, ZenonT(60) DEF HintLog
  <2>2. /\ e \in Records /\ e.type # "change"
        /\ e.image = NoImage \/ e.image.changes = Logged
        /\ Logged \in Nat
    BY <1>1, <1>3, ChangesType DEF Record, Records, RecordTypes, Logged, TypeOK
  <2>3. \A r \in Redos : Imaged(log', r, Len(log'))
    BY <1>3, <1>7, <2>1, InsertBacked, ZenonT(60) DEF RecordTypes
  <2> HIDE DEF e
  <2>4. Logged + 0 = Logged /\ Logged \in Nat
    BY <1>1, Bounds, ChangesType DEF Logged
  <2>5. /\ e.image # NoImage =>
             e.image.changes = Logged + IF e.type = "change" THEN 1 ELSE 0
        /\ insertRedo' \in {insertRedo, Len(log)}
    BY <1>5, <2>2, <2>4, ZenonT(60)
  <2>6. /\ LogInv' /\ Logged' = Logged + IF e.type = "change" THEN 1 ELSE 0
        /\ log' \in Seq(Records) /\ Len(log') = Len(log) + 1
        /\ \A n \in 0 .. Len(log) : Changes(log', n) = Changes(log, n)
        /\ \A r \in Nat, n \in 0 .. Len(log) : Imaged(log', r, n) <=> Imaged(log, r, n)
        /\ \A r \in Nat : Imaged(log, r, Len(log)) => Imaged(log', r, Len(log'))
        /\ \A n \in 0 .. Len(log) : Backed(log, Redos, n) => Backed(log', Redos', n)
        /\ \A x \in Pages : Holds(log, x) => Holds(log', x)
    BY <1>5, <2>1, <2>2, <2>5, LogGrows, ZenonT(60)
  <2>7. /\ log' \in Seq(Records) /\ log \in Seq(Records) /\ Len(log) \in Nat
        /\ Logged' = Logged
    BY <1>1, <2>2, <2>6, <2>4, Bounds, ZenonT(60)
  <2>8. /\ Len(log) \in Nat /\ Len(log') = Len(log) + 1
        /\ flushed \in 0 .. Len(log) /\ control.redo \in 0 .. Len(log)
        /\ insertRedo \in 0 .. Len(log)
    BY <1>1, <2>6, Bounds, Zenon
  <2>9. /\ Len(log') \in Nat /\ Len(log') # 0 /\ Len(log') <= Len(log')
        /\ control.redo \in Nat /\ control.redo < Len(log')
        /\ insertRedo \in Nat /\ insertRedo < Len(log') /\ insertRedo <= Len(log')
        /\ flushed <= Len(log')
        /\ \A n \in 0 .. Len(log) : n <= Len(log')
        /\ \A n \in Nat : n <= Len(log) => n \in 0 .. Len(log)
    BY <2>8
  <2>10. TypeOK'
    <3>1. pc' \in [Backends -> Places] /\ copied' \in [Backends -> Pages \union {NoImage}]
      BY <1>1, <2>1, ZenonT(60) DEF Goto, TypeOK, Places, HintSteps
    <3>2. hintLSN' \in [Backends -> Nat]
      BY <1>1, <2>1, <2>9, ZenonT(60) DEF TypeOK
    <3> QED
      BY <1>1, <1>4, <1>5, <2>7, <3>1, <3>2, ZenonT(60) DEF HintLog, TypeOK
  <2>11. PlacesInv' /\ Changing = {} /\ Changing' = {} /\ Flushing' = Flushing /\ startup = "up"
    BY <1>1, <1>2, <2>1, HintMoves, ZenonT(60) DEF HintLog, HintSteps
  <2>12. PositionsInv'
    BY <1>1, <1>5, <2>11, <2>9, Zenon DEF PositionsInv
  <2>13. /\ flushed \in 0 .. Len(log) /\ control.redo \in 0 .. Len(log)
         /\ insertRedo \in 0 .. Len(log)
         /\ \A i \in DOMAIN media : media[i] \in Pages \union {Torn}
         /\ \A x \in Pages : x.lsn \in Nat /\ x.changes \in Nat
    BY <1>1, Bounds, ZenonT(60)
  <2>14. MediaInv'
    <3>1. /\ DOMAIN media' = DOMAIN media
          /\ \A n \in 0 .. Len(log) : Changes(log', n) = Changes(log, n)
      BY <1>5, <2>6, Zenon
    <3>2. ASSUME NEW k \in DOMAIN media, media[k] # Torn
          PROVE  /\ Holds(log', media[k]) /\ media[k].lsn <= flushed
                 /\ Changes(log', control.redo) <= media[k].changes
                 /\ Backed(log', Redos', media[k].lsn)
      <4>1. /\ Holds(log, media[k]) /\ media[k].lsn <= flushed
            /\ Changes(log, control.redo) <= media[k].changes
            /\ Backed(log, Redos, media[k].lsn)
        BY <1>1, <3>2, Zenon DEF MediaInv
      <4>2. media[k] \in Pages /\ media[k].lsn \in Nat
        BY <2>13, <3>2, Zenon
      <4>3. media[k].lsn \in 0 .. Len(log)
        BY <2>8, <4>1, <4>2
      <4> QED
        BY <2>6, <2>8, <4>1, <4>2, <4>3, Zenon
    <3>3. Imaged(log, control.redo, flushed) => Imaged(log', control.redo, flushed)
      BY <2>6, <2>8, <2>9, Zenon
    <3> QED
      BY <1>1, <1>5, <3>1, <3>2, <3>3, ZenonT(60) DEF MediaInv
  <2>15. page \in Pages /\ page.lsn \in 0 .. Len(log)
    BY <1>1, <1>2, PageBounds, Zenon
  <2>16. \A r \in Nat : Imaged(log, r, Reach) => Imaged(log', r, Reach')
    BY <2>6, <2>13, <2>15, Zenon DEF HintLog, Reach, Greater
  <2>17. PageInv' /\ WriteInv'
    <3>1. PageInv'
      BY <1>1, <1>2, <1>5, <2>6, <2>11, <2>15, <2>16, <2>9, ZenonT(60) DEF PageInv
    <3> QED
      BY <1>1, <1>5, <2>11, <3>1, ZenonT(60) DEF WriteInv
  <2>18. RecoveryInv'
    BY <1>1, <2>7, <2>11, ZenonT(60) DEF HintLog, RecoveryInv, Found
  <2>19. ProgressInv'
    <3>1. \A x : Safe(log, insertRedo, x) => Safe(log', insertRedo, x)
      BY <2>6, <2>8, Zenon DEF Safe
    <3>2. /\ Imaged(log, insertRedo, Len(log)) => Imaged(log', insertRedo, Len(log'))
          /\ Imaged(log, insertRedo, flushed) => Imaged(log', insertRedo, flushed)
          /\ Imaged(log, insertRedo, Reach) => Imaged(log', insertRedo, Reach')
      BY <2>6, <2>16, <2>8, <2>9, Zenon
    <3> QED
      BY <1>1, <1>5, <2>11, <3>1, <3>2, ZenonT(60) DEF ProgressInv
  <2>20. HintInv'
    <3> SUFFICES ASSUME NEW q \in Backends
                 PROVE  HintInv!(q)'
      BY Zenon DEF HintInv
    <3>1. CASE q = p
      <4>1. hintLSN'[q] = Len(log') /\ pc'[q] = "hint_mark" /\ hintLSN'[q] # 0
        <5>1. hintLSN'[q] = Len(log') /\ pc'[q] = "hint_mark"
          BY <1>1, <2>1, <3>1, Zenon DEF TypeOK, Goto
        <5> QED
          BY <2>9, <5>1, Zenon
      <4>2. Backed(log', Redos', Len(log'))
        BY <2>3, ZenonT(60) DEF Backed, Redos, HintLog
      <4>3. Changes(log', hintLSN'[q]) = Logged'
        BY <4>1, Zenon DEF Logged
      <4> QED
        BY <1>5, <2>9, <4>1, <4>2, <4>3, Zenon
    <3>2. CASE q # p
      <4>1. pc'[q] = pc[q] /\ hintLSN'[q] = hintLSN[q] /\ copied'[q] = copied[q]
            /\ cached'[q] = cached[q]
        BY <1>1, <2>1, <3>2, ZenonT(60) DEF TypeOK, Goto, HintLog, RefreshCached
      <4>2. HintInv!(q)
        BY <1>1, ZenonT(60) DEF HintInv
      <4>3. Delays(q)' = Delays(q)
        BY Zenon DEF HintLog, Delays
      <4>4. hintLSN[q] \in Nat
        BY <1>1, ZenonT(60) DEF TypeOK
      <4>5. pc[q] = "hint_log" =>
              /\ copied[q].lsn <= Len(log') /\ copied[q].changes = Logged'
              /\ Backed(log', Redos', copied[q].lsn)
        BY <2>6, <2>7, <2>13, <2>9, <4>2, Zenon
      <4>6. pc[q] = "hint_mark" /\ hintLSN[q] # 0 =>
              /\ hintLSN[q] <= Len(log') /\ Changes(log', hintLSN[q]) = Logged'
              /\ Backed(log', Redos', hintLSN[q])
        BY <2>6, <2>7, <2>9, <4>2, <4>4, ZenonT(60)
      <4> QED
        BY <1>5, <2>16, <2>9, <4>1, <4>2, <4>3, <4>5, <4>6, ZenonT(60)
    <3> QED
      BY <3>1, <3>2, ZenonT(60)
  <2> QED
    BY <2>6, <2>10, <2>11, <2>12, <2>14, <2>17, <2>18, <2>19, <2>20, Zenon DEF IInv
<1> QED
  BY <1>6, <1>7, Zenon

(***************************************************************************)
(* MarkBufferDirtyHint marks the buffer dirty under its header lock, and   *)
(* only then lets checkpoints go on.                                       *)
(***************************************************************************)
LEMMA HintMarkStep ==
  ASSUME IInv, NEW p \in Backends, HintMark(p)
  PROVE  IInv'
<1> USE DEF pageVars, logVars, redoVars, startVars, FileImage
<1>1. /\ TypeOK /\ PlacesInv /\ PositionsInv /\ LogInv /\ MediaInv /\ PageInv
      /\ RecoveryInv /\ HintInv /\ WriteInv /\ ProgressInv
  BY Zenon DEF IInv
<1>2. page # NoPage /\ pc[p] = "hint_mark"
  BY <1>1, Zenon DEF PlacesInv, HintMark
<1>3. /\ page \in Pages /\ page.lsn \in 0 .. Len(log) /\ page.changes \in Nat
      /\ Reach \in 0 .. Len(log) /\ page.lsn <= Reach /\ flushed <= Reach
  BY <1>1, <1>2, PageBounds, ZenonT(60)
<1>4. /\ Len(log) \in Nat /\ log \in Seq(Records)
      /\ flushed \in 0 .. Len(log) /\ control.redo \in 0 .. Len(log)
      /\ insertRedo \in 0 .. Len(log)
  BY <1>1, Bounds, ZenonT(60)
<1>5. hintLSN[p] # 0 =>
        /\ hintLSN[p] \in 0 .. Len(log) /\ control.redo < hintLSN[p]
        /\ insertRedo < hintLSN[p] \/ Delays(p)
        /\ Changes(log, hintLSN[p]) = Logged /\ Backed(log, Redos, hintLSN[p])
  BY <1>1, <1>2, <1>4 DEF HintInv, TypeOK
<1>6. /\ page' \in Pages /\ page'.changes = page.changes /\ page' # NoPage
      /\ page'.lsn = IF "dirty" \notin flags /\ hintLSN[p] # 0
                       THEN hintLSN[p] ELSE page.lsn
  <2>1. [page EXCEPT !.lsn = hintLSN[p]] \in Pages
    BY <1>1, <1>3, Zenon DEF Pages, TypeOK
  <2> QED
    BY <1>3, <2>1, PagesAreReal, ZenonT(60) DEF HintMark, Pages
<1>7. flags' = flags \union {"dirty", "just_dirtied"}
  BY Zenon DEF HintMark, MarkBufferDirty
<1>8. TypeOK'
  <2>1. /\ pc' \in [Backends -> Places] /\ hintLSN' \in [Backends -> Nat]
        /\ delay' \in SUBSET Backends
    BY <1>1, Zenon DEF HintMark, Goto, TypeOK, Places
  <2> QED
    BY <1>1, <1>6, <1>7, <2>1, ZenonT(60) DEF HintMark, TypeOK
<1>9. PlacesInv' /\ Changing = {} /\ Changing' = {} /\ Flushing' = Flushing
      /\ startup = "up"
  BY <1>1, <1>2, <1>6, <1>7, HintMoves, ZenonT(60) DEF HintMark, HintSteps
<1>10. PositionsInv' /\ LogInv' /\ MediaInv'
  BY <1>1, ZenonT(60) DEF HintMark, PositionsInv, LogInv, Redos, Restores, Reads, MediaInv
<1>11. page.changes = Logged
  BY <1>1, <1>2, <1>4, <1>9, ChangesType DEF RecoveryInv, Found, Logged
<1>12. Reach' \in 0 .. Len(log) /\ Reach <= Reach' /\ page'.lsn <= Reach'
  <2>1. "dirty" \notin flags => Reach = flushed
    BY <1>1, <1>2, <1>3, <1>4, ZenonT(60) DEF PageInv, Reach, Greater
  <2> QED
    BY <1>3, <1>4, <1>5, <1>6, <2>1 DEF HintMark, Reach, Greater
<1>13. \A r \in Nat : Imaged(log, r, Reach) => Imaged(log, r, Reach')
  BY <1>3, <1>12, ImagedMonotonic
<1>14. \A r \in Redos : "dirty" \notin flags /\ hintLSN[p] > r => Imaged(log, r, Reach')
  <2> SUFFICES ASSUME NEW r \in Redos, "dirty" \notin flags, hintLSN[p] > r
               PROVE  Imaged(log, r, Reach')
    BY Zenon
  <2>1. r \in Nat /\ hintLSN[p] \in Nat /\ hintLSN[p] # 0
    <3>1. hintLSN[p] \in Nat
      BY <1>1, Zenon DEF TypeOK
    <3>2. r = control.redo \/ r = insertRedo
      BY Zenon DEF Redos
    <3> QED
      BY <1>4, <3>1, <3>2
  <2>2. Imaged(log, r, hintLSN[p])
    BY <1>5, <2>1, ZenonT(60) DEF Backed
  <2> QED
    BY <1>6, <1>12, <2>1, <2>2, ImagedMonotonic
<1>15. Imaged(log, control.redo, Reach')
  BY <1>1, <1>2, <1>4, <1>5, <1>9, <1>13, <1>14 DEF HintInv, PageInv, Redos
<1>16. PageInv'
  BY <1>1, <1>2, <1>5, <1>6, <1>7, <1>9, <1>11, <1>15 DEF HintMark, PageInv, Holds, Redos
<1>17. RecoveryInv'
  BY <1>1, <1>2, <1>3, <1>6, <1>9, PagesAreReal, ZenonT(60) DEF HintMark, RecoveryInv, Found, Logged
<1>18. HintInv'
  <2> SUFFICES ASSUME NEW q \in Backends
               PROVE  HintInv!(q)'
    BY Zenon DEF HintInv
  <2>1. CASE q = p
    BY <1>1, <2>1, ZenonT(60) DEF HintMark, Goto, TypeOK
  <2>2. CASE q # p
    <3>1. pc'[q] = pc[q] /\ hintLSN'[q] = hintLSN[q]
      BY <1>1, <2>2, ZenonT(60) DEF HintMark, Goto, TypeOK
    <3>2. HintInv!(q)
      BY <1>1, ZenonT(60) DEF HintInv
    <3> QED
      BY <1>4, <1>13, <3>1, <3>2 DEF HintMark, Delays, Redos, Logged
  <2> QED
    BY <2>1, <2>2, Zenon
<1>19. WriteInv'
  BY <1>1, <1>6, <1>7, <1>9, ZenonT(60) DEF HintMark, WriteInv
<1>20. ~Delays(p) => /\ "dirty" \notin flags => Imaged(log, insertRedo, Reach')
                     /\ Imaged(log, insertRedo, Len(log))
  <2> SUFFICES ASSUME ~Delays(p)
               PROVE  /\ "dirty" \notin flags => Imaged(log, insertRedo, Reach')
                      /\ Imaged(log, insertRedo, Len(log))
    BY Zenon
  <2>1. CASE hintLSN[p] = 0
    <3>1. Imaged(log, insertRedo, Reach')
      <4>1. Imaged(log, insertRedo, Reach)
        BY <1>1, <1>2, <2>1, ZenonT(60) DEF HintInv
      <4>2. insertRedo \in Nat
        BY <1>4
      <4> QED
        BY <1>13, <4>1, <4>2, Zenon
    <3> QED
      BY <1>4, <1>12, <3>1, ImagedMonotonic
  <2>2. CASE hintLSN[p] # 0
    <3>1. Imaged(log, insertRedo, hintLSN[p])
      BY <1>4, <1>5, <2>2, ZenonT(60) DEF Backed, Redos
    <3>2. Imaged(log, insertRedo, Len(log))
      BY <1>4, <1>5, <2>2, <3>1, ImagedMonotonic
    <3> QED
      BY <1>4, <1>5, <1>14, <2>2, <3>2, ZenonT(60) DEF Redos
  <2> QED
    BY <2>1, <2>2, Zenon
<1>21. ProgressInv'
  BY <1>1, <1>4, <1>7, <1>9, <1>13, <1>20 DEF HintMark, ProgressInv, Delays
<1> QED
  BY <1>8, <1>9, <1>10, <1>16, <1>17, <1>18, <1>19, <1>21, Zenon DEF IInv

-----------------------------------------------------------------------------
(* A logged change                                                         *)

(***************************************************************************)
(* A backend with the exclusive content lock changes the page and marks    *)
(* the buffer dirty, before it logs the change.                            *)
(***************************************************************************)
LEMMA ChangePageStep ==
  ASSUME IInv, NEW p \in Backends, ChangePage(p)
  PROVE  IInv'
<1> USE DEF pageVars, logVars, redoVars, startVars, FileImage
<1>1. /\ TypeOK /\ PlacesInv /\ PositionsInv /\ LogInv /\ MediaInv /\ PageInv
      /\ RecoveryInv /\ HintInv /\ WriteInv /\ ProgressInv
  BY Zenon DEF IInv
<1>2. /\ page # NoPage /\ pc[p] = "idle" /\ startup = "up"
      /\ Changing = {} /\ Hinting = {} /\ Flushing = {}
  BY Zenon DEF ChangePage, CanLockExclusive
<1>3. page \in Pages /\ page.lsn \in 0 .. Len(log) /\ page.changes \in Nat
  BY <1>1, <1>2, PageBounds, ZenonT(60)
<1>4. /\ page' \in Pages /\ page'.changes = page.changes + 1 /\ page' # NoPage
      /\ page'.lsn = page.lsn
  <2>1. [page EXCEPT !.changes = @ + 1] \in Pages
    BY <1>3 DEF Pages
  <2> QED
    BY <1>3, <2>1, PagesAreReal, ZenonT(60) DEF ChangePage, Pages
<1>5. flags' = flags \union {"dirty", "just_dirtied"}
  BY Zenon DEF ChangePage, MarkBufferDirty
<1>6. pc' \in [Backends -> Places] /\ pc' = [pc EXCEPT ![p] = "log_change"]
  BY <1>1, Zenon DEF ChangePage, Goto, TypeOK, Places
<1>7. TypeOK'
  BY <1>1, <1>4, <1>5, <1>6, ZenonT(60) DEF ChangePage, TypeOK
<1>8. Changing' = {p} /\ Hinting' = {} /\ Flushing' = {}
  BY <1>1, <1>2, <1>6 DEF ChangePage, Changing, Hinting, Flushing, TypeOK
<1>9. delay = {} /\ delay' = {q \in Backends : pc'[q] \in HintSteps \ {"hint_test"}}
  BY <1>1, <1>2, <1>6, ZenonT(60) DEF ChangePage, PlacesInv, Hinting, HintSteps, TypeOK
<1>10. PlacesInv'
  BY <1>1, <1>2, <1>4, <1>5, <1>8, <1>9, Zenon DEF ChangePage, PlacesInv
<1>11. PositionsInv' /\ LogInv' /\ MediaInv'
  BY <1>1, ZenonT(60) DEF ChangePage, PositionsInv, LogInv, Redos, Restores, Reads, MediaInv
<1>12. page.changes = Changes(log, page.lsn) /\ page.changes = Logged
  BY <1>1, <1>2, <1>3, ChangesType DEF PageInv, Holds, RecoveryInv, Found, Logged
<1>13. PageInv'
  BY <1>1, <1>2, <1>4, <1>5, <1>8, <1>12, ZenonT(60) DEF ChangePage, PageInv, Redos
<1>14. RecoveryInv'
  BY <1>2, <1>4, <1>8, <1>12, PagesAreReal, ZenonT(60) DEF ChangePage, RecoveryInv, Found, Logged
<1>15. HintInv'
  BY <1>1, <1>2, <1>6, <1>8, ZenonT(60) DEF ChangePage, HintInv, Hinting, TypeOK
<1>16. WriteInv'
  BY <1>8, Zenon DEF WriteInv
<1>17. ProgressInv'
  <2>1. ckpt.step # "writing"
    BY <1>1, <1>2, ZenonT(60) DEF PlacesInv, Flushing, Writers
  <2> QED
    BY <1>1, <1>2, <1>5, <1>8, <2>1, ZenonT(60) DEF ChangePage, ProgressInv
<1> QED
  BY <1>7, <1>10, <1>11, <1>13, <1>14, <1>15, <1>16, <1>17, ZenonT(60) DEF IInv

(***************************************************************************)
(* XLogInsert logs the change, with an image if the page has none after    *)
(* the redo pointer, and puts the record's end on the page.                *)
(***************************************************************************)
LEMMA LogChangeStep ==
  ASSUME IInv, NEW p \in Backends, LogChange(p)
  PROVE  IInv'
<1> USE DEF logVars, redoVars, startVars, FileImage
<1>1. /\ TypeOK /\ PlacesInv /\ PositionsInv /\ LogInv /\ MediaInv /\ PageInv
      /\ RecoveryInv /\ HintInv /\ WriteInv /\ ProgressInv
  BY Zenon DEF IInv
<1>2. /\ Changing = {p} /\ Hinting = {} /\ Flushing = {} /\ "dirty" \in flags
      /\ page # NoPage /\ startup = "up" /\ pc[p] = "log_change"
  BY <1>1, Zenon DEF LogChange, PlacesInv, Changing
<1>3. cached' \in [Backends -> [redo : Nat, doPageWrites : BOOLEAN]]
  BY <1>1, Zenon DEF LogChange, RefreshCached, TypeOK
<1>4. CASE MustReassemble(p, page)
  <2>1. UNCHANGED <<page, pc, log>>
    BY <1>4, Zenon DEF LogChange
  <2>2. TypeOK'
    BY <1>1, <1>3, <2>1, ZenonT(60) DEF LogChange, TypeOK
  <2>3. PositionsInv' /\ LogInv' /\ MediaInv'
    BY <1>1, <2>1, ZenonT(60) DEF LogChange, PositionsInv, LogInv, Redos, Restores, Reads, MediaInv
  <2>4. PlacesInv'
    BY <1>1, <2>1 DEF LogChange, PlacesInv, Changing, Hinting, Flushing
  <2>5. PageInv' /\ RecoveryInv' /\ WriteInv' /\ ProgressInv'
    BY <1>1, <2>1, ZenonT(60) DEF LogChange, PageInv, Redos, Reach, RecoveryInv,
          Found, Logged, WriteInv, ProgressInv, Changing, Flushing
  <2>6. HintInv'
    BY <1>1, <1>2, <2>1, Zenon DEF LogChange, HintInv, Hinting
  <2> QED
    BY <2>2, <2>3, <2>5, <2>6, <2>4, ZenonT(60) DEF IInv
<1>5. CASE ~MustReassemble(p, page)
  <2> DEFINE e == Record("change", IF NeedsBackup(p, page) THEN page ELSE NoImage)
  <2>1. /\ log' = Append(log, e)
        /\ page' = [page EXCEPT !.lsn = Len(log')]
        /\ pc' = [pc EXCEPT ![p] = "idle"]
    BY <1>5, Zenon DEF LogChange, Goto
  <2>2. /\ Len(log) \in Nat /\ log \in Seq(Records)
        /\ flushed \in 0 .. Len(log) /\ control.redo \in 0 .. Len(log)
        /\ insertRedo \in 0 .. Len(log)
        /\ \A i \in DOMAIN media : media[i] \in Pages \union {Torn}
        /\ \A x \in Pages : x.lsn \in Nat /\ x.changes \in Nat
    BY <1>1, Bounds, ZenonT(60)
  <2>3. /\ page \in Pages /\ page.lsn \in 0 .. Len(log) /\ page.changes \in Nat
        /\ Backed(log, Redos, page.lsn)
    BY <1>1, <1>2, PageBounds, ZenonT(60) DEF PageInv
  <2>4. page.changes = Logged + 1 /\ Logged \in Nat
    BY <1>1, <1>2, <2>2, ChangesType, ZenonT(60) DEF RecoveryInv, Found, Logged
  <2>5. /\ e \in Records /\ e.type = "change"
        /\ e.image # NoImage => e.image = page
    BY <2>3, Zenon DEF Record, Records, RecordTypes
  <2>6. \A r \in Redos : Imaged(log', r, Len(log'))
    BY <1>5, <2>1, <2>2, <2>3, InsertBacked DEF RecordTypes
  <2>7. Redos' = Redos
    BY Zenon DEF LogChange, Redos
  <2> HIDE DEF e
  <2>8. e.image = NoImage => \A r \in Redos' : Imaged(log, r, Len(log))
    <3> SUFFICES ASSUME e.image = NoImage, NEW r \in Redos'
                 PROVE  Imaged(log, r, Len(log))
      BY Zenon
    <3>1. r \in Redos
      BY <2>7, Zenon
    <3>2. r = control.redo \/ r = insertRedo
      BY <3>1, Zenon DEF Redos
    <3>3. r \in Nat
      BY <2>2, <3>2
    <3>4. r \in Nat /\ Imaged(log', r, Len(log'))
      BY <2>6, <3>1, <3>3, Zenon
    <3>5. Len(log') = Len(log) + 1 /\ log'[Len(log) + 1].image = NoImage
          /\ \A i \in 1 .. Len(log) : log'[i] = log[i]
      BY <2>1, <2>2, <2>5
    <3> QED
      BY <2>2, <3>4, <3>5 DEF Imaged
  <2>9. /\ LogInv' /\ Logged' = Logged + 1
        /\ log' \in Seq(Records) /\ Len(log') = Len(log) + 1
        /\ \A n \in 0 .. Len(log) : Changes(log', n) = Changes(log, n)
        /\ \A r \in Nat, n \in 0 .. Len(log) : Imaged(log', r, n) <=> Imaged(log, r, n)
        /\ \A r \in Nat : Imaged(log, r, Len(log)) => Imaged(log', r, Len(log'))
        /\ \A n \in 0 .. Len(log) : Backed(log, Redos, n) => Backed(log', Redos', n)
        /\ \A x \in Pages : Holds(log, x) => Holds(log', x)
    BY <2>1, <2>4, <2>5, <2>8, LogGrows, ZenonT(60) DEF LogChange
  <2>10. /\ page' \in Pages /\ page'.lsn = Len(log) + 1 /\ page'.changes = page.changes
         /\ page' # NoPage
    <3>1. [page EXCEPT !.lsn = Len(log')] \in Pages
      <4>1. Len(log') \in Nat
        BY <2>2, <2>9
      <4> QED
        BY <2>3, <4>1, Zenon DEF Pages
    <3> QED
      BY <2>1, <2>3, <2>9, <3>1, PagesAreReal, ZenonT(60) DEF Pages
  <2>11. pc' \in [Backends -> Places] /\ Changing' = {} /\ Hinting' = {} /\ Flushing' = {}
    BY <1>1, <1>2, <2>1 DEF LogChange, TypeOK, Places, Changing, Hinting, Flushing
  <2>12. TypeOK'
    BY <1>1, <1>3, <2>9, <2>10, <2>11, Zenon DEF LogChange, TypeOK
  <2>13. delay' = {q \in Backends : pc'[q] \in HintSteps \ {"hint_test"}}
    BY <1>1, <2>1, ZenonT(60) DEF LogChange, PlacesInv, HintSteps, TypeOK
  <2>14. PlacesInv'
    BY <1>1, <1>2, <2>10, <2>11, <2>13, ZenonT(60) DEF LogChange, PlacesInv
  <2>15. PositionsInv'
    BY <1>1, <1>2, <2>2, <2>9 DEF LogChange, PositionsInv, TypeOK
  <2>16. MediaInv'
    BY <1>1, <2>2, <2>9 DEF LogChange, MediaInv
  <2>17. Reach' = Len(log')
    BY <2>2, <2>9, <2>10 DEF LogChange, Reach, Greater
  <2>18. PageInv'
    <3>1. Backed(log', Redos', Len(log'))
      BY <2>6, <2>7, ZenonT(60) DEF Backed
    <3>2. Holds(log', page')
      BY <2>2, <2>4, <2>9, <2>10 DEF Holds, Logged
    <3> QED
      BY <1>2, <2>2, <2>6, <2>9, <2>10, <2>11, <2>17, <3>1, <3>2
         DEF LogChange, PageInv, Redos
  <2>19. RecoveryInv'
    BY <1>2, <2>4, <2>9, <2>10, <2>11, PagesAreReal DEF LogChange, RecoveryInv, Found
  <2>20. HintInv'
    BY <1>1, <1>2, <2>11, ZenonT(60) DEF LogChange, HintInv, Hinting
  <2>21. WriteInv'
    BY <2>11, ZenonT(60) DEF WriteInv
  <2>22. ProgressInv'
    <3>1. ckpt.step # "writing"
      BY <1>1, <1>2, ZenonT(60) DEF PlacesInv, Flushing, Writers
    <3>2. Imaged(log', insertRedo, Len(log'))
      BY <2>6, Zenon DEF Redos
    <3> QED
      BY <1>1, <2>2, <2>9, <2>17, <3>1, <3>2 DEF LogChange, ProgressInv, Safe
  <2> QED
    BY <2>9, <2>12, <2>14, <2>15, <2>16, <2>18, <2>19, <2>20, <2>21, <2>22, Zenon DEF IInv
<1> QED
  BY <1>4, <1>5, ZenonT(60)

-----------------------------------------------------------------------------
(* Writing the page                                                        *)

(***************************************************************************)
(* The background writer starts to write the dirty buffer out.             *)
(***************************************************************************)
LEMMA BgWriteStep ==
  ASSUME IInv, BgWrite
  PROVE  IInv'
<1> USE DEF backendVars, logVars, redoVars, startVars, FileImage
<1>1. /\ TypeOK /\ PlacesInv /\ PositionsInv /\ LogInv /\ MediaInv /\ PageInv
      /\ RecoveryInv /\ HintInv /\ WriteInv /\ ProgressInv
  BY Zenon DEF IInv
<1>2. /\ page # NoPage /\ "dirty" \in flags /\ Changing = {} /\ Flushing = {}
      /\ writer' = [writer EXCEPT !["bgwriter"] = [step |-> "io", recptr |-> page.lsn]]
      /\ flags' = flags \ {"just_dirtied"}
  BY Zenon DEF BgWrite, FlushStart, CanLockShare
<1>3. page \in Pages /\ page.lsn \in Nat
  BY <1>1, <1>2, PageBounds
<1>4. writer' \in [Writers -> [step : {"idle", "io", "written"}, recptr : Nat]]
  BY <1>1, <1>2, <1>3, ZenonT(60) DEF TypeOK
<1>5. TypeOK'
  BY <1>1, <1>2, <1>4, ZenonT(60) DEF BgWrite, TypeOK
<1>6. Changing' = {} /\ Hinting' = Hinting /\ Flushing' = {"bgwriter"}
  BY <1>1, <1>2, ZenonT(60) DEF BgWrite, Changing, Hinting, Flushing, TypeOK, Writers
<1>7. writer'["checkpointer"] = writer["checkpointer"]
      /\ writer'["bgwriter"] = [step |-> "io", recptr |-> page.lsn]
  BY <1>1, <1>2, Zenon DEF TypeOK, Writers
<1>8. PlacesInv'
  BY <1>1, <1>2, <1>6, <1>7, ZenonT(60) DEF BgWrite, PlacesInv
<1>9. PositionsInv' /\ LogInv' /\ MediaInv'
  BY <1>1, ZenonT(60) DEF BgWrite, PositionsInv, LogInv, Redos, Restores, Reads, MediaInv
<1>10. PageInv' /\ RecoveryInv'
  BY <1>1, <1>2, <1>6, ZenonT(60) DEF BgWrite, PageInv, Redos, Reach, RecoveryInv, Found, Logged
<1>11. HintInv'
  BY <1>1, ZenonT(60) DEF BgWrite, HintInv, Reach, Delays, Redos, Logged
<1>12. WriteInv'
  BY <1>2, <1>6, <1>7 DEF BgWrite, WriteInv
<1>13. ProgressInv'
  BY <1>1, <1>2, <1>6, ZenonT(60) DEF BgWrite, ProgressInv, Reach
<1> QED
  BY <1>5, <1>8, <1>9, <1>10, <1>11, <1>12, <1>13, ZenonT(60) DEF IInv

(***************************************************************************)
(* What redo or a backend finds has all the changes before the redo        *)
(* pointer of a checkpoint in progress.                                    *)
(***************************************************************************)
LEMMA FoundSafe ==
  ASSUME IInv, startup # "redo"
  PROVE  Safe(log, insertRedo, Found)
<1>1. TypeOK /\ PositionsInv /\ RecoveryInv
  BY Zenon DEF IInv
<1>2. insertRedo \in 0 .. Len(log) /\ Len(log) \in Nat
  BY <1>1, Bounds, Zenon
<1>3. Found # Torn /\ Found.changes = Logged + IF Changing = {} THEN 0 ELSE 1
  BY <1>1, Zenon DEF RecoveryInv, TypeOK
<1>4. Changes(log, insertRedo) <= Logged /\ Changes(log, insertRedo) \in Nat /\ Logged \in Nat
  BY <1>2, ChangesMonotonic, ChangesType DEF Logged
<1> QED
  BY <1>3, <1>4 DEF Safe

(***************************************************************************)
(* FlushBuffer flushes the log up to the LSN it read and writes the page   *)
(* to the file; until the next fsync the disk may hold any part of it.     *)
(***************************************************************************)
LEMMA FlushWriteStep ==
  ASSUME IInv, NEW w \in Writers, FlushWrite(w)
  PROVE  IInv'
<1> USE DEF pageVars, backendVars, redoVars, startVars
<1>1. /\ TypeOK /\ PlacesInv /\ PositionsInv /\ LogInv /\ MediaInv /\ PageInv
      /\ RecoveryInv /\ HintInv /\ WriteInv /\ ProgressInv
  BY Zenon DEF IInv
<1>2. /\ Flushing = {w} /\ Changing = {} /\ "dirty" \in flags
      /\ writer[w].step = "io" /\ writer[w].recptr = page.lsn /\ page # NoPage
  BY <1>1, Zenon DEF FlushWrite, PlacesInv, Flushing, WriteInv
<1>3. /\ page \in Pages /\ page.lsn \in 0 .. Len(log) /\ page.changes \in Nat
      /\ Reach \in 0 .. Len(log) /\ page.lsn <= Reach /\ flushed <= Reach
  BY <1>1, <1>2, PageBounds, ZenonT(60)
<1>4. /\ Len(log) \in Nat /\ log \in Seq(Records)
      /\ flushed \in 0 .. Len(log) /\ control.redo \in 0 .. Len(log)
      /\ insertRedo \in 0 .. Len(log)
      /\ \A i \in DOMAIN media : media[i] \in Pages \union {Torn}
      /\ \A x \in Pages : x.lsn \in Nat /\ x.changes \in Nat
  BY <1>1, Bounds, Zenon
<1>5. flushed' = Reach /\ Reach' = Reach
  BY <1>2, <1>3, <1>4, ZenonT(60) DEF FlushWrite, Reach, Greater
<1>6. /\ media' \in Seq(Pages \union {Torn}) /\ media' # <<>>
      /\ media \in Seq(Pages \union {Torn}) /\ Len(media') = Len(media) + 1
      /\ Len(media) \in Nat
      /\ \A i \in 1 .. Len(media) : media'[i] = media[i]
      /\ media'[Len(media) + 1] = page
      /\ DOMAIN media' = 1 .. Len(media) + 1 /\ DOMAIN media = 1 .. Len(media)
  <2>1. media' = Append(media, page) /\ media \in Seq(Pages \union {Torn})
    BY <1>1, Zenon DEF FlushWrite, TypeOK
  <2> QED
    BY <1>3, <2>1
<1>7. FileImage' = page
  BY <1>6, Zenon DEF FileImage
<1>8. writer' \in [Writers -> [step : {"idle", "io", "written"}, recptr : Nat]]
      /\ writer'[w].step = "written" /\ Flushing' = Flushing
      /\ writer'[w].recptr = writer[w].recptr
      /\ (writer'["checkpointer"].step # "idle" <=> writer["checkpointer"].step # "idle")
  <2>1. writer' = [writer EXCEPT ![w].step = "written"]
        /\ writer \in [Writers -> [step : {"idle", "io", "written"}, recptr : Nat]]
    BY <1>1, Zenon DEF FlushWrite, TypeOK
  <2>2. writer' \in [Writers -> [step : {"idle", "io", "written"}, recptr : Nat]]
    BY <2>1, ZenonT(60)
  <2>3. \A v \in Writers : writer'[v].step # "idle" <=> writer[v].step # "idle"
    BY <1>2, <2>1, ZenonT(60)
  <2> QED
    BY <2>1, <2>2, <2>3, Zenon DEF Flushing, Writers
<1>9. TypeOK'
  <2>1. flushed' \in Nat
    BY <1>3, <1>4, <1>5
  <2>2. UNCHANGED <<pageVars, backendVars, log, redoVars, control, ckpt, startVars>>
    BY Zenon DEF FlushWrite
  <2> QED
    BY <1>1, <1>6, <1>8, <2>1, <2>2, ZenonT(60) DEF TypeOK
<1>10. PlacesInv' /\ Changing' = {}
  BY <1>1, <1>2, <1>8, ZenonT(60) DEF FlushWrite, PlacesInv, Changing, Hinting
<1>11. PositionsInv'
  <2>1. startup = "redo" => Reach = flushed
    <3>1. startup = "redo" => flushed = Len(log)
      BY <1>1, Zenon DEF PositionsInv
    <3> QED
      BY <1>3, <1>4, <3>1
  <2> QED
    <3>1. UNCHANGED <<control, insertRedo, infoRedo, log, ckpt, startup, replayed>>
      BY Zenon DEF FlushWrite
    <3>2. /\ Reach <= Len(log)
          /\ control.redo <= flushed => control.redo <= Reach
          /\ insertRedo <= flushed => insertRedo <= Reach
      BY <1>3, <1>4
    <3> QED
      BY <1>1, <1>5, <2>1, <3>1, <3>2, ZenonT(60) DEF PositionsInv
<1>12. LogInv'
  BY <1>1, Zenon DEF FlushWrite, LogInv, Redos, Restores, Reads
<1>13. Imaged(log, control.redo, flushed')
  BY <1>1, <1>2, <1>5, ZenonT(60) DEF PageInv
<1>14. Changes(log, control.redo) <= page.changes
  <2>1. CASE control.redo <= page.lsn
    BY <1>1, <1>2, <1>3, <1>4, <2>1, ChangesMonotonic DEF PageInv, Holds
  <2>2. CASE startup # "redo"
    <3>1. page.changes = Logged
      BY <1>1, <1>2, <1>4, <2>2, ChangesType DEF RecoveryInv, Found, Logged, TypeOK
    <3> QED
      BY <1>4, <3>1, ChangesMonotonic DEF Logged
  <2>3. CASE startup = "redo"
    <3>1. page # Torn /\ replayed \in Nat /\ control.redo <= replayed
      BY <1>1, <1>3, <2>3, PagesAreReal, ZenonT(60) DEF PositionsInv, TypeOK
    <3>2. Changes(log, replayed) <= page.changes
      BY <1>1, <1>2, <2>3, <3>1, ZenonT(60) DEF RecoveryInv, Found
    <3> QED
      BY <1>3, <1>4, <3>1, <3>2, ChangesMonotonic, ChangesType
  <2> QED
    BY <2>2, <2>3, ZenonT(60)
<1>15. MediaInv'
  <2>1. ASSUME NEW i \in DOMAIN media', media'[i] # Torn
        PROVE  /\ Holds(log, media'[i]) /\ media'[i].lsn <= flushed'
               /\ Changes(log, control.redo) <= media'[i].changes
               /\ Backed(log, Redos, media'[i].lsn)
    <3>1. CASE i \in 1 .. Len(media)
      <4>1. media[i] \in Pages /\ media[i] # Torn /\ media'[i] = media[i]
            /\ media[i].lsn \in Nat
        BY <1>4, <1>6, <2>1, <3>1, Zenon
      <4> QED
        <5>1. /\ Holds(log, media[i]) /\ media[i].lsn <= flushed
              /\ Changes(log, control.redo) <= media[i].changes
              /\ Backed(log, Redos, media[i].lsn)
          BY <1>1, <1>6, <3>1, <4>1, Zenon DEF MediaInv
        <5>2. media[i].lsn <= Reach
          BY <1>3, <1>4, <4>1, <5>1
        <5> QED
          BY <1>5, <4>1, <5>1, <5>2, Zenon
    <3>2. CASE i = Len(media) + 1
      BY <1>1, <1>2, <1>3, <1>5, <1>6, <1>14, <3>2, ZenonT(60) DEF PageInv
    <3> QED
      BY <1>6, <3>1, <3>2
  <2> QED
    BY <1>13, <2>1, ZenonT(60) DEF FlushWrite, MediaInv, Redos
<1>16. PageInv'
  BY <1>1, <1>2, <1>5, <1>10, ZenonT(60) DEF FlushWrite, PageInv, Redos
<1>17. RecoveryInv'
  BY <1>1, <1>2, <1>10, ZenonT(60) DEF FlushWrite, RecoveryInv, Found, Logged
<1>18. HintInv'
  BY <1>1, <1>5, ZenonT(60) DEF FlushWrite, HintInv, Delays, Redos, Logged
<1>19. WriteInv'
  BY <1>1, <1>2, <1>3, <1>5, <1>7, <1>8, PagesAreReal, ZenonT(60) DEF FlushWrite, WriteInv
<1>20. ckpt.step # "idle" => Safe(log, insertRedo, page)
  BY <1>1, <1>2, FoundSafe, ZenonT(60) DEF PlacesInv, Found
<1>21. ckpt.step \in {"record", "control"} =>
         \A i \in DOMAIN media' : Safe(log, insertRedo, media'[i])
  BY <1>1, <1>6, <1>20 DEF ProgressInv
<1>22. ProgressInv'
  BY <1>1, <1>2, <1>5, <1>7, <1>10, <1>20, <1>21, ZenonT(60) DEF FlushWrite, ProgressInv
<1> QED
  BY <1>9, <1>10, <1>11, <1>12, <1>15, <1>16, <1>17, <1>18, <1>19, <1>22, ZenonT(60) DEF IInv

(***************************************************************************)
(* TerminateBufferIO marks the buffer clean, unless it was dirtied during  *)
(* the write.                                                              *)
(***************************************************************************)
LEMMA FlushDoneStep ==
  ASSUME IInv, NEW w \in Writers, FlushDone(w)
  PROVE  IInv'
<1> USE DEF backendVars, logVars, redoVars, startVars, FileImage
<1>1. /\ TypeOK /\ PlacesInv /\ PositionsInv /\ LogInv /\ MediaInv /\ PageInv
      /\ RecoveryInv /\ HintInv /\ WriteInv /\ ProgressInv
  BY Zenon DEF IInv
<1>2. /\ Flushing = {w} /\ Changing = {} /\ page # NoPage
      /\ page.lsn <= flushed /\ FileImage # Torn /\ FileImage.changes = page.changes
  BY <1>1, Zenon DEF FlushDone, PlacesInv, Flushing, WriteInv
<1>3. flags' = IF "just_dirtied" \in flags THEN flags ELSE flags \ {"dirty", "checkpoint_needed"}
  BY Zenon DEF FlushDone
<1>4. /\ writer' \in [Writers -> [step : {"idle", "io", "written"}, recptr : Nat]]
      /\ Flushing' = {} /\ writer'["checkpointer"].step = "idle"
  <2>1. /\ writer' = [writer EXCEPT ![w] = IdleWriter]
        /\ writer \in [Writers -> [step : {"idle", "io", "written"}, recptr : Nat]]
        /\ IdleWriter \in [step : {"idle", "io", "written"}, recptr : Nat]
        /\ IdleWriter.step = "idle"
    BY <1>1, Zenon DEF FlushDone, TypeOK, IdleWriter
  <2>2. \A v \in Writers : writer'[v].step = "idle"
    BY <1>2, <2>1, Zenon DEF Flushing
  <2> QED
    BY <2>1, <2>2, ZenonT(60) DEF Flushing, Writers
<1>5. /\ w = "checkpointer" <=> ckpt.step = "writing"
      /\ ckpt'.step = IF ckpt.step = "writing" THEN "fsync" ELSE ckpt.step
      /\ ckpt'.redo = ckpt.redo /\ ckpt'.vxids = ckpt.vxids
      /\ ckpt' \in [step : CheckpointSteps, redo : Nat, vxids : SUBSET Backends,
                    recptr : Nat, shutdown : BOOLEAN]
  <2>1. w = "checkpointer" <=> ckpt.step = "writing"
    BY <1>1, <1>2, ZenonT(60) DEF PlacesInv, Flushing, Writers
  <2>2. [ckpt EXCEPT !.step = "fsync"] \in
          [step : CheckpointSteps, redo : Nat, vxids : SUBSET Backends,
           recptr : Nat, shutdown : BOOLEAN]
    BY <1>1, Zenon DEF TypeOK, CheckpointSteps
  <2> QED
    BY <1>1, <2>1, <2>2, ZenonT(60) DEF FlushDone, TypeOK
<1>6. TypeOK'
  BY <1>1, <1>3, <1>4, <1>5, ZenonT(60) DEF FlushDone, TypeOK
<1>7. PlacesInv' /\ Changing' = {}
  BY <1>1, <1>2, <1>3, <1>4, <1>5 DEF FlushDone, PlacesInv, Changing, Hinting
<1>8. PositionsInv' /\ LogInv' /\ MediaInv'
  BY <1>1, <1>5, ZenonT(60) DEF FlushDone, PositionsInv, LogInv, Redos, Restores, Reads, MediaInv
<1>9. PageInv' /\ RecoveryInv'
  BY <1>1, <1>2, <1>3, <1>7, Zenon DEF FlushDone, PageInv, Redos, Reach, RecoveryInv, Found, Logged
<1>10. HintInv'
  BY <1>1, <1>5, ZenonT(60) DEF FlushDone, HintInv, Reach, Delays, Redos, Logged
<1>11. WriteInv'
  BY <1>4, Zenon DEF WriteInv
<1>12. ckpt.step # "idle" => Safe(log, insertRedo, FileImage)
  BY <1>1, <1>2, FoundSafe, Zenon DEF PlacesInv, Found, Safe
<1>13. ProgressInv'
  BY <1>1, <1>2, <1>3, <1>5, <1>7, <1>12, ZenonT(60) DEF FlushDone, ProgressInv, Reach
<1> QED
  BY <1>6, <1>7, <1>8, <1>9, <1>10, <1>11, <1>13, ZenonT(60) DEF IInv

-----------------------------------------------------------------------------
(* The checkpoint                                                          *)

(***************************************************************************)
(* CreateCheckPoint takes the end of the log as the new redo pointer, with *)
(* all insertions stopped.                                                 *)
(***************************************************************************)
LEMMA BeginCheckpointStep ==
  ASSUME IInv, BeginCheckpoint
  PROVE  IInv'
<1> USE DEF pageVars, backendVars, startVars, FileImage
<1>1. /\ TypeOK /\ PlacesInv /\ PositionsInv /\ LogInv /\ MediaInv /\ PageInv
      /\ RecoveryInv /\ HintInv /\ WriteInv /\ ProgressInv
  BY Zenon DEF IInv
<1>2. startup = "up" /\ ckpt.step = "idle" /\ insertRedo' = Len(log)
  BY Zenon DEF BeginCheckpoint
<1>3. /\ Len(log) \in Nat /\ log \in Seq(Records)
      /\ flushed \in 0 .. Len(log) /\ control.redo \in 0 .. Len(log)
      /\ insertRedo \in 0 .. Len(log)
      /\ \A i \in DOMAIN media : media[i] \in Pages \union {Torn}
      /\ \A x \in Pages : x.lsn \in Nat /\ x.changes \in Nat
  BY <1>1, Bounds, Zenon
<1> DEFINE e == Record("redo", NoImage)
<1>4. e \in Records /\ e.type # "change" /\ e.image = NoImage /\ log' = Append(log, e)
  BY Zenon DEF Record, Records, RecordTypes, BeginCheckpoint, InsertPlain
<1> HIDE DEF e
<1>5. /\ LogInv' /\ Logged' = Logged + IF e.type = "change" THEN 1 ELSE 0
      /\ log' \in Seq(Records) /\ Len(log') = Len(log) + 1
      /\ \A n \in 0 .. Len(log) : Changes(log', n) = Changes(log, n)
      /\ \A r \in Nat, n \in 0 .. Len(log) : Imaged(log', r, n) <=> Imaged(log, r, n)
      /\ \A n \in 0 .. Len(log) : Backed(log, Redos, n) => Backed(log', Redos', n)
      /\ \A x \in Pages : Holds(log, x) => Holds(log', x)
  BY <1>2, <1>4, LogGrows, ZenonT(60) DEF BeginCheckpoint
<1>6. Logged' = Logged
  BY <1>3, <1>4, <1>5, ChangesType DEF Logged
<1>7. /\ ckpt'.step = "publish" /\ ckpt'.redo = Len(log)
      /\ ckpt' \in [step : CheckpointSteps, redo : Nat, vxids : SUBSET Backends,
                    recptr : Nat, shutdown : BOOLEAN]
  <2>1. ckpt' = [ckpt EXCEPT !.step = "publish", !.redo = Len(log)]
    BY Zenon DEF BeginCheckpoint
  <2> QED
    BY <1>1, <1>3, <2>1, ZenonT(60) DEF TypeOK, CheckpointSteps
<1>8. TypeOK'
  BY <1>1, <1>2, <1>3, <1>5, <1>7, ZenonT(60) DEF BeginCheckpoint, TypeOK
<1>9. PlacesInv' /\ Changing' = Changing /\ Flushing' = Flushing
  BY <1>1, <1>2, <1>7 DEF BeginCheckpoint, PlacesInv, Changing, Hinting, Flushing
<1>10. PositionsInv'
  BY <1>1, <1>2, <1>3, <1>5, <1>7 DEF BeginCheckpoint, PositionsInv, TypeOK
<1>11. MediaInv'
  BY <1>1, <1>3, <1>5 DEF BeginCheckpoint, MediaInv
<1>12. page # NoPage =>
        (Imaged(log, control.redo, Reach) => Imaged(log', control.redo, Reach'))
  BY <1>1, <1>3, <1>5, PageBounds DEF BeginCheckpoint, Reach
<1>13. page # NoPage => page \in Pages /\ page.lsn \in 0 .. Len(log)
  BY <1>1, PageBounds, Zenon
<1>14. page # NoPage => Changes(log', page.lsn) = Changes(log, page.lsn)
  BY <1>5, <1>13, ZenonT(60)
<1>15. PageInv'
  BY <1>1, <1>5, <1>9, <1>12, <1>13, <1>14 DEF BeginCheckpoint, PageInv, PlacesInv
<1>16. RecoveryInv'
  BY <1>1, <1>2, <1>6, <1>9, ZenonT(60) DEF BeginCheckpoint, RecoveryInv, Found
<1>17. HintInv'
  <2> SUFFICES ASSUME NEW q \in Backends
               PROVE  HintInv!(q)'
    BY ZenonT(60) DEF HintInv
  <2>1. HintInv!(q)
    BY <1>1, Zenon DEF HintInv
  <2>2. Delays(q)' /\ hintLSN[q] \in Nat /\ cached[q].redo \in Nat
    BY <1>1, <1>7, ZenonT(60) DEF Delays, TypeOK
  <2>3. pc[q] # "idle" => page # NoPage
    BY <1>1, Zenon DEF PlacesInv
  <2>4. pc'[q] = "hint_mark" /\ hintLSN'[q] = 0 => Imaged(log', control'.redo, Reach')
    BY <1>12, <2>1, <2>3, ZenonT(60) DEF BeginCheckpoint
  <2> QED
    BY <1>3, <1>5, <1>6, <2>1, <2>2, <2>4 DEF BeginCheckpoint
<1>18. WriteInv'
  BY <1>1, <1>9, ZenonT(60) DEF BeginCheckpoint, WriteInv
<1>19. ProgressInv'
  BY <1>7, Zenon DEF ProgressInv
<1> QED
  BY <1>5, <1>8, <1>9, <1>10, <1>11, <1>15, <1>16, <1>17, <1>18, <1>19, ZenonT(60) DEF IInv

(***************************************************************************)
(* The checkpoint at the end of recovery has its redo pointer at the end   *)
(* of the replayed log.                                                    *)
(***************************************************************************)
LEMMA BeginEndOfRecoveryStep ==
  ASSUME IInv, BeginEndOfRecovery
  PROVE  IInv'
<1> USE DEF pageVars, backendVars, logVars, startVars, FileImage
<1>1. /\ TypeOK /\ PlacesInv /\ PositionsInv /\ LogInv /\ MediaInv /\ PageInv
      /\ RecoveryInv /\ HintInv /\ WriteInv /\ ProgressInv
  BY Zenon DEF IInv
<1>2. startup = "end" /\ ckpt.step = "idle" /\ insertRedo' = Len(log)
  BY ZenonT(60) DEF BeginEndOfRecovery
<1>3. /\ Len(log) \in Nat /\ log \in Seq(Records)
      /\ flushed \in 0 .. Len(log) /\ control.redo \in 0 .. Len(log)
      /\ insertRedo \in 0 .. Len(log)
      /\ \A i \in DOMAIN media : media[i] \in Pages \union {Torn}
      /\ \A x \in Pages : x.lsn \in Nat /\ x.changes \in Nat
  BY <1>1, Bounds, Zenon
<1>4. /\ ckpt'.step = "publish" /\ ckpt'.redo = Len(log)
      /\ ckpt' \in [step : CheckpointSteps, redo : Nat, vxids : SUBSET Backends,
                    recptr : Nat, shutdown : BOOLEAN]
  <2>1. ckpt' = [ckpt EXCEPT !.step = "publish", !.redo = Len(log), !.shutdown = TRUE]
    BY Zenon DEF BeginEndOfRecovery
  <2> QED
    BY <1>1, <1>3, <2>1, ZenonT(60) DEF TypeOK, CheckpointSteps
<1>5. TypeOK'
  BY <1>1, <1>2, <1>3, <1>4, ZenonT(60) DEF BeginEndOfRecovery, TypeOK
<1>6. PlacesInv' /\ Changing' = Changing /\ Flushing' = Flushing
  BY <1>1, <1>2, <1>4, ZenonT(60) DEF BeginEndOfRecovery, PlacesInv, Changing, Hinting, Flushing
<1>7. PositionsInv'
  BY <1>1, <1>2, <1>3, <1>4 DEF BeginEndOfRecovery, PositionsInv, TypeOK
<1>8. \A n \in 0 .. Len(log) : Backed(log, Redos, n) => Backed(log, Redos', n)
  BY <1>2, <1>3 DEF BeginEndOfRecovery, Backed, Redos
<1>9. LogInv'
  BY <1>1, <1>2, <1>3 DEF BeginEndOfRecovery, LogInv, Redos, Restores, Reads
<1>10. MediaInv'
  <2>1. \A i \in DOMAIN media : media[i] # Torn => media[i].lsn \in 0 .. Len(log)
    BY <1>1, <1>3 DEF MediaInv
  <2> QED
    BY <1>1, <1>8, <2>1, Zenon DEF BeginEndOfRecovery, MediaInv
<1>11. PageInv'
  <2>1. page # NoPage => page.lsn \in 0 .. Len(log)
    BY <1>1, PageBounds, Zenon
  <2> QED
    BY <1>1, <1>6, <1>8, <2>1, ZenonT(60) DEF BeginEndOfRecovery, PageInv, Reach
<1>12. RecoveryInv'
  BY <1>1, <1>2, <1>6, ZenonT(60) DEF BeginEndOfRecovery, RecoveryInv, Found, Logged
<1>13. HintInv'
  BY <1>1, <1>2, Zenon DEF BeginEndOfRecovery, HintInv, PlacesInv
<1>14. WriteInv'
  BY <1>1, <1>6, ZenonT(60) DEF BeginEndOfRecovery, WriteInv
<1>15. ProgressInv'
  BY <1>4, Zenon DEF ProgressInv
<1> QED
  BY <1>5, <1>6, <1>7, <1>9, <1>10, <1>11, <1>12, <1>13, <1>14, <1>15, ZenonT(60) DEF IInv

(***************************************************************************)
(* A step of the checkpointer that changes nothing but ckpt and a flag.    *)
(***************************************************************************)
LEMMA CheckpointerMoves ==
  ASSUME IInv, NEW s \in CheckpointSteps \ {"idle", "writing", "control"},
         ckpt.step \notin {"idle", "writing", "publish"}, ckpt'.step = s,
         ckpt'.redo = ckpt.redo, s # "publish",
         ckpt' \in [step : CheckpointSteps, redo : Nat, vxids : SUBSET Backends,
                    recptr : Nat, shutdown : BOOLEAN],
         flags' \in {flags, flags \union {"checkpoint_needed"}},
         flags' = flags \/ page # NoPage,
         UNCHANGED <<page, backendVars, writer, logVars, media, redoVars, control,
                     startVars>>
  PROVE  /\ TypeOK' /\ PlacesInv' /\ PositionsInv' /\ LogInv' /\ MediaInv'
         /\ PageInv' /\ RecoveryInv' /\ WriteInv' /\ Changing' = Changing
<1> USE DEF backendVars, logVars, redoVars, startVars, FileImage
<1>1. /\ TypeOK /\ PlacesInv /\ PositionsInv /\ LogInv /\ MediaInv /\ PageInv
      /\ RecoveryInv /\ HintInv /\ WriteInv /\ ProgressInv
  BY Zenon DEF IInv
<1>2. TypeOK'
  BY <1>1, Zenon DEF TypeOK
<1>3. Changing' = Changing /\ Hinting' = Hinting /\ Flushing' = Flushing
  BY ZenonT(60) DEF Changing, Hinting, Flushing
<1>4. PlacesInv'
  BY <1>1, <1>3, Zenon DEF PlacesInv
<1>5. PositionsInv' /\ LogInv' /\ MediaInv'
  BY <1>1, ZenonT(60) DEF PositionsInv, LogInv, Redos, Restores, Reads, MediaInv
<1>6. PageInv' /\ RecoveryInv' /\ WriteInv'
  BY <1>1, <1>3, ZenonT(60) DEF PageInv, Redos, Reach, RecoveryInv, Found, Logged, WriteInv
<1> QED
  BY <1>2, <1>3, <1>4, <1>5, <1>6, ZenonT(60)

(***************************************************************************)
(* CreateCheckPoint publishes the redo pointer to those that read it       *)
(* without an insertion lock.                                              *)
(***************************************************************************)
LEMMA PublishRedoStep ==
  ASSUME IInv, PublishRedo
  PROVE  IInv'
<1> USE DEF pageVars, backendVars, logVars, startVars, FileImage
<1>1. /\ TypeOK /\ PlacesInv /\ PositionsInv /\ LogInv /\ MediaInv /\ PageInv
      /\ RecoveryInv /\ HintInv /\ WriteInv /\ ProgressInv
  BY Zenon DEF IInv
<1>2. ckpt.step = "publish" /\ ckpt.redo = insertRedo /\ infoRedo' = insertRedo
  BY <1>1, Zenon DEF PublishRedo, PositionsInv
<1>3. /\ ckpt'.step = "vxids" /\ ckpt'.redo = ckpt.redo
      /\ ckpt' \in [step : CheckpointSteps, redo : Nat, vxids : SUBSET Backends,
                    recptr : Nat, shutdown : BOOLEAN]
  BY <1>1, Zenon DEF PublishRedo, TypeOK, CheckpointSteps
<1>4. TypeOK'
  BY <1>1, <1>2, <1>3, ZenonT(60) DEF PublishRedo, TypeOK
<1>5. PlacesInv' /\ Changing' = Changing /\ Flushing' = Flushing
  BY <1>1, <1>2, <1>3 DEF PublishRedo, PlacesInv, Changing, Hinting, Flushing
<1>6. PositionsInv'
  BY <1>1, <1>2, <1>3 DEF PublishRedo, PositionsInv, TypeOK
<1>7. LogInv' /\ MediaInv'
  BY <1>1, Zenon DEF PublishRedo, LogInv, Redos, Restores, Reads, MediaInv
<1>8. PageInv' /\ RecoveryInv' /\ WriteInv'
  BY <1>1, <1>5, ZenonT(60) DEF PublishRedo, PageInv, Redos, Reach, RecoveryInv, Found, Logged, WriteInv
<1>9. HintInv'
  BY <1>1, <1>2, <1>3, ZenonT(60) DEF PublishRedo, HintInv, Reach, Delays, Redos, Logged
<1>10. ProgressInv'
  BY <1>3, Zenon DEF ProgressInv
<1> QED
  BY <1>4, <1>5, <1>6, <1>7, <1>8, <1>9, <1>10, ZenonT(60) DEF IInv

(***************************************************************************)
(* CreateCheckPoint notes who is delaying it at this moment.               *)
(***************************************************************************)
LEMMA CollectDelayingStep ==
  ASSUME IInv, CollectDelaying
  PROVE  IInv'
<1> USE DEF pageVars, backendVars, logVars, redoVars, startVars, FileImage
<1>1. TypeOK /\ PlacesInv /\ HintInv
  BY Zenon DEF IInv
<1>2. /\ ckpt.step = "vxids" /\ ckpt'.step = "delayed" /\ ckpt'.redo = ckpt.redo
      /\ ckpt'.vxids = delay
      /\ ckpt' \in [step : CheckpointSteps, redo : Nat, vxids : SUBSET Backends,
                    recptr : Nat, shutdown : BOOLEAN]
  BY <1>1, Zenon DEF CollectDelaying, TypeOK, CheckpointSteps
<1>3. /\ TypeOK' /\ PlacesInv' /\ PositionsInv' /\ LogInv' /\ MediaInv'
      /\ PageInv' /\ RecoveryInv' /\ WriteInv'
  BY <1>2, CheckpointerMoves, Zenon DEF CollectDelaying, CheckpointSteps
<1>4. \A p \in Backends : pc[p] \in {"hint_lsn", "hint_mark"} => Delays(p)'
  BY <1>1, <1>2, Zenon DEF PlacesInv, Delays, HintSteps
<1>5. HintInv'
  BY <1>1, <1>4, ZenonT(60) DEF CollectDelaying, HintInv, Reach, Redos, Logged
<1>6. ProgressInv'
  BY <1>2, ZenonT(60) DEF ProgressInv
<1> QED
  BY <1>3, <1>5, <1>6, ZenonT(60) DEF IInv

(***************************************************************************)
(* CreateCheckPoint waits until none of those it noted delays it any more. *)
(***************************************************************************)
LEMMA WaitDelayingStep ==
  ASSUME IInv, WaitDelaying
  PROVE  IInv'
<1> USE DEF pageVars, backendVars, logVars, redoVars, startVars, FileImage
<1>1. TypeOK /\ PlacesInv /\ HintInv
  BY Zenon DEF IInv
<1>2. /\ ckpt.step = "delayed" /\ ckpt'.step = "mark" /\ ckpt'.redo = ckpt.redo
      /\ ckpt' \in [step : CheckpointSteps, redo : Nat, vxids : SUBSET Backends,
                    recptr : Nat, shutdown : BOOLEAN]
  BY <1>1, Zenon DEF WaitDelaying, TypeOK, CheckpointSteps
<1>3. /\ TypeOK' /\ PlacesInv' /\ PositionsInv' /\ LogInv' /\ MediaInv'
      /\ PageInv' /\ RecoveryInv' /\ WriteInv'
  BY <1>2, CheckpointerMoves, ZenonT(60) DEF WaitDelaying, CheckpointSteps
<1>4. \A p \in Backends : pc[p] \in {"hint_lsn", "hint_mark"} => ~Delays(p)
  BY <1>1, <1>2, ZenonT(60) DEF WaitDelaying, PlacesInv, Delays, HintSteps
<1>5. HintInv'
  BY <1>1, <1>4, ZenonT(60) DEF WaitDelaying, HintInv, Reach, Redos, Logged
<1>6. ProgressInv'
  BY <1>2, ZenonT(60) DEF ProgressInv
<1> QED
  BY <1>3, <1>5, <1>6, Zenon DEF IInv

(***************************************************************************)
(* BufferSync marks the buffer as one to write, if it is dirty.            *)
(***************************************************************************)
LEMMA MarkNeededStep ==
  ASSUME IInv, MarkNeeded
  PROVE  IInv'
<1> USE DEF pageVars, backendVars, logVars, redoVars, startVars
<1>1. TypeOK /\ PlacesInv /\ HintInv /\ PageInv
  BY Zenon DEF IInv
<1>2. /\ ckpt.step = "mark" /\ ckpt'.step = "write" /\ ckpt'.redo = ckpt.redo
      /\ ckpt' \in [step : CheckpointSteps, redo : Nat, vxids : SUBSET Backends,
                    recptr : Nat, shutdown : BOOLEAN]
  BY <1>1, Zenon DEF MarkNeeded, TypeOK, CheckpointSteps
<1>3. /\ TypeOK' /\ PlacesInv' /\ PositionsInv' /\ LogInv' /\ MediaInv'
      /\ PageInv' /\ RecoveryInv' /\ WriteInv'
  BY <1>1, <1>2, CheckpointerMoves, ZenonT(60) DEF MarkNeeded, CheckpointSteps, PlacesInv
<1>4. HintInv'
  BY <1>1, <1>2, ZenonT(60) DEF MarkNeeded, HintInv, Reach, Redos, Logged, Delays
<1>5. "dirty" \notin flags => Safe(log, insertRedo, FileImage)
  BY <1>1, <1>2, FoundSafe, ZenonT(60) DEF PlacesInv, PageInv, Found, Safe
<1>6. ProgressInv'
  BY <1>2, <1>5, Zenon DEF MarkNeeded, ProgressInv, FileImage
<1> QED
  BY <1>3, <1>4, <1>6, Zenon DEF IInv

(***************************************************************************)
(* BufferSync writes a marked buffer out if it still is dirty.             *)
(***************************************************************************)
LEMMA WriteNeededStep ==
  ASSUME IInv, WriteNeeded
  PROVE  IInv'
<1> USE DEF backendVars, logVars, redoVars, startVars, FileImage
<1>1. /\ TypeOK /\ PlacesInv /\ PositionsInv /\ LogInv /\ MediaInv /\ PageInv
      /\ RecoveryInv /\ HintInv /\ WriteInv /\ ProgressInv
  BY Zenon DEF IInv
<1>2. CASE "checkpoint_needed" \notin flags
  <2>1. /\ ckpt.step = "write" /\ ckpt'.step = "fsync" /\ ckpt'.redo = ckpt.redo
        /\ ckpt' \in [step : CheckpointSteps, redo : Nat, vxids : SUBSET Backends,
                      recptr : Nat, shutdown : BOOLEAN]
        /\ UNCHANGED <<flags, writer>>
    BY <1>1, <1>2, ZenonT(60) DEF WriteNeeded, TypeOK, CheckpointSteps
  <2>2. /\ TypeOK' /\ PlacesInv' /\ PositionsInv' /\ LogInv' /\ MediaInv'
        /\ PageInv' /\ RecoveryInv' /\ WriteInv' /\ Changing' = Changing
    BY <2>1, CheckpointerMoves, Zenon DEF WriteNeeded, CheckpointSteps
  <2>3. HintInv'
    BY <1>1, <2>1, ZenonT(60) DEF WriteNeeded, HintInv, Reach, Redos, Logged, Delays
  <2>4. ProgressInv'
    BY <1>1, <1>2, <2>1, <2>2, ZenonT(60) DEF WriteNeeded, ProgressInv
  <2> QED
    BY <2>2, <2>3, <2>4, ZenonT(60) DEF IInv
<1>3. CASE "checkpoint_needed" \in flags
  <2>1. /\ ckpt.step = "write" /\ ckpt'.step = "writing" /\ ckpt'.redo = ckpt.redo
        /\ ckpt' \in [step : CheckpointSteps, redo : Nat, vxids : SUBSET Backends,
                      recptr : Nat, shutdown : BOOLEAN]
    BY <1>1, <1>3, ZenonT(60) DEF WriteNeeded, TypeOK, CheckpointSteps
  <2>2. /\ "dirty" \in flags /\ Changing = {} /\ Flushing = {}
        /\ writer' = [writer EXCEPT !["checkpointer"] = [step |-> "io", recptr |-> page.lsn]]
        /\ flags' = flags \ {"just_dirtied"}
    BY <1>3, Zenon DEF WriteNeeded, FlushStart, CanLockShare
  <2>3. page # NoPage /\ page \in Pages /\ page.lsn \in Nat
    BY <1>1, <2>2, PageBounds DEF PlacesInv
  <2>4. writer' \in [Writers -> [step : {"idle", "io", "written"}, recptr : Nat]]
    BY <1>1, <2>2, <2>3, Zenon DEF TypeOK
  <2>5. TypeOK'
    BY <1>1, <2>1, <2>2, <2>4, ZenonT(60) DEF WriteNeeded, TypeOK
  <2>6. Changing' = {} /\ Hinting' = Hinting /\ Flushing' = {"checkpointer"}
    BY <1>1, <2>2, ZenonT(60) DEF WriteNeeded, Changing, Hinting, Flushing, TypeOK, Writers
  <2>7. writer'["checkpointer"] = [step |-> "io", recptr |-> page.lsn]
    BY <1>1, <2>2, Zenon DEF TypeOK, Writers
  <2>8. PlacesInv'
    BY <1>1, <2>1, <2>2, <2>3, <2>6, <2>7 DEF WriteNeeded, PlacesInv
  <2>9. PositionsInv' /\ LogInv' /\ MediaInv'
    BY <1>1, <2>1, ZenonT(60) DEF WriteNeeded, PositionsInv, LogInv, Redos, Restores, Reads, MediaInv
  <2>10. PageInv' /\ RecoveryInv'
    BY <1>1, <2>2, <2>6, Zenon DEF WriteNeeded, PageInv, Redos, Reach, RecoveryInv, Found, Logged
  <2>11. HintInv'
    BY <1>1, <2>1, ZenonT(60) DEF WriteNeeded, HintInv, Reach, Delays, Redos, Logged
  <2>12. WriteInv'
    BY <2>2, <2>6, <2>7 DEF WriteNeeded, WriteInv
  <2>13. ProgressInv'
    BY <2>1, <2>2, ZenonT(60) DEF ProgressInv
  <2> QED
    BY <2>5, <2>8, <2>9, <2>10, <2>11, <2>12, <2>13, Zenon DEF IInv
<1> QED
  BY <1>2, <1>3, ZenonT(60)

(***************************************************************************)
(* After ProcessSyncRequests every page written before is on the disk.     *)
(***************************************************************************)
LEMMA SyncFilesStep ==
  ASSUME IInv, SyncFiles
  PROVE  IInv'
<1> USE DEF pageVars, backendVars, logVars, redoVars, startVars
<1>1. /\ TypeOK /\ PlacesInv /\ PositionsInv /\ LogInv /\ MediaInv /\ PageInv
      /\ RecoveryInv /\ HintInv /\ WriteInv /\ ProgressInv
  BY Zenon DEF IInv
<1>2. /\ ckpt.step = "fsync" /\ ckpt'.step = "record" /\ ckpt'.redo = ckpt.redo
      /\ ckpt' \in [step : CheckpointSteps, redo : Nat, vxids : SUBSET Backends,
                    recptr : Nat, shutdown : BOOLEAN]
  BY <1>1, Zenon DEF SyncFiles, TypeOK, CheckpointSteps
<1>3. Safe(log, insertRedo, FileImage) /\ FileImage # Torn
  BY <1>1, <1>2, ZenonT(60) DEF ProgressInv, Safe
<1>4. Len(media) \in DOMAIN media /\ FileImage \in Pages
  BY <1>1, <1>3 DEF TypeOK, FileImage
<1>5. /\ media' = <<FileImage>> /\ media' \in Seq(Pages \union {Torn}) /\ media' # <<>>
      /\ DOMAIN media' = {1} /\ media'[1] = FileImage /\ FileImage' = FileImage
  <2>1. media' = <<FileImage>>
    BY Zenon DEF SyncFiles
  <2>2. FileImage' = media'[Len(media')]
    BY Zenon DEF FileImage
  <2> HIDE DEF FileImage
  <2> QED
    BY <1>4, <2>1, <2>2
<1>6. TypeOK'
  BY <1>1, <1>2, <1>5, ZenonT(60) DEF SyncFiles, TypeOK
<1>7. Changing' = Changing /\ Hinting' = Hinting /\ Flushing' = Flushing
  BY Zenon DEF SyncFiles, Changing, Hinting, Flushing
<1>8. PlacesInv'
  BY <1>1, <1>2, <1>7, ZenonT(60) DEF SyncFiles, PlacesInv
<1>9. PositionsInv' /\ LogInv'
  BY <1>1, <1>2, ZenonT(60) DEF SyncFiles, PositionsInv, LogInv, Redos, Restores, Reads
<1>10. MediaInv'
  <2>1. /\ Holds(log, FileImage) /\ FileImage.lsn <= flushed
        /\ Changes(log, control.redo) <= FileImage.changes
        /\ Backed(log, Redos, FileImage.lsn)
    BY <1>1, <1>3, <1>4, ZenonT(60) DEF MediaInv, FileImage
  <2>2. Redos' = Redos
    BY Zenon DEF SyncFiles, Redos
  <2> QED
    BY <1>3, <1>5, <2>1, <2>2, ZenonT(60) DEF SyncFiles, MediaInv
<1>11. PageInv' /\ RecoveryInv' /\ WriteInv'
  BY <1>1, <1>5, <1>7, ZenonT(60) DEF SyncFiles, PageInv, Redos, Reach, RecoveryInv, Found, Logged, WriteInv
<1>12. HintInv'
  BY <1>1, <1>2, ZenonT(60) DEF SyncFiles, HintInv, Reach, Redos, Logged, Delays
<1>13. ProgressInv'
  BY <1>1, <1>2, <1>3, <1>5, <1>7, Zenon DEF SyncFiles, ProgressInv
<1> QED
  BY <1>6, <1>8, <1>9, <1>10, <1>11, <1>12, <1>13, ZenonT(60) DEF IInv

(***************************************************************************)
(* CreateCheckPoint logs the checkpoint record and flushes the log.        *)
(***************************************************************************)
LEMMA InsertCheckpointStep ==
  ASSUME IInv, InsertCheckpoint
  PROVE  IInv'
<1> USE DEF pageVars, backendVars, redoVars, startVars, FileImage
<1>1. /\ TypeOK /\ PlacesInv /\ PositionsInv /\ LogInv /\ MediaInv /\ PageInv
      /\ RecoveryInv /\ HintInv /\ WriteInv /\ ProgressInv
  BY Zenon DEF IInv
<1>2. ckpt.step = "record" /\ startup # "redo"
  BY <1>1, ZenonT(60) DEF InsertCheckpoint, PlacesInv
<1>3. /\ Len(log) \in Nat /\ log \in Seq(Records)
      /\ flushed \in 0 .. Len(log) /\ control.redo \in 0 .. Len(log)
      /\ insertRedo \in 0 .. Len(log)
      /\ \A i \in DOMAIN media : media[i] \in Pages \union {Torn}
      /\ \A x \in Pages : x.lsn \in Nat /\ x.changes \in Nat
  BY <1>1, Bounds, Zenon
<1> DEFINE e == Record("checkpoint", NoImage)
<1>4. e \in Records /\ e.type # "change" /\ e.image = NoImage /\ log' = Append(log, e)
  BY Zenon DEF Record, Records, RecordTypes, InsertCheckpoint, InsertPlain
<1> HIDE DEF e
<1>5. /\ LogInv' /\ Logged' = Logged + IF e.type = "change" THEN 1 ELSE 0
      /\ log' \in Seq(Records) /\ Len(log') = Len(log) + 1
      /\ \A n \in 0 .. Len(log) : Changes(log', n) = Changes(log, n)
      /\ \A r \in Nat, n \in 0 .. Len(log) : Imaged(log', r, n) <=> Imaged(log, r, n)
      /\ \A r \in Nat : Imaged(log, r, Len(log)) => Imaged(log', r, Len(log'))
      /\ \A n \in 0 .. Len(log) : Backed(log, Redos, n) => Backed(log', Redos', n)
      /\ \A x \in Pages : Holds(log, x) => Holds(log', x)
  BY <1>4, LogGrows, ZenonT(60) DEF InsertCheckpoint
<1>6. Logged' = Logged
  BY <1>3, <1>4, <1>5, ChangesType DEF Logged
<1>7. flushed' = Len(log') /\ Len(log') \in Nat
  BY <1>3, <1>5 DEF InsertCheckpoint
<1>8. /\ ckpt'.step = "control" /\ ckpt'.redo = ckpt.redo
      /\ ckpt' \in [step : CheckpointSteps, redo : Nat, vxids : SUBSET Backends,
                    recptr : Nat, shutdown : BOOLEAN]
  <2>1. ckpt' = [ckpt EXCEPT !.step = "control", !.recptr = Len(log')]
    BY Zenon DEF InsertCheckpoint
  <2> QED
    BY <1>1, <1>7, <2>1, Zenon DEF TypeOK, CheckpointSteps
<1>9. TypeOK'
  BY <1>1, <1>5, <1>7, <1>8, ZenonT(60) DEF InsertCheckpoint, TypeOK
<1>10. PlacesInv' /\ Changing' = Changing /\ Flushing' = Flushing
  BY <1>1, <1>2, <1>8 DEF InsertCheckpoint, PlacesInv, Changing, Hinting, Flushing
<1>11. PositionsInv'
  <2>1. /\ UNCHANGED <<control, insertRedo, infoRedo, startup>>
        /\ ckpt.redo = insertRedo /\ infoRedo = insertRedo /\ control.redo <= infoRedo
    BY <1>1, <1>2, ZenonT(60) DEF InsertCheckpoint, PositionsInv
  <2>2. /\ insertRedo <= Len(log') /\ control.redo <= Len(log')
        /\ Len(log') <= Len(log') /\ insertRedo <= insertRedo
    BY <1>3, <1>5
  <2> QED
    BY <1>2, <1>7, <1>8, <2>1, <2>2, ZenonT(60) DEF PositionsInv
<1>12. \A r \in Nat, n \in 0 .. Len(log) : Imaged(log, r, n) => Imaged(log', r, Len(log'))
  BY <1>3, <1>5, <1>7, ImagedMonotonic
<1>13. MediaInv'
  <2>1. ASSUME NEW i \in DOMAIN media', media'[i] # Torn
        PROVE  /\ Holds(log', media'[i]) /\ media'[i].lsn <= flushed'
               /\ Changes(log', control'.redo) <= media'[i].changes
               /\ Backed(log', Redos', media'[i].lsn)
    <3>1. media'[i] = media[i] /\ media[i] \in Pages /\ i \in DOMAIN media
      BY <1>3, <2>1, ZenonT(60) DEF InsertCheckpoint
    <3>2. /\ Holds(log, media[i]) /\ media[i].lsn \in 0 .. Len(log)
          /\ Changes(log, control.redo) <= media[i].changes
          /\ Backed(log, Redos, media[i].lsn)
      BY <1>1, <1>3, <2>1, <3>1 DEF MediaInv
    <3> QED
      BY <1>3, <1>5, <1>7, <3>1, <3>2 DEF InsertCheckpoint
  <2>2. (\E i, j \in DOMAIN media' : media'[i] = Torn \/ media'[i] # media'[j])
          => Imaged(log', control'.redo, flushed')
    BY <1>1, <1>3, <1>7, <1>12 DEF InsertCheckpoint, MediaInv
  <2> QED
    BY <2>1, <2>2, ZenonT(60) DEF MediaInv
<1>14. page # NoPage => /\ page \in Pages /\ page.lsn \in 0 .. Len(log)
                        /\ Reach \in 0 .. Len(log) /\ Reach' = Len(log')
                        /\ \A r \in Nat : Imaged(log, r, Reach) => Imaged(log', r, Reach')
  <2> SUFFICES ASSUME page # NoPage
               PROVE  /\ page \in Pages /\ page.lsn \in 0 .. Len(log)
                      /\ Reach \in 0 .. Len(log) /\ Reach' = Len(log')
                      /\ \A r \in Nat : Imaged(log, r, Reach) => Imaged(log', r, Reach')
    BY Zenon
  <2>1. page \in Pages /\ page.lsn \in 0 .. Len(log) /\ Reach \in 0 .. Len(log)
    BY <1>1, PageBounds, Zenon
  <2>2. Reach' = Len(log')
    BY <1>3, <1>5, <1>7, <2>1 DEF InsertCheckpoint, Reach, Greater
  <2> QED
    BY <1>12, <2>1, <2>2, Zenon
<1>15. PageInv'
  <2>1. "dirty" \in flags => page # NoPage
    BY <1>1, Zenon DEF PlacesInv
  <2> QED
    BY <1>1, <1>3, <1>5, <1>7, <1>10, <1>14, <2>1 DEF InsertCheckpoint, PageInv
<1>16. RecoveryInv'
  BY <1>1, <1>2, <1>6, <1>10, ZenonT(60) DEF InsertCheckpoint, RecoveryInv, Found
<1>17. HintInv'
  <2> SUFFICES ASSUME NEW q \in Backends
               PROVE  HintInv!(q)'
    BY ZenonT(60) DEF HintInv
  <2>1. HintInv!(q)
    BY <1>1, Zenon DEF HintInv
  <2>2. ~Delays(q) /\ hintLSN[q] \in Nat /\ cached[q].redo \in Nat
    BY <1>1, <1>2, ZenonT(60) DEF Delays, TypeOK
  <2>3. pc[q] # "idle" => page # NoPage
    BY <1>1, Zenon DEF PlacesInv
  <2> QED
    BY <1>3, <1>5, <1>6, <1>14, <2>1, <2>2, <2>3 DEF InsertCheckpoint
<1>18. WriteInv'
  <2>1. Flushing # {} => page # NoPage
    BY <1>1, ZenonT(60) DEF PlacesInv
  <2> QED
    BY <1>1, <1>3, <1>5, <1>7, <1>10, <1>14, <2>1 DEF InsertCheckpoint, WriteInv
<1>19. ProgressInv'
  <2>1. "dirty" \in flags /\ Changing = {} => Imaged(log', insertRedo, Reach')
    <3>1. "dirty" \in flags /\ Changing = {} =>
            page # NoPage /\ Imaged(log, insertRedo, Len(log))
      BY <1>1, <1>2, ZenonT(60) DEF ProgressInv, PlacesInv
    <3>2. insertRedo \in Nat
      BY <1>3
    <3> QED
      BY <1>5, <1>14, <3>1, <3>2, ZenonT(60)
  <2>2. /\ \A i \in DOMAIN media : Safe(log', insertRedo, media[i])
        /\ (\E i, j \in DOMAIN media : media[i] # media[j]) => Imaged(log', insertRedo, Len(log'))
    <3>1. /\ \A i \in DOMAIN media : Safe(log, insertRedo, media[i])
          /\ (\E i, j \in DOMAIN media : media[i] # media[j]) => Imaged(log, insertRedo, Len(log))
      BY <1>1, <1>2, ZenonT(60) DEF ProgressInv
    <3>2. insertRedo \in Nat
      BY <1>3
    <3> QED
      BY <1>3, <1>5, <3>1, <3>2, ZenonT(60) DEF Safe
  <2> QED
    BY <1>7, <1>8, <1>10, <2>1, <2>2, ZenonT(60) DEF InsertCheckpoint, ProgressInv
<1> QED
  BY <1>5, <1>9, <1>10, <1>11, <1>13, <1>15, <1>16, <1>17, <1>18, <1>19, ZenonT(60) DEF IInv

(***************************************************************************)
(* UpdateControlFile makes the new redo pointer the one that recovery      *)
(* starts from.                                                            *)
(***************************************************************************)
LEMMA UpdateControlStep ==
  ASSUME IInv, UpdateControl
  PROVE  IInv'
<1> USE DEF pageVars, backendVars, logVars, redoVars, FileImage
<1>1. /\ TypeOK /\ PlacesInv /\ PositionsInv /\ LogInv /\ MediaInv /\ PageInv
      /\ RecoveryInv /\ HintInv /\ WriteInv /\ ProgressInv
  BY Zenon DEF IInv
<1>2. /\ ckpt.step = "control" /\ ckpt.redo = insertRedo /\ infoRedo = insertRedo
      /\ insertRedo <= flushed /\ startup \in {"up", "end"} /\ startup' = "up"
  BY <1>1, Zenon DEF UpdateControl, PlacesInv, PositionsInv, TypeOK
<1>3. /\ control' = [redo |-> insertRedo, loc |-> ckpt.recptr] /\ control'.redo = insertRedo
      /\ Redos' = {insertRedo} /\ Redos' \subseteq Redos
  BY <1>2, Zenon DEF UpdateControl, Redos
<1>4. ckpt' = NoCheckpoint /\ ckpt'.step = "idle"
      /\ ckpt' \in [step : CheckpointSteps, redo : Nat, vxids : SUBSET Backends,
                    recptr : Nat, shutdown : BOOLEAN]
  BY ZenonT(60) DEF UpdateControl, NoCheckpoint, CheckpointSteps
<1>5. TypeOK'
  <2>1. control' \in [redo : Nat, loc : Nat]
    BY <1>1, <1>3, ZenonT(60) DEF TypeOK
  <2> QED
    BY <1>1, <1>2, <1>4, <2>1, ZenonT(60) DEF UpdateControl, TypeOK
<1>6. PlacesInv' /\ Changing' = Changing /\ Flushing' = Flushing
  BY <1>1, <1>2, <1>4 DEF UpdateControl, PlacesInv, Changing, Hinting, Flushing
<1>7. PositionsInv'
  BY <1>1, <1>2, <1>3, <1>4, ZenonT(60) DEF UpdateControl, PositionsInv, TypeOK
<1>8. LogInv'
  BY <1>1, <1>3, Zenon DEF UpdateControl, LogInv, Restores, Reads
<1>9. \A n : Backed(log, Redos, n) => Backed(log, Redos', n)
  BY <1>3, Zenon DEF Backed
<1>10. MediaInv'
  <2>1. /\ \A i \in DOMAIN media : Safe(log, insertRedo, media[i])
        /\ (\E i, j \in DOMAIN media : media[i] # media[j]) => Imaged(log, insertRedo, flushed)
    BY <1>1, <1>2, ZenonT(60) DEF ProgressInv
  <2> QED
    BY <1>1, <1>3, <1>9, <2>1, ZenonT(60) DEF UpdateControl, MediaInv, Safe
<1>11. PageInv'
  BY <1>1, <1>2, <1>3, <1>6, <1>9, ZenonT(60) DEF UpdateControl, PageInv, ProgressInv, Reach
<1>12. RecoveryInv'
  BY <1>1, <1>2, <1>6, ZenonT(60) DEF UpdateControl, RecoveryInv, Found, Logged
<1>13. HintInv'
  BY <1>1, <1>2, <1>3, <1>9, ZenonT(60) DEF UpdateControl, HintInv, Delays, Reach, Logged
<1>14. WriteInv'
  BY <1>1, <1>6, ZenonT(60) DEF UpdateControl, WriteInv
<1>15. ProgressInv'
  BY <1>4, Zenon DEF ProgressInv
<1> QED
  BY <1>5, <1>6, <1>7, <1>8, <1>10, <1>11, <1>12, <1>13, <1>14, <1>15, Zenon DEF IInv

-----------------------------------------------------------------------------
(* A crash, and recovery                                                   *)

(***************************************************************************)
(* A crash loses the buffer and perhaps part of the unflushed log, and     *)
(* leaves on the disk any version of the page written since the last       *)
(* fsync, or a torn one.                                                   *)
(***************************************************************************)
LEMMA CrashStep ==
  ASSUME IInv, Crash
  PROVE  IInv'
<1>1. /\ TypeOK /\ PlacesInv /\ PositionsInv /\ LogInv /\ MediaInv
  BY Zenon DEF IInv
<1>2. /\ Len(log) \in Nat /\ log \in Seq(Records)
      /\ flushed \in 0 .. Len(log) /\ control.redo \in 0 .. Len(log)
      /\ control.redo <= flushed
      /\ \A i \in DOMAIN media : media[i] \in Pages \union {Torn}
      /\ \A x \in Pages : x.lsn \in Nat /\ x.changes \in Nat
  BY <1>1, Bounds, Zenon DEF PositionsInv
<1>3. PICK n \in flushed .. Len(log) : log' = SubSeq(log, 1, n) /\ flushed' = n
  BY Zenon DEF Crash
<1>4. PICK i, j \in DOMAIN media :
        media' = <<IF media[i] = media[j] THEN media[i] ELSE Torn>>
  BY ZenonT(60) DEF Crash
<1>5. n \in 0 .. Len(log) /\ n \in Nat /\ flushed <= n
  BY <1>2
<1>6. /\ log' \in Seq(Records) /\ Len(log') = n /\ \A k \in 1 .. n : log'[k] = log[k]
      /\ \A m \in 0 .. n : Changes(log', m) = Changes(log, m)
      /\ \A r \in Nat, m \in 0 .. n : Imaged(log', r, m) <=> Imaged(log, r, m)
  BY <1>2, <1>3, <1>5, Truncated, ZenonT(60)
<1> DEFINE x == IF media[i] = media[j] THEN media[i] ELSE Torn
<1>7. x \in Pages \union {Torn} /\ (x # Torn => x = media[i] /\ x \in Pages)
  BY <1>2, Zenon
<1>8. x = Torn => Imaged(log, control.redo, flushed)
  BY <1>1, Zenon DEF MediaInv
<1>9. media' = <<x>>
  BY <1>4, Zenon
<1>10. x # Torn => /\ Holds(log, x) /\ x.lsn <= flushed
                   /\ Changes(log, control.redo) <= x.changes
                   /\ Backed(log, Redos, x.lsn)
  BY <1>1, ZenonT(60) DEF MediaInv
<1> HIDE DEF x
<1>11. /\ media' \in Seq(Pages \union {Torn}) /\ media' # <<>>
       /\ DOMAIN media' = {1} /\ media'[1] = x /\ FileImage' = x
  <2>1. FileImage' = media'[Len(media')]
    BY Zenon DEF FileImage
  <2> QED
    BY <1>7, <1>9, <2>1
<1>12. /\ ckpt' = NoCheckpoint /\ ckpt'.step = "idle"
       /\ ckpt' \in [step : CheckpointSteps, redo : Nat, vxids : SUBSET Backends,
                     recptr : Nat, shutdown : BOOLEAN]
  BY Zenon DEF Crash, NoCheckpoint, CheckpointSteps
<1>13. /\ writer' \in [Writers -> [step : {"idle", "io", "written"}, recptr : Nat]]
       /\ \A w \in Writers : writer'[w].step = "idle"
  BY Zenon DEF Crash, IdleWriter
<1>14. /\ pc' \in [Backends -> Places] /\ hintLSN' \in [Backends -> Nat]
       /\ cached' \in [Backends -> [redo : Nat, doPageWrites : BOOLEAN]]
       /\ copied' \in [Backends -> Pages \union {NoImage}]
       /\ \A p \in Backends : pc'[p] = "idle" /\ hintLSN'[p] = 0
  BY Zenon DEF Crash, Places, NothingCached
<1>15. TypeOK'
  BY <1>1, <1>3, <1>5, <1>6, <1>11, <1>12, <1>13, <1>14, ZenonT(60) DEF Crash, TypeOK
<1>16. Changing' = {} /\ Flushing' = {}
  BY <1>13, <1>14, ZenonT(60) DEF Changing, Flushing
<1>17. PlacesInv'
  BY <1>12, <1>13, <1>14, <1>16, ZenonT(60) DEF Crash, PlacesInv, HintSteps, Writers
<1>18. PositionsInv'
  BY <1>2, <1>3, <1>5, <1>6, <1>12 DEF Crash, PositionsInv
<1>19. control' = control /\ Redos' = {control.redo} /\ Redos' \subseteq Redos
  BY Zenon DEF Crash, Redos
<1>20. LogInv'
  <2>1. ASSUME NEW k \in DOMAIN log', Restores(k)'
        PROVE  log'[k].image.changes = Changes(log', k)
    <3>1. k \in 1 .. n /\ k \in DOMAIN log /\ log'[k] = log[k] /\ k \in 0 .. n
      BY <1>2, <1>5, <1>6
    <3> QED
      BY <1>1, <1>6, <2>1, <3>1, ZenonT(60) DEF LogInv, Restores
  <2>2. ASSUME NEW r \in Redos', NEW k \in r + 1 .. Len(log'), Reads(k)'
        PROVE  Imaged(log', r, k - 1)
    <3>1. r \in Nat /\ r \in Redos
      BY <1>2, <1>19
    <3>2. k \in 1 .. n /\ k \in r + 1 .. Len(log) /\ k - 1 \in 0 .. n
      BY <1>2, <1>5, <1>6, <3>1
    <3>3. Reads(k)
      BY <1>6, <2>2, <3>2, ZenonT(60) DEF Reads
    <3>4. Imaged(log, r, k - 1)
      BY <1>1, <3>1, <3>2, <3>3, ZenonT(60) DEF LogInv
    <3> QED
      BY <1>6, <3>1, <3>2, <3>4, ZenonT(60)
  <2> QED
    BY <2>1, <2>2, ZenonT(60) DEF LogInv
<1>21. MediaInv'
  <2>1. ASSUME x # Torn
        PROVE  /\ Holds(log', x) /\ x.lsn <= flushed'
               /\ Changes(log', control.redo) <= x.changes
               /\ Backed(log', Redos', x.lsn)
    <3>1. x \in Pages /\ x.lsn \in 0 .. n
      BY <1>2, <1>5, <1>7, <1>10, <2>1
    <3>2. control.redo \in 0 .. n /\ control.redo \in Nat
      BY <1>2, <1>5
    <3>3. Backed(log', Redos', x.lsn)
      BY <1>6, <1>10, <1>19, <2>1, <3>1, <3>2, ZenonT(60) DEF Backed
    <3> QED
      <4>1. x.lsn <= n
        BY <3>1
      <4>2. x.lsn <= Len(log') /\ x.lsn <= flushed'
        BY <1>3, <1>6, <4>1, ZenonT(60)
      <4> QED
        BY <1>6, <1>10, <2>1, <3>1, <3>2, <3>3, <4>2, ZenonT(60) DEF Holds
  <2>2. x = Torn => Imaged(log', control.redo, flushed')
    BY <1>2, <1>3, <1>5, <1>6, <1>8, ImagedMonotonic
  <2> QED
    BY <1>11, <1>19, <2>1, <2>2, ZenonT(60) DEF MediaInv
<1>22. PageInv'
  BY Zenon DEF Crash, PageInv
<1>23. RecoveryInv'
  <2>1. startup' = "redo" /\ Found' = x /\ replayed' = control.redo
    BY <1>11, ZenonT(60) DEF Crash, Found
  <2>2. ~Imaged(log', control.redo, control.redo)
    BY <1>2, NothingImaged
  <2>3. x # Torn => Changes(log', control.redo) <= x.changes
    BY <1>2, <1>5, <1>6, <1>10
  <2> QED
    BY <1>19, <2>1, <2>2, <2>3, ZenonT(60) DEF RecoveryInv
<1>24. HintInv'
  BY <1>14, ZenonT(60) DEF HintInv
<1>25. WriteInv'
  BY <1>16, Zenon DEF WriteInv
<1>26. ProgressInv'
  BY <1>12, Zenon DEF ProgressInv
<1> QED
  BY <1>15, <1>17, <1>18, <1>20, <1>21, <1>22, <1>23, <1>24, <1>25, <1>26, ZenonT(60) DEF IInv

(***************************************************************************)
(* The page as redo or a backend finds it, unless a write left it torn,    *)
(* when nobody has it locked exclusively.                                  *)
(***************************************************************************)
LEMMA FoundHolds ==
  ASSUME IInv, Changing = {}, Found # Torn
  PROVE  /\ Found \in Pages /\ Found.lsn \in 0 .. Len(log) /\ Found.changes \in Nat
         /\ Found.changes = Changes(log, Found.lsn) /\ Backed(log, Redos, Found.lsn)
         /\ page = NoPage => Found.lsn <= flushed
<1>1. TypeOK /\ PositionsInv /\ PageInv /\ MediaInv
  BY ZenonT(60) DEF IInv
<1>2. CASE page = NoPage
  <2>1. Len(media) \in DOMAIN media /\ Found = media[Len(media)]
    BY <1>1, <1>2 DEF TypeOK, Found, FileImage
  <2>2. Found \in Pages
    BY <1>1, <2>1, Bounds, ZenonT(60)
  <2>3. /\ Holds(log, Found) /\ Found.lsn <= flushed /\ Backed(log, Redos, Found.lsn)
    BY <1>1, <2>1, ZenonT(60) DEF MediaInv
  <2> QED
    BY <1>1, <2>2, <2>3, Bounds DEF Holds
<1>3. CASE page # NoPage
  BY <1>1, <1>3, PageBounds, ZenonT(60) DEF Found, PageInv, Holds
<1> QED
  BY <1>2, <1>3, ZenonT(60)

(***************************************************************************)
(* Recovery ends when it has replayed the log.                             *)
(***************************************************************************)
LEMMA RedoDoneStep ==
  ASSUME IInv, RedoDone
  PROVE  IInv'
<1> USE DEF pageVars, backendVars, logVars, redoVars, FileImage
<1>1. /\ TypeOK /\ PlacesInv /\ PositionsInv /\ LogInv /\ MediaInv /\ PageInv
      /\ RecoveryInv /\ HintInv /\ WriteInv /\ ProgressInv
  BY Zenon DEF IInv
<1>2. startup = "redo" /\ replayed = Len(log) /\ flushed = Len(log)
      /\ ckpt.step = "idle" /\ Changing = {}
  BY <1>1, ZenonT(60) DEF RedoDone, PositionsInv, PlacesInv, Changing
<1>3. TypeOK'
  BY <1>1, Zenon DEF RedoDone, TypeOK
<1>4. PlacesInv' /\ Changing' = Changing /\ Flushing' = Flushing
  BY <1>1, <1>2, ZenonT(60) DEF RedoDone, PlacesInv, Changing, Hinting, Flushing
<1>5. PositionsInv' /\ LogInv' /\ MediaInv'
  BY <1>1, ZenonT(60) DEF RedoDone, PositionsInv, LogInv, Redos, Restores, Reads, MediaInv
<1>6. PageInv' /\ HintInv' /\ WriteInv' /\ ProgressInv'
  BY <1>1, <1>4, ZenonT(60) DEF RedoDone, PageInv, Redos, Reach, HintInv, Delays, Logged, WriteInv,
        ProgressInv
<1>7. Found # Torn
  <2> SUFFICES ASSUME Found = Torn
               PROVE  FALSE
    BY Zenon
  <2>1. page = NoPage /\ media[Len(media)] = Torn /\ Len(media) \in DOMAIN media
    BY <1>1, PagesAreReal DEF Found, TypeOK
  <2>2. Imaged(log, control.redo, flushed)
    BY <1>1, <2>1, Zenon DEF MediaInv
  <2> QED
    BY <1>1, <1>2, <2>2, Zenon DEF RecoveryInv
<1>8. Found.changes = Logged
  <2>1. /\ Found.lsn \in 0 .. Len(log) /\ Found.changes \in Nat
        /\ Found.changes = Changes(log, Found.lsn)
    BY <1>2, <1>7, FoundHolds, ZenonT(60)
  <2>2. Logged <= Found.changes
    BY <1>1, <1>2, <1>7, ZenonT(60) DEF RecoveryInv, Logged
  <2>3. Len(log) \in Nat
    BY <1>1 DEF TypeOK
  <2> QED
    BY <2>1, <2>2, <2>3, ChangesMonotonic, ChangesType DEF Logged
<1>9. RecoveryInv'
  <2>1. Found' = Found /\ Logged' = Logged /\ startup' = "end"
    BY ZenonT(60) DEF RedoDone, Found, Logged
  <2>2. Logged \in Nat
    BY <1>1, ChangesType DEF TypeOK, Logged
  <2> QED
    BY <1>2, <1>4, <1>7, <1>8, <2>1, <2>2 DEF RecoveryInv
<1> QED
  BY <1>3, <1>4, <1>5, <1>6, <1>9, ZenonT(60) DEF IInv

(***************************************************************************)
(* The page is read from the file when it is first used after a restart    *)
(* that did not replay anything on it.                                     *)
(***************************************************************************)
LEMMA ReadBufferStep ==
  ASSUME IInv, ReadBuffer
  PROVE  IInv'
<1> USE DEF backendVars, logVars, redoVars
<1>1. /\ TypeOK /\ PlacesInv /\ PositionsInv /\ LogInv /\ MediaInv /\ PageInv
      /\ RecoveryInv /\ HintInv /\ WriteInv /\ ProgressInv
  BY Zenon DEF IInv
<1>2. /\ startup = "up" /\ page = NoPage /\ flags = {} /\ Flushing = {}
      /\ \A p \in Backends : pc[p] = "idle"
  BY <1>1, Zenon DEF ReadBuffer, PlacesInv
<1>3. Changing = {} /\ Found = FileImage /\ FileImage # Torn
  BY <1>1, <1>2, ZenonT(60) DEF Changing, RecoveryInv, Found
<1>4. page' = FileImage /\ startup' = startup
  BY <1>3, ZenonT(60) DEF ReadBuffer
<1>5. /\ FileImage \in Pages /\ FileImage.lsn \in 0 .. Len(log)
      /\ FileImage.changes = Changes(log, FileImage.lsn)
      /\ Backed(log, Redos, FileImage.lsn) /\ FileImage.lsn <= flushed
  BY <1>2, <1>3, FoundHolds, ZenonT(60)
<1>6. TypeOK'
  BY <1>1, <1>4, <1>5, ZenonT(60) DEF ReadBuffer, TypeOK
<1>7. Changing' = {} /\ Hinting' = Hinting /\ Flushing' = {}
  BY <1>2, <1>3, ZenonT(60) DEF ReadBuffer, Changing, Hinting, Flushing
<1>8. page' # NoPage /\ FileImage' = FileImage /\ Found' = FileImage
  BY <1>4, <1>5, PagesAreReal, ZenonT(60) DEF ReadBuffer, FileImage, Found
<1>9. PlacesInv'
  BY <1>1, <1>2, <1>4, <1>7, <1>8, ZenonT(60) DEF ReadBuffer, PlacesInv
<1>10. PositionsInv' /\ LogInv' /\ MediaInv'
  BY <1>1, <1>4, ZenonT(60) DEF ReadBuffer, PositionsInv, LogInv, Redos, Restores, Reads, MediaInv
<1>11. PageInv'
  <2>1. Len(log) \in Nat
    BY <1>1 DEF TypeOK
  <2> QED
    BY <1>2, <1>3, <1>4, <1>5, <1>7, <1>8, <2>1 DEF ReadBuffer, PageInv, Holds, Redos
<1>12. RecoveryInv'
  BY <1>1, <1>2, <1>3, <1>4, <1>7, <1>8, ZenonT(60) DEF ReadBuffer, RecoveryInv, Logged
<1>13. HintInv' /\ WriteInv'
  BY <1>1, <1>2, <1>7, ZenonT(60) DEF ReadBuffer, HintInv, WriteInv
<1>14. ProgressInv'
  BY <1>1, <1>2, <1>8, ZenonT(60) DEF ReadBuffer, ProgressInv
<1> QED
  BY <1>6, <1>9, <1>10, <1>11, <1>12, <1>13, <1>14, ZenonT(60) DEF IInv

(***************************************************************************)
(* Redo of a record leaves a page that holds the changes up to its LSN, at *)
(* least those up to the record, and has an image behind it.               *)
(***************************************************************************)
LEMMA RedonePage ==
  ASSUME IInv, startup = "redo", NEW i \in Nat, i = replayed + 1, i <= Len(log),
         Restores(i) \/ Reads(i)
  PROVE  /\ Redone(i) \in Pages /\ Redone(i).lsn <= Len(log)
         /\ Redone(i).changes = Changes(log, Redone(i).lsn)
         /\ Changes(log, i) <= Redone(i).changes
         /\ Backed(log, Redos, Redone(i).lsn)
         /\ Restores(i) \/ (Found # Torn /\ i > Found.lsn) =>
              Imaged(log, control.redo, i)
         /\ ~Restores(i) => Found # Torn
         /\ ~Restores(i) /\ ~(i > Found.lsn) => Redone(i) = Found
<1>1. /\ TypeOK /\ PlacesInv /\ PositionsInv /\ LogInv /\ RecoveryInv
  BY ZenonT(60) DEF IInv
<1>2. /\ Len(log) \in Nat /\ log \in Seq(Records) /\ control.redo \in Nat
      /\ control.redo < i /\ Redos = {control.redo} /\ i - 1 = replayed
      /\ i \in DOMAIN log /\ replayed \in Nat /\ control.redo <= replayed
  BY <1>1 DEF TypeOK, PositionsInv, Redos
<1>3. Changing = {}
  BY <1>1, ZenonT(60) DEF PlacesInv, Changing
<1>4. CASE Restores(i)
  <2>1. log[i] \in Records /\ log[i].image # NoImage
    BY <1>2, <1>4 DEF Restores
  <2>2. log[i].image \in Pages
    BY <2>1, Zenon DEF Records
  <2>3. Redone(i) = [log[i].image EXCEPT !.lsn = i]
    BY <1>4, Zenon DEF Redone, Restores, Reads
  <2>4. /\ Redone(i) \in Pages /\ Redone(i).lsn = i
        /\ Redone(i).changes = log[i].image.changes
    BY <2>2, <2>3, ZenonT(60) DEF Pages
  <2>5. Redone(i).changes = Changes(log, i)
    BY <1>1, <1>2, <1>4, <2>4, ZenonT(60) DEF LogInv
  <2>6. Imaged(log, control.redo, i)
    BY <1>2, <2>1 DEF Imaged
  <2>7. Changes(log, i) <= Redone(i).changes
    BY <2>5, ChangesType
  <2> QED
    BY <1>2, <1>4, <2>4, <2>5, <2>6, <2>7, ZenonT(60) DEF Backed
<1>5. CASE ~Restores(i)
  <2>1. Reads(i) /\ log[i].type = "change"
    BY <1>5, Zenon DEF Reads
  <2>2. Imaged(log, control.redo, replayed)
    <3>1. control.redo \in Redos /\ i \in control.redo + 1 .. Len(log)
      BY <1>2
    <3>2. Imaged(log, control.redo, i - 1)
      BY <1>1, <2>1, <3>1, ZenonT(60) DEF LogInv
    <3> QED
      BY <1>2, <3>2, ZenonT(60)
  <2>3. Found # Torn /\ Changes(log, replayed) <= Found.changes
    BY <1>1, <2>2, ZenonT(60) DEF RecoveryInv
  <2>4. /\ Found \in Pages /\ Found.lsn \in 0 .. Len(log) /\ Found.changes \in Nat
        /\ Found.changes = Changes(log, Found.lsn) /\ Backed(log, Redos, Found.lsn)
    BY <1>3, <2>3, FoundHolds, ZenonT(60)
  <2>5. Imaged(log, control.redo, i)
    <3>1. i \in Nat /\ replayed <= i /\ control.redo <= control.redo
      BY <1>2
    <3> QED
      BY <1>2, <2>2, <3>1, ImagedMonotonic, ZenonT(60)
  <2>6. Changes(log, i) = Changes(log, replayed) + 1 /\ Changes(log, replayed) \in Nat
    BY <1>2, <2>1, ChangesNext, ChangesType, ZenonT(60)
  <2>7. CASE i > Found.lsn
    <3>1. Redone(i) = [Found EXCEPT !.lsn = i, !.changes = @ + 1]
      BY <1>5, <2>1, <2>3, <2>7, ZenonT(60) DEF Redone
    <3>2. /\ Redone(i) \in Pages /\ Redone(i).lsn = i
          /\ Redone(i).changes = Found.changes + 1
      <4> DEFINE y == [Found EXCEPT !.lsn = i]
      <4>1. y \in Pages /\ y.lsn = i /\ y.changes = Found.changes
        BY <2>4, Zenon DEF Pages
      <4>2. Redone(i) = [y EXCEPT !.changes = @ + 1]
        BY <3>1, ZenonT(60)
      <4> HIDE DEF y
      <4> QED
        BY <4>1, <4>2 DEF Pages
    <3>3. Found.changes <= Changes(log, replayed)
      BY <1>2, <2>4, <2>7, ChangesMonotonic
    <3>4. Redone(i).changes = Changes(log, i)
      BY <2>3, <2>4, <2>6, <3>2, <3>3
    <3>5. Changes(log, i) <= Redone(i).changes
      BY <3>4, <2>6
    <3> QED
      BY <1>2, <1>5, <2>3, <2>5, <2>7, <3>2, <3>4, <3>5, ZenonT(60) DEF Backed
  <2>8. CASE ~(i > Found.lsn)
    <3>1. Redone(i) = Found
      BY <1>5, <2>8, ZenonT(60) DEF Redone
    <3>2. Changes(log, i) <= Found.changes
      BY <1>2, <2>4, <2>8, ChangesMonotonic
    <3> QED
      BY <1>2, <1>5, <2>3, <2>4, <2>8, <3>1, <3>2
  <2> QED
    BY <2>7, <2>8, ZenonT(60)
<1> QED
  BY <1>4, <1>5, ZenonT(60)

(***************************************************************************)
(* Recovery replays one record: it restores the page from an image, or     *)
(* reads it from the file and applies what its LSN says it lacks.          *)
(***************************************************************************)
LEMMA RedoRecordStep ==
  ASSUME IInv, RedoRecord
  PROVE  IInv'
<1> USE DEF backendVars, logVars, redoVars, FileImage
<1>1. /\ TypeOK /\ PlacesInv /\ PositionsInv /\ LogInv /\ MediaInv /\ PageInv
      /\ RecoveryInv /\ HintInv /\ WriteInv /\ ProgressInv
  BY Zenon DEF IInv
<1> DEFINE i == replayed + 1
<1>2. /\ startup = "redo" /\ i <= Len(log) /\ flushed = Len(log) /\ i \in Nat
      /\ control.redo <= replayed /\ insertRedo = control.redo
      /\ ckpt.step = "idle" /\ Changing = {} /\ Len(log) \in Nat
      /\ control.redo \in Nat /\ replayed \in Nat
      /\ \A p \in Backends : pc[p] = "idle"
  BY <1>1 DEF RedoRecord, PositionsInv, PlacesInv, Changing, TypeOK
<1>3. UNCHANGED <<backendVars, writer, logVars, media, redoVars, control, ckpt>>
  BY Zenon DEF RedoRecord
<1>4. Changing' = {} /\ Hinting' = Hinting /\ Flushing' = Flushing /\ FileImage' = FileImage
  BY <1>2, <1>3, ZenonT(60) DEF Changing, Hinting, Flushing
<1>5. LogInv' /\ MediaInv' /\ Redos' = Redos
  BY <1>1, <1>3, ZenonT(60) DEF LogInv, Redos, Restores, Reads, MediaInv
<1>6. HintInv' /\ ProgressInv'
  BY <1>1, <1>2, <1>3, ZenonT(60) DEF HintInv, ProgressInv
<1>7. replayed' = i /\ startup' = startup =>
        PositionsInv'
  BY <1>1, <1>2, <1>3 DEF PositionsInv
<1>8. CASE ~(Restores(i) \/ Reads(i))
  <2>1. replayed' = i /\ UNCHANGED <<page, flags, startup>>
    BY <1>8, Zenon DEF RedoRecord
  <2>2. TypeOK'
    BY <1>1, <1>2, <1>3, <2>1, ZenonT(60) DEF TypeOK
  <2>3. PlacesInv' /\ WriteInv'
    BY <1>1, <1>3, <1>4, <2>1, ZenonT(60) DEF PlacesInv, WriteInv
  <2>4. PageInv'
    BY <1>1, <1>2, <1>3, <1>4, <1>5, <2>1, ZenonT(60) DEF PageInv, Reach
  <2>5. log[i].image = NoImage /\ log[i].type # "change"
    BY <1>8, ZenonT(60) DEF Restores, Reads
  <2>6. ~Imaged(log, control.redo, replayed) => ~Imaged(log, control.redo, i)
    BY <1>2, <2>5 DEF Imaged
  <2>7. Changes(log, i) = Changes(log, replayed)
    <3>1. Changes(log, replayed) \in Nat
      BY <1>2, ChangesType, ZenonT(60)
    <3>2. Changes(log, i) = Changes(log, replayed) + IF log[i].type = "change" THEN 1 ELSE 0
      BY <1>2, ChangesNext, ZenonT(60)
    <3> QED
      BY <2>5, <3>1, <3>2
  <2>8. RecoveryInv'
    BY <1>1, <1>2, <1>3, <2>1, <2>6, <2>7, ZenonT(60) DEF RecoveryInv, Found
  <2> QED
    BY <1>5, <1>6, <1>7, <2>1, <2>2, <2>3, <2>8, <2>4, ZenonT(60) DEF IInv
<1>9. CASE Restores(i) \/ Reads(i)
  <2>1. /\ Redone(i) \in Pages /\ Redone(i).lsn <= Len(log)
        /\ Redone(i).changes = Changes(log, Redone(i).lsn)
        /\ Changes(log, i) <= Redone(i).changes
        /\ Backed(log, Redos, Redone(i).lsn)
        /\ Restores(i) \/ (Found # Torn /\ i > Found.lsn) => Imaged(log, control.redo, i)
        /\ ~Restores(i) => Found # Torn
        /\ ~Restores(i) /\ ~(i > Found.lsn) => Redone(i) = Found
    BY <1>2, <1>9, RedonePage, ZenonT(60)
  <2>2. Redone(i) # Torn /\ Redone(i) # NoPage
    BY <2>1, PagesAreReal, ZenonT(60)
  <2>3. /\ Flushing = {} /\ page' = Redone(i) /\ replayed' = i /\ startup' = startup
        /\ IF Restores(i) \/ i > Found.lsn THEN MarkBufferDirty ELSE UNCHANGED flags
    BY <1>9, <2>2, ZenonT(60) DEF RedoRecord, RedoPage
  <2> HIDE DEF i
  <2>4. TypeOK'
    BY <1>1, <1>2, <1>3, <2>1, <2>3, ZenonT(60) DEF TypeOK, MarkBufferDirty
  <2>5. PlacesInv'
    BY <1>1, <1>2, <1>3, <1>4, <2>2, <2>3, ZenonT(60) DEF PlacesInv
  <2>6. WriteInv'
    BY <1>4, <2>3, ZenonT(60) DEF WriteInv
  <2>7. page'.lsn \in Nat /\ page'.changes \in Nat
    BY <2>1, <2>3, ZenonT(60) DEF Pages
  <2>8. Reach' = Len(log)
    BY <1>2, <1>3, <2>1, <2>3, <2>7, ZenonT(60) DEF Reach, Greater
  <2>9. PageInv'
    <3>1. CASE Restores(i) \/ i > Found.lsn
      <4>1. Imaged(log, control.redo, Len(log))
        BY <1>2, <2>1, <3>1, ImagedMonotonic
      <4>2. "dirty" \in flags'
        BY <2>3, <3>1, ZenonT(60) DEF MarkBufferDirty
      <4> QED
        BY <1>2, <1>3, <1>4, <1>5, <2>1, <2>2, <2>3, <2>8, <4>1, <4>2, ZenonT(60) DEF PageInv, Holds
    <3>2. CASE ~(Restores(i) \/ i > Found.lsn)
      <4>1. flags' = flags /\ page' = Found
        BY <2>1, <2>3, <3>2, ZenonT(60)
      <4>2. "dirty" \in flags => Imaged(log, control.redo, Len(log))
        <5>1. page # NoPage => Reach \in 0 .. Len(log)
          BY <1>1, PageBounds, ZenonT(60)
        <5>2. "dirty" \in flags => page # NoPage
          BY <1>1, Zenon DEF PlacesInv
        <5> QED
          BY <1>1, <1>2, <5>1, <5>2, ImagedMonotonic DEF PageInv
      <4>3. "dirty" \notin flags => FileImage # Torn /\ FileImage.changes = Found.changes
        BY <1>1, <2>1, <3>2, ZenonT(60) DEF PageInv, Found
      <4> QED
        BY <1>2, <1>3, <1>4, <1>5, <2>1, <2>2, <2>3, <2>8, <4>1, <4>2, <4>3, ZenonT(60) DEF PageInv, Holds
    <3> QED
      BY <3>1, <3>2, ZenonT(60)
  <2>10. RecoveryInv'
    BY <1>2, <1>3, <2>1, <2>2, <2>3, ZenonT(60) DEF RecoveryInv, Found
  <2> QED
    BY <1>5, <1>6, <1>7, <2>3, <2>4, <2>5, <2>6, <2>9, <2>10, ZenonT(60) DEF IInv
<1> QED
  BY <1>8, <1>9, ZenonT(60)

-----------------------------------------------------------------------------
(* The theorems                                                            *)

(***************************************************************************)
(* The invariant holds when the server starts on an empty log.             *)
(***************************************************************************)
LEMMA InitEstablishes ==
  ASSUME Init
  PROVE  IInv
<1>1. /\ Image(0, 0, 0) \in Pages /\ Image(0, 0, 0).lsn = 0 /\ Image(0, 0, 0).changes = 0
  BY ZenonT(60) DEF Image, Pages
<1>2. /\ media \in Seq(Pages \union {Torn}) /\ media # <<>> /\ DOMAIN media = {1}
      /\ media[1] = page /\ FileImage = page /\ page \in Pages /\ page # NoPage /\ page # Torn
      /\ page.lsn = 0 /\ page.changes = 0
  <2>1. media = <<page>> /\ page \in Pages
    BY <1>1, Zenon DEF Init
  <2>2. FileImage = media[Len(media)]
    BY ZenonT(60) DEF FileImage
  <2> QED
    BY <1>1, <2>1, <2>2, PagesAreReal DEF Init
<1>3. /\ log \in Seq(Records) /\ Len(log) = 0 /\ DOMAIN log = {}
  BY DEF Init
<1>4. Changing = {} /\ Flushing = {} /\ Redos = {0}
  BY Zenon DEF Init, Changing, Flushing, IdleWriter, Redos
<1>5. TypeOK
  BY <1>2, <1>3, ZenonT(60) DEF Init, TypeOK, Places, HintSteps, IdleWriter, NothingCached,
        NoCheckpoint, CheckpointSteps
<1>6. PlacesInv
  BY <1>2, <1>4, ZenonT(60) DEF Init, PlacesInv, HintSteps, IdleWriter, NoCheckpoint, Writers
<1>7. PositionsInv /\ LogInv
  BY <1>3, <1>4 DEF Init, PositionsInv, NoCheckpoint, LogInv
<1>8. Changes(log, 0) = 0
  BY FS_EmptySet DEF Changes
<1>9. MediaInv
  <2>1. control.redo = 0 /\ flushed = 0
    BY Zenon DEF Init
  <2> QED
    BY <1>2, <1>3, <1>4, <1>8, <2>1 DEF MediaInv, Holds, Backed
<1>10. PageInv /\ RecoveryInv
  <2>1. control.redo = 0 /\ flushed = 0 /\ flags = {} /\ startup = "up"
    BY ZenonT(60) DEF Init
  <2>2. PageInv
    BY <1>2, <1>3, <1>4, <1>8, <2>1 DEF PageInv, Holds, Backed
  <2>3. Found = page /\ Logged = 0
    BY <1>2, <1>3, <1>8, ZenonT(60) DEF Found, Logged
  <2>4. RecoveryInv
    BY <1>2, <1>4, <2>1, <2>3 DEF RecoveryInv
  <2> QED
    BY <2>2, <2>4, Zenon
<1>11. HintInv /\ WriteInv /\ ProgressInv
  BY <1>4, Zenon DEF Init, HintInv, WriteInv, ProgressInv, NoCheckpoint
<1> QED
  BY <1>5, <1>6, <1>7, <1>9, <1>10, <1>11, ZenonT(60) DEF IInv

(***************************************************************************)
(* Every step, and a stuttering one, keeps the invariant.                  *)
(***************************************************************************)
LEMMA NextPreserves ==
  ASSUME IInv, [Next]_vars
  PROVE  IInv'
<1>1. CASE UNCHANGED vars
  <2>1. UNCHANGED <<Changing, Hinting, Flushing, Redos, Reach, Logged, Found, FileImage>>
    BY <1>1, ZenonT(60) DEF vars, Changing, Hinting, Flushing, Redos, Reach, Logged, Found, FileImage
  <2>2. TypeOK' /\ PlacesInv' /\ PositionsInv' /\ LogInv' /\ MediaInv'
    BY <1>1, <2>1, ZenonT(60) DEF IInv, vars, TypeOK, PlacesInv, PositionsInv, LogInv, MediaInv,
          Restores, Reads
  <2>3. PageInv' /\ RecoveryInv' /\ WriteInv' /\ ProgressInv'
    BY <1>1, <2>1, ZenonT(60) DEF IInv, vars, PageInv, RecoveryInv, WriteInv, ProgressInv
  <2>4. HintInv'
    BY <1>1, <2>1, ZenonT(60) DEF IInv, vars, HintInv, Delays
  <2> QED
    BY <2>2, <2>3, <2>4, ZenonT(60) DEF IInv
<1>2. ASSUME NEW p \in Backends, ChangePage(p) \/ SetHintBit(p) \/ BackendGoesOn(p)
      PROVE  IInv'
  BY <1>2, ChangePageStep, SetHintBitStep, LogChangeStep, HintTestStep, HintGetRedoStep,
     HintGetLSNStep, HintCopyStep, HintLogStep, HintMarkStep, ZenonT(60) DEF BackendGoesOn
<1>3. ASSUME NEW w \in Writers, WriterGoesOn(w)
      PROVE  IInv'
  BY <1>3, FlushWriteStep, FlushDoneStep, ZenonT(60) DEF WriterGoesOn
<1>4. CASE CheckpointerGoesOn
  BY <1>4, PublishRedoStep, CollectDelayingStep, WaitDelayingStep, MarkNeededStep,
     WriteNeededStep, SyncFilesStep, InsertCheckpointStep, UpdateControlStep, ZenonT(60)
     DEF CheckpointerGoesOn
<1>5. CASE StartupGoesOn
  BY <1>5, RedoRecordStep, RedoDoneStep, BeginEndOfRecoveryStep, ZenonT(60) DEF StartupGoesOn
<1>6. CASE SleepDelaying
  BY <1>1, <1>6, Zenon DEF SleepDelaying
<1> QED
  BY <1>1, <1>2, <1>3, <1>4, <1>5, <1>6, BgWriteStep, BeginCheckpointStep, CrashStep,
     ReadBufferStep, ZenonT(60) DEF Next

(***************************************************************************)
(* The invariant behind crash safety holds for any number of backends,     *)
(* changes, hint bits, checkpoints and crashes: at every moment there is a *)
(* flushed full-page image after the control file's redo pointer unless    *)
(* all that was written since the last fsync is one and the same image,    *)
(* and a checkpoint earns the same for its own redo pointer before it      *)
(* updates the control file.                                               *)
(***************************************************************************)
THEOREM CheckpointInvariant == Spec => []IInv
<1>1. Init => IInv
  BY InitEstablishes, Zenon
<1>2. IInv /\ [Next]_vars => IInv'
  BY NextPreserves, Zenon
<1> QED
  BY <1>1, <1>2, PTL DEF Spec

(***************************************************************************)
(* Recovery never meets a torn page that it has to read, and leaves the    *)
(* block with exactly the logged changes that survived the crash: what     *)
(* XLogInsert, MarkBufferDirtyHint, BufferSync and CreateCheckPoint do     *)
(* suffices, wherever they are interrupted.                                *)
(***************************************************************************)
THEOREM RecoveryAlwaysRestores == Spec => []RecoveryRestores
<1>1. IInv => RecoveryRestores
  <2> SUFFICES ASSUME IInv
               PROVE  RecoveryRestores
    BY Zenon
  <2>1. TypeOK /\ RecoveryInv /\ PlacesInv
    BY ZenonT(60) DEF IInv
  <2>2. LoggedChanges = Logged /\ Logged \in Nat
    BY <2>1, LoggedChangesAll, ChangesType DEF TypeOK, Logged
  <2>3. startup = "end" => Changing = {}
    BY <2>1, Zenon DEF PlacesInv, Changing
  <2> QED
    BY <2>1, <2>2, <2>3 DEF RecoveryRestores, RecoveryInv, TypeOK
<1> QED
  BY <1>1, CheckpointInvariant, PTL
=============================================================================
