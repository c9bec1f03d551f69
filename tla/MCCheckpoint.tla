---------------------------- MODULE MCCheckpoint ----------------------------
(***************************************************************************)
(* A small instance of Checkpoint for TLC.  How much happens is chosen     *)
(* once: two logged changes and two checkpoints around a hint; two hints   *)
(* at once, around a change and a checkpoint; or one of each kind of       *)
(* change, with a second crash during or after the first recovery.  The    *)
(* two backends may be exchanged for each other as long as both are fresh, *)
(* so the second only begins when the first has left that state.           *)
(***************************************************************************)
EXTENDS Checkpoint, TLC

CONSTANTS p1, p2

VARIABLE load     \* how often each thing may happen in this behaviour

Loads ==
  {[updates |-> 2, hints |-> 1, checkpoints |-> 2, crashes |-> 1],
   [updates |-> 1, hints |-> 2, checkpoints |-> 1, crashes |-> 1],
   [updates |-> 1, hints |-> 1, checkpoints |-> 2, crashes |-> 2]}

LoadInit == load \in Loads /\ Init

Fresh(p) == pc[p] = "idle" /\ cached[p] = NothingCached

LoadStep ==
  /\ Next
  /\ Fresh(p1) /\ Fresh(p2) => Fresh(p2)'
  /\ \A what \in DOMAIN spent : spent'[what] <= load[what]
  /\ UNCHANGED load

\* Nobody cares to begin anything more.
AtRest ==
  /\ startup = "up" /\ ckpt.step = "idle" /\ Flushing = {}
  /\ \A p \in Backends : pc[p] = "idle"
  /\ UNCHANGED <<vars, load>>

LoadSpec ==
  LoadInit /\ [][LoadStep \/ AtRest]_<<vars, load>> /\ Fairness
=============================================================================
