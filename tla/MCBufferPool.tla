---------------------------- MODULE MCBufferPool ----------------------------
(***************************************************************************)
(* A small instance of BufferPool for TLC.  Who is active, whether they    *)
(* set hint bits and how many log records they write is chosen once: two   *)
(* backends; or one of them with the background writer, setting hints; or  *)
(* these two with a process that drops relations.  The backends may be     *)
(* exchanged for each other; the buffers may not, a drop scans them in     *)
(* order.                                                                  *)
(***************************************************************************)
EXTENDS BufferPool, TLC

CONSTANTS t1, t2, p1, p2, w, d, k1, k2

VARIABLE crew     \* the active processes, and the bounds on what they do

\* The two blocks are in different partitions of the mapping table.
Apart == t1 :> k1 @@ t2 :> k2

Crews ==
  {[procs |-> {p1, p2}, hints |-> FALSE, records |-> MaxLSN]}
    \cup {[procs |-> {p, w}, hints |-> TRUE, records |-> 1] : p \in Backends}
    \cup {[procs |-> {p, w, d}, hints |-> FALSE, records |-> MaxLSN] : p \in Backends}

CrewStep ==
  /\ Next
  /\ \A p \in Proc \ crew.procs : pc'[p] = "idle"
  /\ \A b \in Buf : page'[b].hint => crew.hints
  /\ insert' <= crew.records
  /\ UNCHANGED crew

\* Every relation has been dropped and nobody is doing anything.
AllDropped ==
  /\ \A t \in Tags : rel[t] = "gone"
  /\ UNCHANGED <<vars, crew>>

CrewInit == crew \in Crews /\ Init

CrewSpec == CrewInit /\ [][CrewStep \/ AllDropped]_<<vars, crew>>

Symmetry == Permutations(Backends)
=============================================================================
