--------------------------- MODULE MCContentLock ----------------------------
(***************************************************************************)
(* Small instances of ContentLock.                                         *)
(***************************************************************************)
EXTENDS ContentLock, TLC

CONSTANTS p1, p2, p3

\* Two processes clean up, one of them also writes the page out; a third one
\* reads it, or locks it if it need not wait.
Roles ==
  p1 :> {"cleanup"} @@ p2 :> {"cleanup", "share_exclusive"}
    @@ p3 :> {"share", "conditional"}
=============================================================================
