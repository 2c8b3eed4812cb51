--------------------------- MODULE RevocableWrite ---------------------------
(***************************************************************************)
(* What a commit barrier promises: a writer that has joined may write,     *)
(* until it leaves or is revoked.  A revocation takes effect at one        *)
(* instant; after it the writer writes no more.                            *)
(***************************************************************************)
CONSTANT Writer

VARIABLES live,    \* writers that have joined and are not revoked
          written  \* writers with a write since they joined

vars == <<live, written>>

Init == live = {} /\ written = {}

Join(w) ==
  /\ w \notin live
  /\ live' = live \cup {w}
  /\ written' = written \ {w}

Write(w) ==
  /\ w \in live
  /\ written' = written \cup {w}
  /\ UNCHANGED live

\* Some writers leave, or are revoked.
Revoke ==
  /\ live' \in SUBSET live
  /\ UNCHANGED written

Next ==
  \/ \E w \in Writer : Join(w) \/ Write(w)
  \/ Revoke

Spec == Init /\ [][Next]_vars
=============================================================================
