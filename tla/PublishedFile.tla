--------------------------- MODULE PublishedFile ---------------------------
(***************************************************************************)
(* What the callers of publish and the readers of its destination are      *)
(* promised, without staging files, fsyncs or a directory: one register,   *)
(* which a call changes once, at a moment between its beginning and its    *)
(* end, or not at all; a power loss may take changes back until the next   *)
(* call returns, and what it took back is gone.                            *)
(***************************************************************************)
EXTENDS Naturals

VARIABLES
  calls,     \* calls that began; the number of a call stands for its payload
  pending,   \* calls that have not taken effect and still may
  applied,   \* calls that took effect and have not ended
  shown,     \* what a reader finds
  fallback,  \* what a reader may find after a power loss
  returned   \* calls whose caller was told that they are durable

vars == <<calls, pending, applied, shown, fallback, returned>>

Init ==
  /\ calls = 0 /\ shown = 0 /\ fallback = {0}
  /\ pending = {} /\ applied = {} /\ returned = {}

Begin ==
  /\ calls' = calls + 1 /\ pending' = pending \cup {calls'}
  /\ UNCHANGED <<applied, shown, fallback, returned>>

TakeEffect(p) ==
  /\ p \in pending
  /\ pending' = pending \ {p} /\ applied' = applied \cup {p}
  /\ shown' = p /\ fallback' = fallback \cup {p}
  /\ UNCHANGED <<calls, returned>>

\* The caller is told, and so is whoever published before.
Return(p) ==
  /\ p \in applied
  /\ applied' = applied \ {p} /\ returned' = returned \cup {p}
  /\ fallback' = {shown}
  /\ UNCHANGED <<calls, pending, shown>>

\* A call fails, or its process is killed: it will have no effect that it did not have.
GiveUp(p) ==
  /\ p \in pending \cup applied
  /\ pending' = pending \ {p} /\ applied' = applied \ {p}
  /\ UNCHANGED <<calls, shown, fallback, returned>>

PowerLoss ==
  /\ shown' \in fallback /\ fallback' = {shown'}
  /\ pending' = {} /\ applied' = {}
  /\ UNCHANGED <<calls, returned>>

Next ==
  \/ Begin \/ PowerLoss
  \/ \E p \in pending \cup applied : TakeEffect(p) \/ Return(p) \/ GiveUp(p)

Spec == Init /\ [][Next]_vars
=============================================================================
