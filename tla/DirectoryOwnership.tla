------------------------ MODULE DirectoryOwnership --------------------------
(***************************************************************************)
(* What the lock of a data directory promises (docs/architecture.md): one  *)
(* session at a time owns the directory, only the owner writes under it,   *)
(* and a session that gives the directory up writes no more.               *)
(***************************************************************************)

CONSTANTS Sessions, None

VARIABLES
    owner,    \* the session that owns the directory, or None
    writers   \* the sessions that may write under it

vars == <<owner, writers>>

Init == owner = None /\ writers = {}

Enter(p) == owner = None /\ owner' = p /\ writers' = {p}

Pause(p) == owner = p /\ writers' = writers \ {p} /\ UNCHANGED owner

Resume(p) == owner = p /\ writers' = writers \cup {p} /\ UNCHANGED owner

Leave(p) == owner = p /\ owner' = None /\ writers' = {}

Next == \E p \in Sessions : Enter(p) \/ Pause(p) \/ Resume(p) \/ Leave(p)

Spec == Init /\ [][Next]_vars
=============================================================================
