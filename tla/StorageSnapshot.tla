-------------------------- MODULE StorageSnapshot --------------------------
(***************************************************************************)
(* snapshot_qdrant_storage (benchmark/snapshots.py): a private copy of a   *)
(* storage tree that another program may be changing.  The tree is scanned *)
(* twice, file by file, the first time into a staging directory; if both   *)
(* scans saw the same states, the staging directory is renamed to its      *)
(* final name.  Whatever fails, the staging directory is removed again, in *)
(* a bounded number of attempts, or handed to the caller to be removed.    *)
(*                                                                         *)
(* Abstractions.  The state of a file or directory (device, inode, times,  *)
(* size) is a change time that no two changes share.  Subdirectories are   *)
(* one level deep and stay.  The order of names, and limits other than the *)
(* number of entries, are left out; so is a process that ends without      *)
(* unwinding (the scratch directory is private to the run and goes with    *)
(* it).                                                                    *)
(***************************************************************************)
EXTENDS Naturals, FiniteSets

CONSTANTS
    Files, Subdirs, Root,
    DirOf,        \* DirOf[f]: the directory of file f
    Contents,
    MaxEntries,   \* QdrantSnapshotLimits.max_entries
    Attempts,     \* _STAGING_CLEANUP_ATTEMPTS
    MaxClock,     \* bound: changes of the source
    MaxFaults     \* bound: calls of the operating system that fail

None == "none"
Dirs == Subdirs \cup {Root}
Nodes == Files \cup Subdirs

ASSUME ConstantsAssumption ==
    /\ Root \notin Files \cup Subdirs /\ Files \cap Subdirs = {}
    /\ DirOf \in [Files -> Dirs]
    /\ Contents # {} /\ None \notin Contents \cup Files \cup Subdirs
    /\ {MaxEntries, Attempts, MaxClock, MaxFaults} \subseteq Nat /\ Attempts > 0

VARIABLES
    src,      \* src[f]: the content of f in the source, None when absent
    stamp,    \* stamp[n]: when n was last changed
    clock,
    pc, pass,
    dir,      \* the directory being visited
    todo,     \* todo[d]: names listed in d and not visited
    file,     \* the open file and its state when it was opened
    seen,     \* seen[p][n]: n as scan p saw it
    atStart,  \* the state of the root before the scans
    copy,     \* copy[f]: the content of f under staging, None when absent
    made,     \* directories under staging
    name,     \* the name of the staging directory: absent, partial, final
    disk,     \* what a power loss leaves for certain: [name, nodes]
    tries, faults,
    mid       \* the source between the scans, for the properties

source == <<src, stamp, clock>>
scan == <<pass, dir, todo, file, seen, atStart, mid>>
staging == <<copy, made, name, disk>>
vars == <<source, pc, scan, staging, tries, faults>>

NoFile == [name |-> None, state |-> 0]
Unseen == [there |-> FALSE, state |-> 0, content |-> None]
Entry(state, content) == [there |-> TRUE, state |-> state, content |-> content]

Init ==
    /\ src \in [Files -> Contents \cup {None}]
    /\ stamp = [n \in Nodes \cup {Root} |-> 0] /\ clock = 0
    /\ pc = "start" /\ pass = 1 /\ dir = Root
    /\ todo = [d \in Dirs |-> {}]
    /\ file = NoFile
    /\ seen = [p \in {1, 2} |-> [n \in Nodes |-> Unseen]]
    /\ atStart = 0
    /\ copy = [f \in Files |-> None] /\ made = {}
    /\ name = "absent" /\ disk = [name |-> "absent", nodes |-> {}]
    /\ tries = 0 /\ faults = 0
    /\ mid = [f \in Files |-> None]

-----------------------------------------------------------------------------
(* The program that owns the source (external) *)

Change(f, c) ==
    /\ clock < MaxClock /\ src[f] # c
    /\ src' = [src EXCEPT ![f] = c]
    /\ clock' = clock + 1
    /\ stamp' = [n \in DOMAIN stamp |->
           IF n = f \/ (n = DirOf[f] /\ (c = None \/ src[f] = None)) THEN clock + 1 ELSE stamp[n]]
    /\ UNCHANGED <<pc, scan, staging, tries, faults>>

-----------------------------------------------------------------------------
(* The two scans *)

Listed(d) ==
    {f \in Files : DirOf[f] = d /\ src[f] # None} \cup (IF d = Root THEN Subdirs ELSE {})

\* Entries of the current scan, those listed and not yet visited included.
Counted == Cardinality({n \in Nodes : seen[pass][n].there} \cup UNION {todo[d] : d \in Dirs})

Fail == pc' = IF name = "absent" THEN "failed" ELSE "open"

Start ==
    /\ pc = "start"
    /\ atStart' = stamp[Root]
    /\ name' = "partial"
    /\ pc' = "list"
    /\ UNCHANGED <<source, pass, dir, todo, file, seen, mid, copy, made, disk, tries, faults>>

\* Mutant: the limit allows one entry more.
MutWithinLimit(names) == Counted + Cardinality(names) <= MaxEntries + 1

\* _bounded_directory_names reads no more names than the limit leaves.
WithinLimit(names) == Counted + Cardinality(names) <= MaxEntries

List ==
    /\ pc = "list"
    /\ IF WithinLimit(Listed(dir))
       THEN todo' = [todo EXCEPT ![dir] = Listed(dir)] /\ pc' = "next"
       ELSE Fail /\ UNCHANGED todo
    /\ UNCHANGED <<source, pass, dir, file, seen, atStart, mid, staging, tries, faults>>

Visited(n, entry) ==
    /\ seen' = [seen EXCEPT ![pass][n] = entry]
    /\ todo' = [todo EXCEPT ![dir] = @ \ {n}]

EnterDirectory(d) ==
    /\ pc = "next" /\ d \in todo[dir] \cap Subdirs
    /\ Visited(d, Entry(stamp[d], None))
    /\ dir' = d /\ pc' = "list"
    /\ IF pass = 1
       THEN made' = made \cup {d} /\ disk' = [disk EXCEPT !.nodes = @ \cup {d}]
       ELSE UNCHANGED <<made, disk>>
    /\ UNCHANGED <<source, pass, file, atStart, mid, copy, name, tries, faults>>

\* The directory is as it was when it was entered.
LeaveDirectory ==
    /\ pc = "next" /\ dir # Root /\ todo[dir] = {}
    /\ IF stamp[dir] = seen[pass][dir].state
       THEN dir' = Root /\ UNCHANGED pc
       ELSE Fail /\ UNCHANGED dir
    /\ UNCHANGED <<source, pass, todo, file, seen, atStart, mid, staging, tries, faults>>

OpenFile(f) ==
    /\ pc = "next" /\ f \in todo[dir] \cap Files
    /\ IF src[f] = None
       THEN Fail /\ UNCHANGED file
       ELSE pc' = "read" /\ file' = [name |-> f, state |-> stamp[f]]
    /\ UNCHANGED <<source, pass, dir, todo, seen, atStart, mid, staging, tries, faults>>

\* A file that is removed while it is open still has its last content.
ReadFile ==
    /\ pc = "read"
    /\ LET f == file.name
           c == IF src[f] = None THEN CHOOSE x \in Contents : TRUE ELSE src[f]
       IN  /\ Visited(f, Entry(file.state, c))
           /\ copy' = IF pass = 1 THEN [copy EXCEPT ![f] = c] ELSE copy
    /\ pc' = "check"
    /\ UNCHANGED <<source, pass, dir, file, atStart, mid, made, name, disk, tries, faults>>

\* Not changed while it was read; the copy is synchronised.
CheckFile ==
    /\ pc = "check"
    /\ IF stamp[file.name] = file.state
       THEN /\ pc' = "next"
            /\ disk' = IF pass = 1 THEN [disk EXCEPT !.nodes = @ \cup {file.name}] ELSE disk
       ELSE Fail /\ UNCHANGED disk
    /\ file' = NoFile
    /\ UNCHANGED <<source, pass, dir, todo, seen, atStart, mid, copy, made, name, tries, faults>>

EndFirstScan ==
    /\ pc = "next" /\ pass = 1 /\ dir = Root /\ todo[Root] = {}
    /\ pass' = 2 /\ pc' = "list"
    /\ mid' = src
    /\ UNCHANGED <<source, dir, todo, file, seen, atStart, staging, tries, faults>>

\* Mutant: only the contents of the two scans are compared.
MutUnchanged ==
    \A n \in Nodes : /\ seen[1][n].there = seen[2][n].there
                     /\ seen[1][n].content = seen[2][n].content

Unchanged == seen[1] = seen[2] /\ stamp[Root] = atStart

EndSecondScan ==
    /\ pc = "next" /\ pass = 2 /\ dir = Root /\ todo[Root] = {}
    /\ IF Unchanged THEN pc' = "publish" ELSE Fail
    /\ UNCHANGED <<source, scan, staging, tries, faults>>

\* Mutant: the parent is not synchronised.
MutSyncParent ==
    /\ pc = "sync"
    /\ pc' = "returned"
    /\ UNCHANGED <<source, scan, staging, tries, faults>>

\* _publish_staging: rename, then synchronise the parent.
Rename ==
    /\ pc = "publish"
    /\ name' = "final" /\ pc' = "sync"
    /\ UNCHANGED <<source, scan, copy, made, disk, tries, faults>>

SyncParent ==
    /\ pc = "sync"
    /\ disk' = [disk EXCEPT !.name = "final"]
    /\ pc' = "returned"
    /\ UNCHANGED <<source, scan, copy, made, name, tries, faults>>

\* A call of the operating system fails.
Fault ==
    /\ pc \in {"start", "list", "next", "read", "check", "publish", "sync"}
    /\ faults < MaxFaults /\ faults' = faults + 1
    /\ Fail
    /\ UNCHANGED <<source, scan, staging, tries>>

-----------------------------------------------------------------------------
(* Removing what was staged *)

Staged == {f \in Files : copy[f] # None} \cup made

\* Mutant: it is not known whether the last attempt removed the directory.
MutOpenStaging ==
    /\ pc = "open"
    /\ pc' = IF name = "absent" \/ Cardinality(Staged) > MaxEntries THEN "error" ELSE "clear"
    /\ UNCHANGED <<source, scan, staging, tries, faults>>

OpenStaging ==
    /\ pc = "open"
    /\ pc' = IF name = "absent" THEN "removed"
             ELSE IF Cardinality(Staged) > MaxEntries THEN "error" ELSE "clear"
    /\ UNCHANGED <<source, scan, staging, tries, faults>>

ClearEntry(n) ==
    /\ pc = "clear" /\ n \in Staged
    /\ n \in Subdirs => \A f \in Files : copy[f] # None => DirOf[f] # n
    /\ copy' = [f \in Files |-> IF f = n THEN None ELSE copy[f]]
    /\ made' = made \ {n}
    /\ UNCHANGED <<source, pc, scan, name, disk, tries, faults>>

RemoveStaging ==
    /\ pc = "clear" /\ Staged = {}
    /\ name' = "absent" /\ disk' = [disk EXCEPT !.nodes = {}]
    /\ pc' = "removed"
    /\ UNCHANGED <<source, scan, copy, made, tries, faults>>

\* The removal is durable; the call fails with its own error, or the caller
\* that retried is told of the success.
SyncRemoval ==
    /\ pc = "removed"
    /\ disk' = [disk EXCEPT !.name = "absent"]
    /\ pc' = "failed"
    /\ UNCHANGED <<source, scan, copy, made, name, tries, faults>>

CleanupFault ==
    /\ pc \in {"open", "clear", "removed"}
    /\ faults < MaxFaults /\ faults' = faults + 1
    /\ pc' = "error"
    /\ UNCHANGED <<source, scan, staging, tries>>

\* Mutant: the last attempt is not reported.
MutTryAgain ==
    /\ pc = "error"
    /\ tries' = tries + 1
    /\ pc' = IF tries + 1 < Attempts THEN "open" ELSE "failed"
    /\ UNCHANGED <<source, scan, staging, faults>>

\* Three attempts, then SnapshotCleanupError with the means to try again.
TryAgain ==
    /\ pc = "error"
    /\ tries' = tries + 1
    /\ pc' = IF tries + 1 < Attempts THEN "open" ELSE "pending"
    /\ UNCHANGED <<source, scan, staging, faults>>

\* Mutant: the attempts are not counted anew.
MutRetryCleanup ==
    /\ pc = "pending"
    /\ pc' = "open"
    /\ UNCHANGED <<source, scan, staging, tries, faults>>

\* SnapshotCleanupError.retry_cleanup.
RetryCleanup ==
    /\ pc = "pending"
    /\ tries' = 0 /\ pc' = "open"
    /\ UNCHANGED <<source, scan, staging, faults>>

\* The machine stops after the call has ended: what was not synchronised may
\* be there or not.
PowerLoss ==
    /\ pc \in {"returned", "failed"}
    /\ name' \in {name, disk.name}
    /\ \E kept \in SUBSET Nodes :
          /\ Staged \cap disk.nodes \subseteq kept /\ kept \subseteq Staged
          /\ copy' = [f \in Files |-> IF f \in kept THEN copy[f] ELSE None]
          /\ made' = made \cap kept
    /\ UNCHANGED <<source, pc, scan, disk, tries, faults>>

Step ==
    \/ Start \/ List \/ LeaveDirectory \/ ReadFile \/ CheckFile
    \/ \E d \in Subdirs : EnterDirectory(d)
    \/ \E f \in Files : OpenFile(f)
    \/ EndFirstScan \/ EndSecondScan \/ Rename \/ SyncParent
    \/ OpenStaging \/ RemoveStaging \/ SyncRemoval \/ TryAgain
    \/ \E n \in Nodes : ClearEntry(n)

Next ==
    \/ Step \/ RetryCleanup \/ Fault \/ CleanupFault \/ PowerLoss
    \/ \E f \in Files, c \in Contents \cup {None} : Change(f, c)

Spec == Init /\ [][Next]_vars

\* The call runs on, and its caller tries again while cleanup is pending.
FairSpec == Spec /\ WF_vars(Step) /\ WF_vars(RetryCleanup)

-----------------------------------------------------------------------------
(* Properties *)

States == {"start", "list", "next", "read", "check", "publish", "sync", "returned",
           "open", "clear", "removed", "error", "pending", "failed"}

Entries == [there: BOOLEAN, state: 0..MaxClock, content: Contents \cup {None}]

TypeOK ==
    /\ src \in [Files -> Contents \cup {None}]
    /\ clock \in 0..MaxClock /\ stamp \in [Nodes \cup {Root} -> 0..clock]
    /\ pc \in States /\ pass \in {1, 2} /\ dir \in Dirs
    /\ todo \in [Dirs -> SUBSET Nodes]
    /\ file \in [name: Files \cup {None}, state: 0..MaxClock]
    /\ seen \in [{1, 2} -> [Nodes -> Entries]]
    /\ atStart \in 0..MaxClock
    /\ copy \in [Files -> Contents \cup {None}] /\ made \subseteq Subdirs
    /\ name \in {"absent", "partial", "final"}
    /\ disk \in [name: {"absent", "partial", "final"}, nodes: SUBSET Nodes]
    /\ tries \in 0..Attempts /\ faults \in 0..MaxFaults
    /\ mid \in [Files -> Contents \cup {None}]

\* A snapshot that is returned is the source as it was at one moment, although
\* its files were read one after another while others were being changed.
OneMoment == pc \in {"publish", "sync", "returned"} => copy = mid

\* A snapshot that is returned outlives a power loss, under its final name and
\* complete.
ReturnedIsDurable == pc = "returned" => name = "final" /\ copy = mid

\* A call that only reports its error has left nothing behind, not even after a
\* power loss; otherwise the caller has been told.
NothingLeftBehind == pc = "failed" => name = "absent" /\ Staged = {}

\* Removing never fails for the number of entries: the copy keeps to the limit
\* that the removal is given.
RemovalFitsTheLimit == Cardinality(Staged) <= MaxEntries

\* Every call ends, with a snapshot or with nothing left, if its caller keeps
\* asking and the system stops failing.
EventuallySettled == <>(pc \in {"returned", "failed"})
=============================================================================
