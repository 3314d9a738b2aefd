---------------------------- MODULE RunRegistry ----------------------------
(***************************************************************************)
(* BenchmarkRunRegistry (benchmark/storage.py): immutable run directories  *)
(* runs/<id>/manifest.json and the derived index registry.json, changed by *)
(* several processes under one exclusive file lock.  Calls fail, processes *)
(* are killed between any two steps, the machine loses power, and people   *)
(* edit, delete and corrupt the files.                                     *)
(*                                                                         *)
(* Abstractions.  A manifest is the client that wrote it.  A digest in the *)
(* index is the manifest it was computed from.  Staging directories and    *)
(* temporary files are not kept: every reader skips their names.  The root *)
(* and the directory runs exist and are durable.  Symbolic links, size     *)
(* limits and the metadata an entry repeats from its manifest are left     *)
(* out.  A call that raises before it changes anything is no step.         *)
(***************************************************************************)
EXTENDS Naturals

CONSTANTS
    Runs, Clients, None,
    MaxFaults, MaxStops, MaxDamage   \* bounds: failing calls, stops, damage

Absent == "absent"   \* no run directory
Empty == "empty"     \* a run directory without its manifest
Edited == "edited"   \* a valid manifest that nobody added
Broken == "broken"   \* a manifest that cannot be parsed
Manifests == Clients \cup {Edited}
RunStates == Manifests \cup {Absent, Empty, Broken}

ConstantsAssumption ==
    /\ None \notin Clients \cup Runs
    /\ (Clients \cup {None}) \cap {Absent, Empty, Broken, Edited} = {}
    /\ {MaxFaults, MaxStops, MaxDamage} \subseteq Nat

Entries == [Runs -> Manifests \cup {None}]
Indexes == [ok: BOOLEAN, runs: Entries]

VARIABLES
    dirs,       \* dirs[r]: what runs/<r> holds
    index,      \* registry.json; ok: it can be parsed
    could,      \* what a power loss may leave of both
    lock,       \* the holder of .registry.lock
    pc, run,    \* of each client: its next step, and the run it adds
    new,        \* new[c]: the entries c is about to write
    unsure,     \* unsure[c]: the sync of the published run failed
    unsynced,   \* runs renamed, and not synced since nor before they were lost
    acked,      \* runs and manifests whose add returned
    rebuilt,    \* runs and manifests that a rebuild returned
    denied,     \* runs and manifests whose add failed and was undone
    returned,   \* runs and manifests that a read returned
    touched,    \* runs somebody damaged
    corrupted,  \* somebody has corrupted the index
    faults, stops, damage

files == <<dirs, index, could>>
client == <<lock, pc, run, new, unsure>>
past == <<unsynced, acked, rebuilt, denied, returned>>
outside == <<touched, corrupted, damage>>
vars == <<files, client, past, outside, faults, stops>>

NoEntries == [r \in Runs |-> None]

Init ==
    /\ dirs = [r \in Runs |-> Absent]
    /\ index = [ok |-> TRUE, runs |-> NoEntries]
    /\ could = [dirs |-> [r \in Runs |-> {Absent}],
                index |-> {[ok |-> TRUE, runs |-> NoEntries]}]
    /\ lock = None
    /\ pc = [c \in Clients |-> "idle"] /\ run = [c \in Clients |-> None]
    /\ new = [c \in Clients |-> NoEntries]
    /\ unsure = [c \in Clients |-> FALSE]
    /\ unsynced = {} /\ acked = {} /\ rebuilt = {} /\ denied = {} /\ returned = {}
    /\ touched = {} /\ corrupted = FALSE
    /\ faults = 0 /\ stops = 0 /\ damage = 0

-----------------------------------------------------------------------------
(* Steps of a call *)

Acquire(c) == lock = None /\ pc[c] = "idle" /\ lock' = c
Goto(c, step) == pc' = [pc EXCEPT ![c] = step]
Fault == faults < MaxFaults /\ faults' = faults + 1

Release(c) ==
    /\ lock' = None
    /\ Goto(c, "idle")
    /\ run' = [run EXCEPT ![c] = None]
    /\ unsure' = [unsure EXCEPT ![c] = FALSE]

SetRun(r, state) ==
    /\ dirs' = [dirs EXCEPT ![r] = state]
    /\ could' = [could EXCEPT !.dirs[r] = @ \cup {state}]

CanAdd(r) == index.ok /\ dirs[r] = Absent /\ index.runs[r] = None

MutAddBegin(c, r) ==
    /\ pc[c] = "idle" /\ lock' = c /\ CanAdd(r)
    /\ run' = [run EXCEPT ![c] = r]
    /\ new' = [new EXCEPT ![c] = [index.runs EXCEPT ![r] = c]]
    /\ Goto(c, "publish")
    /\ denied' = denied \ {<<r, c>>}
    /\ UNCHANGED <<files, unsure, unsynced, acked, rebuilt, returned, outside,
                   faults, stops>>

AddBegin(c, r) ==
    /\ Acquire(c) /\ CanAdd(r)
    /\ run' = [run EXCEPT ![c] = r]
    /\ new' = [new EXCEPT ![c] = [index.runs EXCEPT ![r] = c]]
    /\ Goto(c, "publish")
    /\ denied' = denied \ {<<r, c>>}
    /\ UNCHANGED <<files, unsure, unsynced, acked, rebuilt, returned, outside,
                   faults, stops>>

(* The staging directory is written, synced and renamed. *)
Publish(c) ==
    /\ pc[c] = "publish" /\ dirs[run[c]] = Absent
    /\ SetRun(run[c], c)
    /\ unsynced' = unsynced \cup {run[c]}
    /\ Goto(c, "syncRuns")
    /\ UNCHANGED <<index, lock, run, new, unsure, acked, rebuilt, denied, returned,
                   outside, faults, stops>>

(* Something fails before the rename; the staging directory is removed. *)
PublishFails(c) ==
    /\ pc[c] = "publish"
    /\ faults < MaxFaults \/ dirs[run[c]] # Absent
    /\ faults' = IF dirs[run[c]] = Absent THEN faults + 1 ELSE faults
    /\ denied' = denied \cup {<<run[c], c>>}
    /\ Release(c)
    /\ UNCHANGED <<files, new, unsynced, acked, rebuilt, returned, outside, stops>>

(* A sync of runs/ makes every name in it durable; an unlink inside a run   *)
(* directory is not covered.                                                *)
Settled(r) == IF dirs[r] = Empty THEN could.dirs[r] \ {Absent} ELSE {dirs[r]}

MutSyncRuns(c) ==
    /\ pc[c] = "syncRuns"
    /\ Goto(c, "index")
    /\ unsynced' = {r \in unsynced : index.runs[r] \notin {None, dirs[r]}}
    /\ UNCHANGED <<files, lock, run, new, unsure, acked, rebuilt, denied, returned,
                   outside, faults, stops>>

SyncRuns(c) ==
    /\ pc[c] = "syncRuns"
    /\ Goto(c, "index")
    /\ \/ /\ could' = [could EXCEPT !.dirs = [r \in Runs |-> Settled(r)]]
          /\ unsynced' = {r \in unsynced : index.runs[r] \notin {None, dirs[r]}}
          /\ UNCHANGED <<unsure, faults>>
       \/ /\ Fault /\ unsure' = [unsure EXCEPT ![c] = TRUE]
          /\ UNCHANGED <<could, unsynced>>
    /\ UNCHANGED <<dirs, index, lock, run, new, acked, rebuilt, denied, returned,
                   outside, stops>>

ReplaceIndex(c) ==
    /\ pc[c] = "index"
    /\ index' = [ok |-> TRUE, runs |-> new[c]]
    /\ could' = [could EXCEPT !.index = @ \cup {index'}]
    /\ Goto(c, "syncRoot")
    /\ UNCHANGED <<dirs, lock, run, new, unsure, past, outside, faults, stops>>

MutReplaceFails(c) ==
    /\ pc[c] = "index" /\ Fault
    /\ denied' = IF run[c] # None THEN denied \cup {<<run[c], c>>} ELSE denied
    /\ Release(c)
    /\ UNCHANGED <<files, new, unsynced, acked, rebuilt, returned, outside, stops>>

(* The index is as before; an add goes on to remove its run directory. *)
ReplaceFails(c) ==
    /\ pc[c] = "index" /\ Fault
    /\ IF run[c] # None
         THEN Goto(c, "unlink") /\ UNCHANGED <<lock, run, unsure>>
         ELSE Release(c)
    /\ UNCHANGED <<files, new, past, outside, stops>>

Results(c) == {r \in Runs \X Manifests : new[c][r[1]] = r[2]}

MutSyncRoot(c) ==
    /\ pc[c] = "syncRoot"
    /\ IF run[c] = None
         THEN rebuilt' = rebuilt \cup Results(c) /\ UNCHANGED acked
         ELSE /\ acked' = IF unsure[c] THEN acked ELSE acked \cup {<<run[c], c>>}
              /\ UNCHANGED rebuilt
    /\ Release(c)
    /\ UNCHANGED <<files, faults, new, unsynced, denied, returned, outside, stops>>

SyncRoot(c) ==
    /\ pc[c] = "syncRoot"
    /\ \/ /\ could' = [could EXCEPT !.index = {index}]
          /\ IF run[c] = None
               THEN rebuilt' = rebuilt \cup Results(c) /\ UNCHANGED acked
               ELSE /\ acked' = IF unsure[c] THEN acked ELSE acked \cup {<<run[c], c>>}
                    /\ UNCHANGED rebuilt
          /\ UNCHANGED faults
       \/ Fault /\ UNCHANGED <<could, acked, rebuilt>>
    /\ Release(c)
    /\ UNCHANGED <<dirs, index, new, unsynced, denied, returned, outside, stops>>

(* _remove_unregistered_run: two calls, either of which may fail *)
Unlink(c) ==
    /\ pc[c] = "unlink"
    /\ \/ SetRun(run[c], IF dirs[run[c]] = Absent THEN Absent ELSE Empty)
          /\ Goto(c, "rmdir") /\ UNCHANGED <<lock, run, unsure, faults>>
       \/ Fault /\ Release(c) /\ UNCHANGED <<dirs, could>>
    /\ UNCHANGED <<index, new, past, outside, stops>>

Rmdir(c) ==
    /\ pc[c] = "rmdir"
    /\ \/ SetRun(run[c], Absent)
          /\ denied' = denied \cup {<<run[c], c>>} /\ UNCHANGED faults
       \/ Fault /\ UNCHANGED <<dirs, could, denied>>
    /\ Release(c)
    /\ UNCHANGED <<index, new, unsynced, acked, rebuilt, returned, outside, stops>>

MutRead(c, r) ==
    /\ lock = None /\ pc[c] = "idle"
    /\ index.ok /\ index.runs[r] # None /\ dirs[r] \in Manifests
    /\ returned' = returned \cup {<<r, dirs[r]>>}
    /\ UNCHANGED <<files, client, unsynced, acked, rebuilt, denied, outside, faults,
                   stops>>

(* The whole read holds the lock; the digest must match. *)
Read(c, r) ==
    /\ lock = None /\ pc[c] = "idle"
    /\ index.ok /\ index.runs[r] # None /\ dirs[r] = index.runs[r]
    /\ returned' = returned \cup {<<r, dirs[r]>>}
    /\ UNCHANGED <<files, client, unsynced, acked, rebuilt, denied, outside, faults,
                   stops>>

(* Every directory holds a valid manifest; a readable index names none that *)
(* is missing and none that was modified.                                   *)
MutRebuildable ==
    /\ \A r \in Runs : dirs[r] \in Manifests \cup {Absent}
    /\ index.ok => \A r \in Runs : dirs[r] # Absent /\ index.runs[r] # None
                                     => dirs[r] = index.runs[r]

Rebuildable ==
    /\ \A r \in Runs : dirs[r] \in Manifests \cup {Absent}
    /\ index.ok => \A r \in Runs : index.runs[r] # None => dirs[r] = index.runs[r]

Rebuild(c) ==
    /\ Acquire(c) /\ Rebuildable
    /\ new' = [new EXCEPT ![c] =
                  [r \in Runs |-> IF dirs[r] = Absent THEN None ELSE dirs[r]]]
    /\ Goto(c, "index")
    /\ UNCHANGED <<files, run, unsure, past, outside, faults, stops>>

-----------------------------------------------------------------------------
(* The world *)

Stop == stops < MaxStops /\ stops' = stops + 1

(* A killed process, or one unwound by an interrupt, which no handler here  *)
(* catches: the lock is freed and the files stay.                           *)
Kill(c) ==
    /\ pc[c] # "idle" /\ Stop
    /\ Release(c)
    /\ UNCHANGED <<files, new, past, outside, faults>>

PowerLoss ==
    /\ Stop
    /\ dirs' \in [Runs -> RunStates] /\ \A r \in Runs : dirs'[r] \in could.dirs[r]
    /\ index' \in could.index
    /\ could' = [dirs |-> [r \in Runs |-> {dirs'[r]}], index |-> {index'}]
    /\ lock' = None /\ pc' = [c \in Clients |-> "idle"]
    /\ run' = [c \in Clients |-> None] /\ unsure' = [c \in Clients |-> FALSE]
    /\ returned' = {} /\ denied' = {}
    /\ UNCHANGED <<new, unsynced, acked, rebuilt, outside, faults>>

Damage(r) ==
    /\ damage < MaxDamage /\ damage' = damage + 1
    /\ dirs[r] # Absent
    /\ \E state \in {Edited, Broken, Absent} :
         /\ dirs' = [dirs EXCEPT ![r] = state]
         /\ could' = [could EXCEPT !.dirs[r] = {state}]
    /\ touched' = touched \cup {r}
    /\ UNCHANGED <<index, client, past, corrupted, faults, stops>>

CorruptIndex ==
    /\ damage < MaxDamage /\ damage' = damage + 1
    /\ index' = [index EXCEPT !.ok = FALSE]
    /\ could' = [could EXCEPT !.index = {index'}]
    /\ corrupted' = TRUE
    /\ UNCHANGED <<dirs, client, past, touched, faults, stops>>

Next ==
    \/ \E c \in Clients :
         \/ \E r \in Runs : AddBegin(c, r) \/ Read(c, r)
         \/ Publish(c) \/ PublishFails(c) \/ SyncRuns(c)
         \/ ReplaceIndex(c) \/ ReplaceFails(c) \/ SyncRoot(c)
         \/ Unlink(c) \/ Rmdir(c) \/ Rebuild(c) \/ Kill(c)
    \/ PowerLoss
    \/ \E r \in Runs : Damage(r)
    \/ CorruptIndex

Spec == Init /\ [][Next]_vars

-----------------------------------------------------------------------------
(* Properties *)

(* The files, the calls and the history have their types; only the holder  *)
(* of the lock is inside a call, and what is on disk is among what a power *)
(* loss may leave.                                                         *)
TypeOK ==
    /\ dirs \in [Runs -> RunStates] /\ index \in Indexes
    /\ could \in [dirs: [Runs -> SUBSET RunStates], index: SUBSET Indexes]
    /\ lock \in Clients \cup {None}
    /\ pc \in [Clients -> {"idle", "publish", "syncRuns", "index", "syncRoot",
                           "unlink", "rmdir"}]
    /\ run \in [Clients -> Runs \cup {None}]
    /\ new \in [Clients -> Entries] /\ unsure \in [Clients -> BOOLEAN]
    /\ unsynced \subseteq Runs /\ touched \subseteq Runs
    /\ acked \subseteq Runs \X Clients /\ denied \subseteq Runs \X Clients
    /\ rebuilt \subseteq Runs \X Manifests /\ returned \subseteq Runs \X Manifests
    /\ corrupted \in BOOLEAN
    /\ faults \in Nat /\ stops \in Nat /\ damage \in Nat
    /\ \A c \in Clients : pc[c] # "idle" => lock = c
    /\ \A r \in Runs : dirs[r] \in could.dirs[r]
    /\ index \in could.index

Registered(r, m) == (index.ok => index.runs[r] = m) /\ dirs[r] = m

(* add (80): when add has returned, the run stays registered with exactly  *)
(* the manifest that was added, whatever other clients do, wherever they   *)
(* are killed, through power losses and rebuilds, until somebody damages   *)
(* that very run.  (So no two adds of one id both return.)                 *)
AckedIsKept ==
    \A a \in acked : a[1] \notin touched => Registered(a[1], a[2])

(* The same of what a rebuild returned.  It does not hold: a rebuild does  *)
(* not sync runs/, so it registers for good a directory whose rename a     *)
(* power loss still takes back.                                            *)
RebuiltIsKept ==
    \A a \in rebuilt : a[1] \notin touched => Registered(a[1], a[2])

(* add, rebuild (97, 203): no writer of the index drops or changes an      *)
(* entry of a readable index, not even for a run whose directory was       *)
(* edited or deleted by hand.                                              *)
EntriesStay ==
    [][\A c \in Clients : ReplaceIndex(c) /\ index.ok =>
          \A r \in Runs : index.runs[r] # None => index'.runs[r] = index.runs[r]]_vars

(* read (128): a manifest changed by hand is never returned, unless the    *)
(* index that would have shown it was itself destroyed; and between two    *)
(* power losses every read of a run returns the same manifest.             *)
ReadsAgree ==
    ~corrupted =>
      /\ \A x \in returned : x[2] # Edited \/ x[1] \notin {a[1] : a \in acked}
      /\ \A x, y \in returned : x[1] = y[1] /\ x[1] \notin touched => x = y

(* _remove_unregistered_run (414): an add that failed and was undone has   *)
(* left neither a directory nor an entry, and a later rebuild cannot find  *)
(* it.                                                                     *)
DeniedLeavesNothing ==
    \A d \in denied : d[1] \notin touched =>
        dirs[d[1]] # d[2] /\ (index.ok => index.runs[d[1]] # d[2])

(* The order of the two syncs (93, 97): while nothing was damaged, an      *)
(* entry of the index without its manifest exists only for a run that was  *)
(* renamed and never synced; in every other state, unless the removal of a *)
(* failed run was cut short between its two calls, a rebuild succeeds.     *)
RebuildWorks ==
    damage = 0 /\ lock = None /\ (\A r \in Runs : dirs[r] # Empty)
      => Rebuildable \/ \E r \in unsynced : index.runs[r] \notin {None, dirs[r]}
=============================================================================
