-------------------------- MODULE AnnotationReview -------------------------
(***************************************************************************)
(* The store of the annotation pilot's review servers                      *)
(* (annotation_review/server.py, ReviewStore): every answer is a file of   *)
(* its own, 000001.json, 000002.json, ..., in the directory of its event.  *)
(* Several servers may run on one batch; any of them may be killed or have *)
(* a file operation fail at any step, and the machine may lose power.      *)
(*                                                                         *)
(* Abstractions.  One example of one batch, whose manifest and media stay. *)
(* An answer is the number of the request that gave it.  Directories are   *)
(* the four levels of the store; a directory or a link that was not synced *)
(* may or may not survive a loss of power, and the links of one directory  *)
(* survive in their order.  .pending- files left behind are skipped by     *)
(* every reader and are left out.  Reading the history is one step.        *)
(***************************************************************************)
EXTENDS Naturals, Sequences, FiniteSets

CONSTANTS
    Servers,
    Extras,    \* identities of further events of the example
    MaxExtra,  \* further events the example may have (31)
    MaxSaves,  \* bound: requests to save
    MaxFaults  \* bound: failed file operations, kills and losses of power

ConstantsAssumption ==
    /\ {"annotations", "example", "events"} \cap Extras = {} /\ "primary" \notin Extras
    /\ {MaxExtra, MaxSaves, MaxFaults} \subseteq Nat

VARIABLES
    dirs,    \* of each directory: absent, loose (there, its entry not synced) or synced
    files,   \* of each event: its answers, in the order of their revisions
    synced,  \* of each event: how many of them a loss of power spares
    work,    \* of each server: the save it is in
    acked,   \* the saves that were acknowledged; root: below a synced annotations
    vanished, \* history: those acknowledged when a loss of power took annotations
    saves, faults

vars == <<dirs, files, synced, work, acked, vanished, saves, faults>>

Events == {"primary"} \cup Extras
Directories == {"annotations", "example", "events"} \cup Extras
\* The directories above the files of an event, from the batch down.
Way(event) ==
    IF event = "primary" THEN <<"annotations", "example">>
    ELSE <<"annotations", "example", "events", event>>
Idle == [event |-> "primary", expected |-> 0, revision |-> 0, id |-> 0, level |-> 0, whole |-> FALSE, at |-> "idle"]

\* A batch nobody has reviewed yet, or one that is in use.
Init ==
    /\ \E inUse \in BOOLEAN :
          dirs = [d \in Directories |-> IF inUse /\ d = "annotations" THEN "synced" ELSE "absent"]
    /\ files = [e \in Events |-> <<>>] /\ synced = [e \in Events |-> 0]
    /\ work = [p \in Servers |-> Idle]
    /\ acked = {} /\ vanished = {} /\ saves = 0 /\ faults = 0

At(p, step) == work[p].at = step
Go(p, step) == work' = [work EXCEPT ![p].at = step]
Answer(p) == work' = [work EXCEPT ![p] = Idle]
Locked == {p \in Servers : work[p].at \notin {"idle", "look", "root", "syncroot", "lock"}}

\* A form that shows the newest answer or the one before it.
Ask(p, event) ==
    /\ At(p, "idle") /\ saves < MaxSaves /\ saves' = saves + 1
    /\ \E expected \in {n \in 0..Len(files[event]) : n + 1 >= Len(files[event])} :
          work' = [work EXCEPT ![p] = [Idle EXCEPT !.event = event, !.expected = expected, !.id = saves + 1, !.at = "look"]]
    /\ UNCHANGED <<dirs, files, synced, acked, vanished, faults>>

\* _annotation_directory and _write_lock: only the server that finds no directory syncs
\* the batch, and it does so before it waits for the lock.
Look(p) ==
    /\ At(p, "look") /\ Go(p, IF dirs["annotations"] = "absent" THEN "root" ELSE "lock")
    /\ UNCHANGED <<dirs, files, synced, acked, vanished, saves, faults>>
Made(d) == [dirs EXCEPT ![d] = IF @ = "absent" THEN "loose" ELSE @]
MakeRoot(p) ==
    /\ At(p, "root") /\ dirs' = Made("annotations") /\ Go(p, "syncroot")
    /\ UNCHANGED <<files, synced, acked, vanished, saves, faults>>
SyncRoot(p) ==
    /\ At(p, "syncroot") /\ dirs' = [dirs EXCEPT !["annotations"] = "synced"] /\ Go(p, "lock")
    /\ UNCHANGED <<files, synced, acked, vanished, saves, faults>>
MutLock(p) ==
    /\ At(p, "lock") /\ Go(p, "check")
    /\ UNCHANGED <<dirs, files, synced, acked, vanished, saves, faults>>
Lock(p) ==
    /\ At(p, "lock") /\ Locked = {} /\ Go(p, "check")
    /\ UNCHANGED <<dirs, files, synced, acked, vanished, saves, faults>>

\* The history is read and the request compared with it.
Answered == {e \in Events : files[e] # <<>>}
Refused(p) ==
    LET request == work[p] IN
    \/ request.expected # Len(files[request.event])
    \/ request.event \notin Answered /\ Cardinality(Answered) > MaxExtra
Check(p) ==
    /\ At(p, "check")
    /\ IF Refused(p) THEN Answer(p)
       ELSE work' = [work EXCEPT ![p].at = "make", ![p].level = 2, ![p].revision = work[p].expected + 1]
    /\ UNCHANGED <<dirs, files, synced, acked, vanished, saves, faults>>

\* Every directory is made if it has to be, and its parent is synced either way.
Level(p) == Way(work[p].event)[work[p].level]
TooMany(p) ==
    /\ Level(p) \in Extras /\ dirs[Level(p)] = "absent"
    /\ Cardinality({x \in Extras : dirs[x] # "absent"}) >= MaxExtra
Below(p) ==
    IF work[p].level = Len(Way(work[p].event)) THEN Go(p, "write")
    ELSE work' = [work EXCEPT ![p].level = @ + 1, ![p].at = "make"]
MutMake(p) ==
    /\ At(p, "make")
    /\ IF TooMany(p) THEN Answer(p) /\ UNCHANGED dirs
       ELSE dirs' = Made(Level(p)) /\ IF dirs[Level(p)] = "absent" THEN Go(p, "sync") ELSE Below(p)
    /\ UNCHANGED <<files, synced, acked, vanished, saves, faults>>
MutMakeAny(p) ==
    /\ At(p, "make") /\ dirs' = Made(Level(p)) /\ Go(p, "sync")
    /\ UNCHANGED <<files, synced, acked, vanished, saves, faults>>
Make(p) ==
    /\ At(p, "make")
    /\ IF TooMany(p) THEN Answer(p) /\ UNCHANGED dirs
       ELSE dirs' = Made(Level(p)) /\ Go(p, "sync")
    /\ UNCHANGED <<files, synced, acked, vanished, saves, faults>>
Sync(p) ==
    /\ At(p, "sync") /\ dirs' = [dirs EXCEPT ![Level(p)] = "synced"] /\ Below(p)
    /\ UNCHANGED <<files, synced, acked, vanished, saves, faults>>

\* A temporary file is written and synced, linked under the next number, and the
\* directory is synced; then the temporary name goes and the directory is synced again.
Write(p) ==
    /\ At(p, "write") /\ work' = [work EXCEPT ![p].whole = TRUE, ![p].at = "link"]
    /\ UNCHANGED <<dirs, files, synced, acked, vanished, saves, faults>>
Link(p) ==
    LET event == work[p].event IN
    /\ At(p, "link")
    /\ IF work[p].revision <= Len(files[event]) THEN Answer(p) /\ UNCHANGED files
       ELSE /\ files' = [files EXCEPT ![event] = Append(@, [id |-> work[p].id, whole |-> work[p].whole])]
            /\ Go(p, "settle")
    /\ UNCHANGED <<dirs, synced, acked, vanished, saves, faults>>
Settle(p) ==
    /\ At(p, "settle")
    /\ synced' = [synced EXCEPT ![work[p].event] = Len(files[work[p].event])] /\ Go(p, "tidy")
    /\ UNCHANGED <<dirs, files, acked, vanished, saves, faults>>
Tidy(p) ==
    /\ At(p, "tidy") /\ Answer(p)
    /\ acked' = acked \cup {[event |-> work[p].event, revision |-> work[p].revision,
                             id |-> work[p].id, root |-> dirs["annotations"] = "synced"]}
    /\ UNCHANGED <<dirs, files, synced, vanished, saves, faults>>

(***************************************************************************)
(* Faults.                                                                 *)
(***************************************************************************)
Fault == faults < MaxFaults /\ faults' = faults + 1
\* A file operation fails and the request with it, or the server is killed; the kernel
\* lets its lock go either way.
Stops(p) ==
    /\ ~At(p, "idle") /\ Fault /\ Answer(p)
    /\ UNCHANGED <<dirs, files, synced, acked, vanished, saves>>
PowerLoss ==
    /\ Fault /\ work' = [p \in Servers |-> Idle]
    /\ \E lost \in SUBSET {d \in Directories : dirs[d] = "loose"} :
          LET Gone(way) == \E n \in 1..Len(way) : way[n] \in lost
              Above(d) == IF d \in Extras THEN Way(d)
                          ELSE IF d = "events" THEN <<"annotations", "example", "events">>
                          ELSE IF d = "example" THEN <<"annotations", "example">> ELSE <<"annotations">>
              left == {e \in Events : ~Gone(Way(e))}
          IN /\ dirs' = [d \in Directories |->
                           IF dirs[d] = "absent" \/ Gone(Above(d)) THEN "absent" ELSE "synced"]
             /\ \E most \in [Events -> 0..MaxSaves] :
                   /\ \A e \in Events : most[e] \in IF e \in left THEN synced[e]..Len(files[e]) ELSE {0}
                   /\ files' = [e \in Events |-> SubSeq(files[e], 1, most[e])]
                   /\ synced' = most
             /\ vanished' = IF "annotations" \in lost THEN vanished \cup acked ELSE vanished
    /\ UNCHANGED <<acked, saves>>

Next ==
    \/ PowerLoss
    \/ \E p \in Servers :
          \/ \E event \in Events : Ask(p, event)
          \/ Look(p) \/ MakeRoot(p) \/ SyncRoot(p) \/ Lock(p) \/ Check(p) \/ Make(p) \/ Sync(p)
          \/ Write(p) \/ Link(p) \/ Settle(p) \/ Tidy(p) \/ Stops(p)
Spec == Init /\ [][Next]_vars

(***************************************************************************)
(* Properties.                                                             *)
(***************************************************************************)
Steps == {"idle", "look", "root", "syncroot", "lock", "check", "make", "sync", "write", "link", "settle", "tidy"}
\* Every answer lies in directories that are there, and one server at a time is past the
\* lock (ReviewStore._write_lock).
TypeOK ==
    /\ dirs \in [Directories -> {"absent", "loose", "synced"}]
    /\ \A e \in Events :
          /\ synced[e] \in 0..Len(files[e])
          /\ files[e] # <<>> => \A n \in 1..Len(Way(e)) : dirs[Way(e)[n]] # "absent"
    /\ \A p \in Servers : work[p].at \in Steps /\ work[p].id \in 0..MaxSaves
    /\ Cardinality(Locked) <= 1

\* An acknowledged answer stays under its revision, whatever other servers save, fail at
\* or are killed in, and through losses of power (ReviewStore.save; "previous revisions
\* are retained").  One way is left open: the server that makes annotations syncs it
\* outside the lock, and once, so what another acknowledges before that sync, or after
\* the first was killed in front of it, goes with the directory if the power does.
AckedKept ==
    \A save \in acked :
       \/ Len(files[save.event]) >= save.revision /\ files[save.event][save.revision].id = save.id
       \/ save \in vanished /\ ~save.root

\* The history can be read: no answer is there in part, and no more events were begun than
\* a reader accepts; one clip that cannot be read makes every request of the batch fail
\* (ReviewStore._history).
HistoryReadable ==
    /\ \A e \in Events : \A n \in 1..Len(files[e]) : files[e][n].whole
    /\ Cardinality({x \in Extras : dirs[x] # "absent"}) <= MaxExtra
=============================================================================
